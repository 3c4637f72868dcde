---------------------------- MODULE StartupProofs -----------------------------
(***************************************************************************)
(* Startup, for any number of processes, migrations, calls and faults.     *)
(*                                                                         *)
(* MigrationsAtomic is not inductive: that a transaction commits what no   *)
(* other has committed rests on the primary key of schema_migrations       *)
(* (CommitAlone), and that the versions are recorded in order on how far   *)
(* each process has come (Behind).                                         *)
(*                                                                         *)
(* That a revoked key never resolves again rests on the unique hash: the   *)
(* key has one row (UniqueRaws), because a creation inserts the key it     *)
(* generated once (InsertedByItsCall) and the seeding is refused a key     *)
(* that exists, revoked or not; and no statement clears revoked_at.        *)
(* Since rows keep their names too, the last row of a name is never older  *)
(* than the one that asks for it, which the events of creations rest on,   *)
(* and since the raw keys are finitely many the table never outgrows Ids.  *)
(***************************************************************************)
EXTENDS Startup, FiniteSetTheorems, WellFoundedInduction, TLAPS

-----------------------------------------------------------------------------
(* The migrations *)

MigrationTypeOK ==
    /\ phase \in [Instances -> Phase]
    /\ at \in [Instances -> Versions]
    /\ recorded \subseteq Versions
    /\ ran \in [Versions -> Nat]

Migrating == {"checking", "applying", "recording", "committing"}
Migrated == {"seeding", "creating", "serving"}

\* A process has everything before the migration it is at.
Behind ==
    \A i \in Instances : phase[i] \in Migrating => \A v \in Versions : v < at[i] => v \in recorded

\* The row of a migration is in at most one open transaction, and then not
\* in the table.
CommitAlone ==
    \A i \in Instances : phase[i] = "committing" =>
       /\ at[i] \notin recorded
       /\ \A j \in Instances : phase[j] = "committing" /\ at[j] = at[i] => j = i

RecordedInOrder == \A v \in recorded : \A w \in Versions : w < v => w \in recorded

RanOnce == \A v \in Versions : ran[v] = IF v \in recorded THEN 1 ELSE 0

AllRecorded == \A i \in Instances : phase[i] \in Migrated => recorded = Versions

MigrationInv ==
    /\ MigrationTypeOK
    /\ Behind
    /\ CommitAlone
    /\ RecordedInOrder
    /\ RanOnce
    /\ AllRecorded

-----------------------------------------------------------------------------

\* A new database before any process started.
LEMMA InvInit == Init => MigrationInv
<1> SUFFICES ASSUME Init PROVE MigrationInv
  OBVIOUS
<1>1. 1 \in Versions
  BY StartupAssumption DEF Versions, StartupAssumption
<1> QED
  BY <1>1 DEF Init, MigrationInv, MigrationTypeOK, Behind, CommitAlone, RecordedInOrder,
              RanOnce, AllRecorded, Phase, Migrating, Migrated

\* A step of one process that leaves the database alone.
LEMMA ProcessMoves ==
    ASSUME MigrationInv, NEW i \in Instances, NEW p \in Phase, NEW w \in Versions,
           phase' = [phase EXCEPT ![i] = p], at' = [at EXCEPT ![i] = w],
           UNCHANGED <<recorded, ran>>,
           p \in Migrating => \A v \in Versions : v < w => v \in recorded,
           p = "committing" =>
              /\ w \notin recorded
              /\ \A j \in Instances : phase[j] = "committing" => at[j] # w,
           p \in Migrated => recorded = Versions
    PROVE  MigrationInv'
<1>1. MigrationTypeOK'
  BY DEF MigrationInv, MigrationTypeOK
<1>2. \A j \in Instances : /\ phase'[j] = IF j = i THEN p ELSE phase[j]
                           /\ at'[j] = IF j = i THEN w ELSE at[j]
  BY DEF MigrationInv, MigrationTypeOK
<1>3. Behind'
  BY <1>2 DEF MigrationInv, Behind
<1>4. CommitAlone'
  BY <1>2 DEF MigrationInv, CommitAlone
<1>5. RecordedInOrder' /\ RanOnce'
  BY DEF MigrationInv, RecordedInOrder, RanOnce
<1>6. AllRecorded'
  BY <1>2 DEF MigrationInv, AllRecorded
<1> QED
  BY <1>1, <1>3, <1>4, <1>5, <1>6 DEF MigrationInv

\* log.Fatal and a crash give everything up.
LEMMA ProcessDies ==
    ASSUME MigrationInv, NEW i \in Instances, Fatal(i), UNCHANGED <<at, recorded, ran>>
    PROVE  MigrationInv'
<1>1. at[i] \in Versions /\ at' = [at EXCEPT ![i] = at[i]]
  BY DEF MigrationInv, MigrationTypeOK
<1>2. phase' = [phase EXCEPT ![i] = "down"] /\ "down" \in Phase
  BY DEF Fatal, GoTo, Phase
<1> QED
  BY <1>1, <1>2, ProcessMoves DEF Migrating, Migrated

\* A step that stays at the same migration.
LEMMA ProcessGoesOn ==
    ASSUME MigrationInv, NEW i \in Instances, NEW p \in Phase, GoTo(i, p),
           UNCHANGED <<at, recorded, ran>>,
           p \in Migrating => phase[i] \in Migrating,
           p = "committing" =>
              /\ at[i] \notin recorded
              /\ \A j \in Instances : phase[j] = "committing" => at[j] # at[i],
           p \in Migrated => recorded = Versions
    PROVE  MigrationInv'
<1>1. at[i] \in Versions /\ at' = [at EXCEPT ![i] = at[i]]
  BY DEF MigrationInv, MigrationTypeOK
<1>2. p \in Migrating => \A v \in Versions : v < at[i] => v \in recorded
  BY DEF MigrationInv, Behind
<1> QED
  BY <1>1, <1>2, ProcessMoves DEF GoTo

\* The next migration, or the seeding after the last one, once the present
\* one is recorded.
LEMMA ProcessAdvances ==
    ASSUME MigrationInv, NEW i \in Instances, phase[i] \in Migrating,
           at[i] \in recorded, NextMigration(i), UNCHANGED <<recorded, ran>>
    PROVE  MigrationInv'
<1>1. /\ at[i] \in Versions /\ recorded \subseteq Versions
      /\ \A v \in Versions : v < at[i] => v \in recorded
  BY DEF MigrationInv, MigrationTypeOK, Behind
<1>2. Migrations \in Nat
  BY StartupAssumption DEF StartupAssumption
<1>3. CASE at[i] = Migrations
  <2>1. recorded = Versions
    <3>1. \A v \in Versions : v = at[i] \/ v < at[i]
      BY <1>2, <1>3 DEF Versions
    <3> QED
      BY <1>1, <3>1
  <2>2. GoTo(i, "seeding") /\ UNCHANGED at
    BY <1>3 DEF NextMigration
  <2>3. "seeding" \in Phase /\ "seeding" \notin Migrating
    BY DEF Phase, Migrating
  <2> QED
    BY <2>1, <2>2, <2>3, ProcessGoesOn
<1>4. CASE at[i] # Migrations
  <2>1. at[i] + 1 \in Versions /\ \A v \in Versions : v < at[i] + 1 => v = at[i] \/ v < at[i]
    BY <1>1, <1>2, <1>4 DEF Versions
  <2>2. /\ phase' = [phase EXCEPT ![i] = "checking"]
        /\ at' = [at EXCEPT ![i] = at[i] + 1]
    BY <1>4 DEF NextMigration, GoTo
  <2>3. "checking" \in Phase /\ "checking" \notin Migrated
    BY DEF Phase, Migrated
  <2> QED
    BY <1>1, <2>1, <2>2, <2>3, ProcessMoves
<1> QED
  BY <1>3, <1>4

\* A commit, up to what the process does next.
LEMMA CommitKeeps ==
    ASSUME MigrationInv, NEW i \in Instances, phase[i] = "committing", Committed(i)
    PROVE  /\ recorded' \subseteq Versions /\ ran' \in [Versions -> Nat]
           /\ \A v \in recorded' : \A w \in Versions : w < v => w \in recorded'
           /\ \A v \in Versions : ran'[v] = IF v \in recorded' THEN 1 ELSE 0
           /\ recorded \subseteq recorded' /\ at[i] \in recorded'
           /\ \A j \in Instances \ {i} : phase[j] = "committing" => at[j] \notin recorded'
<1>1. at[i] \in Versions /\ recorded \subseteq Versions /\ ran \in [Versions -> Nat]
  BY DEF MigrationInv, MigrationTypeOK
<1>2. recorded' = recorded \cup {at[i]} /\ ran' = [ran EXCEPT ![at[i]] = @ + 1]
  BY DEF Committed
<1>3. at[i] \notin recorded /\ \A v \in Versions : v < at[i] => v \in recorded
  BY DEF MigrationInv, CommitAlone, Behind, Migrating
<1>4. ran[at[i]] = 0
  BY <1>1, <1>3 DEF MigrationInv, RanOnce
<1>5. \A v \in recorded' : \A w \in Versions : w < v => w \in recorded'
  BY <1>2, <1>3 DEF MigrationInv, RecordedInOrder
<1>6. \A v \in Versions : ran'[v] = IF v \in recorded' THEN 1 ELSE 0
  BY <1>1, <1>2, <1>3, <1>4 DEF MigrationInv, RanOnce
<1>7. \A j \in Instances \ {i} : phase[j] = "committing" => at[j] \notin recorded'
  BY <1>2 DEF MigrationInv, CommitAlone
<1> QED
  BY <1>1, <1>2, <1>5, <1>6, <1>7

\* The commit of a migration, reported or not.
LEMMA CommitStepKeeps ==
    ASSUME MigrationInv, NEW i \in Instances, CommitMigration(i)
    PROVE  MigrationInv'
<1>1. /\ phase[i] = "committing" /\ at[i] \in Versions /\ phase \in [Instances -> Phase]
      /\ at \in [Instances -> Versions] /\ recorded \subseteq Versions
  BY DEF CommitMigration, MigrationInv, MigrationTypeOK
<1>2. CASE Committed(i) /\ NextMigration(i)
  <2>1. /\ recorded' \subseteq Versions /\ ran' \in [Versions -> Nat]
        /\ \A v \in recorded' : \A w \in Versions : w < v => w \in recorded'
        /\ \A v \in Versions : ran'[v] = IF v \in recorded' THEN 1 ELSE 0
        /\ recorded \subseteq recorded' /\ at[i] \in recorded'
        /\ \A j \in Instances \ {i} : phase[j] = "committing" => at[j] \notin recorded'
    BY <1>1, <1>2, CommitKeeps
  <2>2. Migrations \in Nat
    BY StartupAssumption DEF StartupAssumption
  <2>3. PICK p \in Phase, w \in Versions :
          /\ phase' = [phase EXCEPT ![i] = p] /\ at' = [at EXCEPT ![i] = w]
          /\ \/ p = "seeding" /\ w = Migrations /\ w = at[i]
             \/ p = "checking" /\ w = at[i] + 1
    <3>1. CASE at[i] = Migrations
      <4>1. phase' = [phase EXCEPT ![i] = "seeding"] /\ at' = [at EXCEPT ![i] = at[i]]
        BY <1>1, <1>2, <3>1 DEF NextMigration, GoTo
      <4> QED
        BY <1>1, <3>1, <4>1 DEF Phase
    <3>2. CASE at[i] # Migrations
      <4>1. phase' = [phase EXCEPT ![i] = "checking"] /\ at' = [at EXCEPT ![i] = at[i] + 1]
        BY <1>2, <3>2 DEF NextMigration, GoTo
      <4>2. at[i] + 1 \in Versions
        BY <1>1, <2>2, <3>2 DEF Versions
      <4> QED
        BY <4>1, <4>2 DEF Phase
    <3> QED
      BY <3>1, <3>2
  <2>4. \A j \in Instances : /\ phase'[j] = IF j = i THEN p ELSE phase[j]
                             /\ at'[j] = IF j = i THEN w ELSE at[j]
    BY <1>1, <2>3
  <2>5. MigrationTypeOK'
    BY <1>1, <2>1, <2>3 DEF MigrationTypeOK
  <2>6. \A v \in Versions : v < at[i] => v \in recorded'
    BY <1>1, <2>1
  <2>7. Behind'
    <3>1. ASSUME p = "checking" PROVE \A v \in Versions : v < w => v \in recorded'
      <4>1. \A v \in Versions : v < w => v = at[i] \/ v < at[i]
        BY <1>1, <2>3, <3>1 DEF Versions
      <4> QED
        BY <2>1, <2>6, <4>1
    <3> QED
      BY <2>1, <2>3, <2>4, <3>1 DEF MigrationInv, Behind, Migrating
  <2>8. CommitAlone'
    BY <2>1, <2>3, <2>4 DEF MigrationInv, CommitAlone
  <2>9. AllRecorded'
    <3>1. ASSUME p = "seeding" PROVE recorded' = Versions
      <4>1. \A v \in Versions : v = at[i] \/ v < at[i]
        BY <2>2, <2>3, <3>1 DEF Versions
      <4> QED
        BY <2>1, <2>6, <4>1
    <3>2. recorded = Versions => recorded' = Versions
      BY <2>1
    <3> QED
      BY <2>3, <2>4, <3>1, <3>2 DEF MigrationInv, AllRecorded, Migrated
  <2> QED
    BY <2>1, <2>5, <2>7, <2>8, <2>9 DEF MigrationInv, RecordedInOrder, RanOnce
<1>3. CASE Committed(i) /\ Fatal(i) /\ UNCHANGED at
  <2>1. /\ recorded' \subseteq Versions /\ ran' \in [Versions -> Nat]
        /\ \A v \in recorded' : \A w \in Versions : w < v => w \in recorded'
        /\ \A v \in Versions : ran'[v] = IF v \in recorded' THEN 1 ELSE 0
        /\ recorded \subseteq recorded' /\ at[i] \in recorded'
        /\ \A j \in Instances \ {i} : phase[j] = "committing" => at[j] \notin recorded'
    BY <1>1, <1>3, CommitKeeps
  <2>2. \A j \in Instances : phase'[j] = IF j = i THEN "down" ELSE phase[j]
    BY <1>1, <1>3 DEF Fatal, GoTo
  <2>3. MigrationTypeOK'
    BY <1>1, <1>3, <2>1 DEF MigrationTypeOK, Fatal, GoTo, Phase
  <2>4. Behind'
    BY <1>3, <2>1, <2>2 DEF MigrationInv, Behind, Migrating
  <2>5. CommitAlone'
    BY <1>3, <2>1, <2>2 DEF MigrationInv, CommitAlone
  <2>6. AllRecorded'
    BY <2>1, <2>2 DEF MigrationInv, AllRecorded, Migrated
  <2> QED
    BY <2>1, <2>3, <2>4, <2>5, <2>6 DEF MigrationInv, RecordedInOrder, RanOnce
<1>4. CASE UNCHANGED <<recorded, ran>> /\ Fatal(i) /\ UNCHANGED at
  BY <1>4, ProcessDies
<1> QED
  BY <1>2, <1>3, <1>4 DEF CommitMigration

\* Each statement of RunMigrations keeps the invariant of the migrations.
LEMMA StartUpKeeps ==
    ASSUME MigrationInv, NEW i \in Instances, StartUp(i)
    PROVE  MigrationInv'
<1>1. CASE Start(i)
  <2>1. CASE GoTo(i, "checking")
    <3>1. 1 \in Versions /\ \A v \in Versions : ~(v < 1)
      BY StartupAssumption DEF Versions, StartupAssumption
    <3>2. /\ phase' = [phase EXCEPT ![i] = "checking"] /\ at' = [at EXCEPT ![i] = 1]
          /\ UNCHANGED <<recorded, ran>>
      BY <1>1, <2>1 DEF Start, GoTo
    <3>3. "checking" \in Phase /\ "checking" \notin Migrated
      BY DEF Phase, Migrated
    <3> QED
      BY <3>1, <3>2, <3>3, ProcessMoves
  <2>2. CASE Fatal(i)
    <3>1. 1 \in Versions
      BY StartupAssumption DEF Versions, StartupAssumption
    <3>2. /\ phase' = [phase EXCEPT ![i] = "down"] /\ at' = [at EXCEPT ![i] = 1]
          /\ UNCHANGED <<recorded, ran>>
      BY <1>1, <2>2 DEF Start, Fatal, GoTo
    <3>3. "down" \in Phase /\ "down" \notin Migrated /\ "down" \notin Migrating
      BY DEF Phase, Migrated, Migrating
    <3> QED
      BY <3>1, <3>2, <3>3, ProcessMoves
  <2> QED
    BY <1>1, <2>1, <2>2 DEF Start
<1>2. CASE CheckMigration(i)
  <2>1. phase[i] \in Migrating /\ UNCHANGED <<recorded, ran>>
    BY <1>2 DEF CheckMigration, Migrating
  <2>2. CASE at[i] \in recorded /\ NextMigration(i)
    BY <2>1, <2>2, ProcessAdvances
  <2>3. CASE GoTo(i, "applying") /\ UNCHANGED at
    <3>1. "applying" \in Phase /\ "applying" \notin Migrated
      BY DEF Phase, Migrated
    <3> QED
      BY <2>1, <2>3, <3>1, ProcessGoesOn
  <2>4. CASE Fatal(i) /\ UNCHANGED at
    BY <2>1, <2>4, ProcessDies
  <2> QED
    BY <1>2, <2>2, <2>3, <2>4 DEF CheckMigration
<1>3. CASE ApplyMigration(i)
  <2>1. phase[i] \in Migrating /\ UNCHANGED <<at, recorded, ran>>
    BY <1>3 DEF ApplyMigration, Migrating
  <2>2. CASE GoTo(i, "recording")
    <3>1. "recording" \in Phase /\ "recording" \notin Migrated
      BY DEF Phase, Migrated
    <3> QED
      BY <2>1, <2>2, <3>1, ProcessGoesOn
  <2>3. CASE Fatal(i)
    BY <2>1, <2>3, ProcessDies
  <2> QED
    BY <1>3, <2>2, <2>3 DEF ApplyMigration
<1>4. CASE RecordMigration(i)
  <2>1. phase[i] \in Migrating /\ UNCHANGED <<at, recorded, ran>>
    BY <1>4 DEF RecordMigration, Migrating
  <2>2. CASE at[i] \notin recorded /\ GoTo(i, "committing")
    <3>1. "committing" \in Phase /\ "committing" \notin Migrated
      BY DEF Phase, Migrated
    <3>2. \A j \in Instances : phase[j] = "committing" => at[j] # at[i]
      BY <1>4 DEF RecordMigration
    <3> QED
      BY <2>1, <2>2, <3>1, <3>2, ProcessGoesOn
  <2>3. CASE Fatal(i)
    BY <2>1, <2>3, ProcessDies
  <2> QED
    BY <1>4, <2>2, <2>3 DEF RecordMigration
<1>5. CASE CommitMigration(i)
  BY <1>5, CommitStepKeeps
<1>6. ASSUME NEW p \in {"down", "creating", "serving"}, phase[i] \in {"seeding", "creating"},
             GoTo(i, p), UNCHANGED <<at, recorded, ran>>
      PROVE  MigrationInv'
  <2>1. recorded = Versions
    BY <1>6 DEF MigrationInv, AllRecorded, Migrated
  <2>2. p \in Phase /\ p \notin Migrating
    BY DEF Phase, Migrating
  <2> QED
    BY <1>6, <2>1, <2>2, ProcessGoesOn DEF Migrating
<1>7. CASE ResolveSeed(i)
  BY <1>6, <1>7 DEF ResolveSeed
<1>8. CASE CreateSeed(i)
  BY <1>6, <1>8 DEF CreateSeed, SeedFailed
<1> QED
  BY <1>1, <1>2, <1>3, <1>4, <1>5, <1>7, <1>8 DEF StartUp

\* So does every step of the system.
LEMMA StepKeeps ==
    ASSUME MigrationInv, [Next]_vars
    PROVE  MigrationInv'
<1>1. ASSUME NEW i \in Instances, StartUp(i) PROVE MigrationInv'
  BY <1>1, StartUpKeeps
<1>2. ASSUME NEW i \in Instances, Crash(i) PROVE MigrationInv'
  <2>1. Fatal(i) /\ UNCHANGED <<at, recorded, ran>>
    BY <1>2 DEF Crash, Fatal
  <2> QED
    BY <2>1, ProcessDies
<1>3. CASE Serve \/ UNCHANGED vars
  BY <1>3 DEF Serve, startVars, vars, MigrationInv, MigrationTypeOK, Behind, CommitAlone,
              RecordedInOrder, RanOnce, AllRecorded
<1> QED
  BY <1>1, <1>2, <1>3 DEF Next

\* However many processes start, fail and crash together, the database and
\* the processes on their way through RunMigrations satisfy the invariant.
THEOREM MigrationInvariant == Spec => []MigrationInv
<1>1. Init => MigrationInv
  BY InvInit
<1>2. MigrationInv /\ [Next]_vars => MigrationInv'
  BY StepKeeps
<1> QED
  BY <1>1, <1>2, PTL DEF Spec

\* database.RunMigrations applies the migrations in order and each once,
\* schema_migrations lists exactly those, and whoever has left it finds all.
THEOREM MigrationsAreAtomic == Spec => []MigrationsAtomic
<1>1. ASSUME MigrationInv PROVE MigrationsAtomic
  <2>1. Migrations \in Nat /\ recorded \subseteq Versions
    BY <1>1, StartupAssumption DEF StartupAssumption, MigrationInv, MigrationTypeOK
  <2>2. ASSUME NEW v \in recorded PROVE 1 .. v \subseteq recorded
    <3>1. \A w \in 1 .. v : w \in Versions /\ (w = v \/ w < v)
      BY <2>1 DEF Versions
    <3> QED
      BY <1>1, <3>1 DEF MigrationInv, RecordedInOrder
  <2>3. ASSUME NEW i \in Instances, phase[i] \in {"applying", "recording", "committing"}
        PROVE  1 .. at[i] - 1 \subseteq recorded
    <3>1. at[i] \in Versions /\ \A w \in Versions : w < at[i] => w \in recorded
      BY <1>1, <2>3 DEF MigrationInv, MigrationTypeOK, Behind, Migrating
    <3>2. \A w \in 1 .. at[i] - 1 : w \in Versions /\ w < at[i]
      BY <2>1, <3>1 DEF Versions
    <3> QED
      BY <3>1, <3>2
  <2> QED
    BY <1>1, <2>2, <2>3 DEF MigrationsAtomic, MigrationInv, RanOnce, AllRecorded, Migrated
<1>2. MigrationInv => MigrationsAtomic
  BY <1>1
<1> QED
  BY <1>2, MigrationInvariant, PTL

-----------------------------------------------------------------------------
(* The table of keys *)

KeyTypeOK ==
    /\ \E n \in Nat : rows \in [1 .. n -> Row]
    /\ create \in [Creations -> {"new", "inserted", "found", "failed", "answered"}]
    /\ name \in [Creations -> Names]
    /\ revoke \in [Revocations -> {"new", "found", "revoked", "200", "404", "lost"}]
    /\ target \in [Revocations -> Int]

UniqueRaws == \A i, j \in DOMAIN rows : rows[i].raw = rows[j].raw => i = j

InsertedByItsCall == \A i \in DOMAIN rows : \A c \in Creations :
    rows[i].raw = c => create[c] # "new"

Successful(v) == revoke[v] \in {"revoked", "200"}

\* A revocation past its look-up has a row, a successful one has revoked it,
\* and no other did.
RevocationsHaveRows ==
    /\ \A v \in Revocations : revoke[v] = "found" \/ Successful(v) => target[v] \in DOMAIN rows
    /\ \A v \in Revocations : Successful(v) => rows[target[v]].revoked
    /\ \A v, w \in Revocations : Successful(v) /\ Successful(w) /\ v # w => target[v] # target[w]

KeyInv ==
    /\ KeyTypeOK
    /\ UniqueRaws
    /\ InsertedByItsCall
    /\ RevocationsHaveRows

-----------------------------------------------------------------------------
(* What statements do to the table *)

\* Rows stay, with their keys and names, and stay revoked.
RowsGrow ==
    /\ DOMAIN rows \subseteq DOMAIN rows'
    /\ \A i \in DOMAIN rows : /\ rows'[i].raw = rows[i].raw /\ rows'[i].name = rows[i].name
                              /\ rows[i].revoked => rows'[i].revoked

\* INSERT of a key whose hash is not in the table.
LEMMA InsertGrows ==
    ASSUME KeyInv, NEW raw \in Raws, NEW n \in Names, ~Exists(raw), rows' = Inserted(raw, n)
    PROVE  /\ \E k \in Nat : rows' \in [1 .. k -> Row]
           /\ UniqueRaws' /\ RowsGrow
           /\ \A i \in DOMAIN rows' : i \in DOMAIN rows \/ rows'[i].raw = raw
<1>1. PICK k \in Nat : rows \in [1 .. k -> Row]
  BY DEF KeyInv, KeyTypeOK
<1>2. DOMAIN rows = 1 .. k /\ NextId = k + 1
  <2>1. Cardinality(1 .. k) = k
    BY FS_Interval
  <2> QED
    BY <1>1, <2>1 DEF NextId
<1>3. DOMAIN rows \cup {NextId} = 1 .. k + 1 /\ NextId \notin DOMAIN rows
  BY <1>2
<1> DEFINE new == [raw |-> raw, name |-> n, revoked |-> FALSE, expired |-> FALSE]
<1>4. new \in Row /\ new.raw = raw
  BY DEF Row
<1> HIDE DEF new
<1>5. rows' = [i \in 1 .. k + 1 |-> IF i = NextId THEN new ELSE rows[i]]
  BY <1>3 DEF Inserted, new
<1>6. rows' \in [1 .. k + 1 -> Row]
  BY <1>1, <1>2, <1>3, <1>4, <1>5
<1>7. RowsGrow
  BY <1>1, <1>2, <1>3, <1>5 DEF RowsGrow
<1>8. \A i \in DOMAIN rows' : i \in DOMAIN rows \/ (i = NextId /\ rows'[i].raw = raw)
  BY <1>3, <1>4, <1>5
<1>9. UniqueRaws'
  BY <1>7, <1>8 DEF RowsGrow, KeyInv, UniqueRaws, Exists
<1>10. k + 1 \in Nat
  OBVIOUS
<1> QED
  BY <1>6, <1>7, <1>8, <1>9, <1>10

\* UPDATE of revoked_at, and an expiry that passes.
LEMMA UpdateGrows ==
    ASSUME KeyInv, NEW id \in DOMAIN rows,
           \/ rows' = [rows EXCEPT ![id].revoked = TRUE]
           \/ rows' = [rows EXCEPT ![id].expired = TRUE]
    PROVE  /\ \E k \in Nat : rows' \in [1 .. k -> Row]
           /\ UniqueRaws' /\ RowsGrow
           /\ DOMAIN rows' = DOMAIN rows
<1>1. PICK k \in Nat : rows \in [1 .. k -> Row]
  BY DEF KeyInv, KeyTypeOK
<1>2. \A i \in DOMAIN rows : rows[i] \in Row
  BY <1>1
<1>3. rows' \in [1 .. k -> Row]
  BY <1>1, <1>2 DEF Row
<1>4. \A i \in DOMAIN rows : /\ rows'[i].raw = rows[i].raw
                             /\ rows[i].revoked => rows'[i].revoked
  BY <1>1, <1>2 DEF Row
<1>5. \A i \in DOMAIN rows : rows'[i].name = rows[i].name
  BY <1>1, <1>2 DEF Row
<1> QED
  BY <1>1, <1>3, <1>4, <1>5 DEF RowsGrow, KeyInv, UniqueRaws

-----------------------------------------------------------------------------
(* Steps *)

\* A step that makes no revocation successful.
LEMMA NothingRevoked ==
    ASSUME KeyInv,
           \E k \in Nat : rows' \in [1 .. k -> Row], UniqueRaws', RowsGrow,
           create' \in [Creations -> {"new", "inserted", "found", "failed", "answered"}],
           revoke' \in [Revocations -> {"new", "found", "revoked", "200", "404", "lost"}],
           target' \in [Revocations -> Int], UNCHANGED name,
           \A c \in Creations : create[c] # "new" => create'[c] # "new",
           \A i \in DOMAIN rows' : \/ i \in DOMAIN rows
                                   \/ \A c \in Creations : rows'[i].raw = c => create'[c] # "new",
           \A v \in Revocations :
              /\ Successful(v)' => Successful(v) /\ target'[v] = target[v]
              /\ revoke'[v] = "found" => target'[v] \in DOMAIN rows
    PROVE  KeyInv'
<1>1. KeyTypeOK'
  BY DEF KeyInv, KeyTypeOK
<1>2. InsertedByItsCall'
  BY DEF KeyInv, InsertedByItsCall, RowsGrow
<1>3. \A v \in Revocations : Successful(v)' =>
        /\ target'[v] = target[v] /\ target[v] \in DOMAIN rows /\ rows[target[v]].revoked
  BY DEF KeyInv, RevocationsHaveRows
<1>4. RevocationsHaveRows'
  <2>1. \A v \in Revocations : revoke'[v] = "found" \/ Successful(v)' => target'[v] \in DOMAIN rows'
    BY <1>3 DEF RowsGrow
  <2>2. \A v \in Revocations : Successful(v)' => rows'[target'[v]].revoked
    BY <1>3 DEF RowsGrow
  <2>3. \A v, w \in Revocations : Successful(v)' /\ Successful(w)' /\ v # w => target'[v] # target'[w]
    BY <1>3 DEF KeyInv, RevocationsHaveRows
  <2> QED
    BY <2>1, <2>2, <2>3 DEF RevocationsHaveRows
<1> QED
  BY <1>1, <1>2, <1>4 DEF KeyInv

\* Steps that touch neither the keys nor the calls keep the invariant.
LEMMA KeyInvUnchanged ==
    ASSUME KeyInv, UNCHANGED <<rows, create, name, revoke, target>>
    PROVE  KeyInv'
  BY DEF KeyInv, KeyTypeOK, UniqueRaws, InsertedByItsCall, RevocationsHaveRows, Successful

\* A table that is not written keeps its keys and its rows.
LEMMA RowsSame ==
    ASSUME KeyInv, UNCHANGED rows
    PROVE  (\E k \in Nat : rows' \in [1 .. k -> Row]) /\ UniqueRaws' /\ RowsGrow
  BY DEF KeyInv, KeyTypeOK, UniqueRaws, RowsGrow

\* The handlers of creation and revocation.
LEMMA CreationKeeps ==
    ASSUME KeyInv, NEW c \in Creations, InsertKey(c) \/ FindByName(c) \/ WriteCreated(c)
    PROVE  KeyInv'
<1>1. UNCHANGED <<name, revoke, target>>
  BY DEF InsertKey, FindByName, WriteCreated
<1>2. /\ create' \in [Creations -> {"new", "inserted", "found", "failed", "answered"}]
      /\ \A d \in Creations : create[d] # "new" => create'[d] # "new"
  BY DEF InsertKey, FindByName, WriteCreated, KeyInv, KeyTypeOK
<1>3. /\ revoke \in [Revocations -> {"new", "found", "revoked", "200", "404", "lost"}]
      /\ target \in [Revocations -> Int]
      /\ \A v \in Revocations : revoke[v] = "found" => target[v] \in DOMAIN rows
  BY DEF KeyInv, KeyTypeOK, RevocationsHaveRows
<1>4. CASE UNCHANGED rows
  BY <1>1, <1>2, <1>3, <1>4, RowsSame, NothingRevoked DEF Successful
<1>5. CASE rows' = Inserted(c, name[c]) /\ InsertKey(c)
  <2>1. ~Exists(c)
    BY <1>5 DEF InsertKey, Exists, KeyInv, InsertedByItsCall
  <2>2. c \in Raws /\ name[c] \in Names
    BY DEF Raws, KeyInv, KeyTypeOK
  <2>3. create'[c] # "new"
    BY <1>5 DEF InsertKey, KeyInv, KeyTypeOK
  <2>4. /\ \E k \in Nat : rows' \in [1 .. k -> Row]
        /\ UniqueRaws' /\ RowsGrow
        /\ \A i \in DOMAIN rows' : i \in DOMAIN rows \/ rows'[i].raw = c
    BY <1>5, <2>1, <2>2, InsertGrows
  <2> QED
    BY <1>1, <1>2, <1>3, <2>3, <2>4, NothingRevoked DEF Successful
<1> QED
  BY <1>4, <1>5 DEF InsertKey, FindByName, WriteCreated

\* A revocation sets revoked_at of the row it found, once.
LEMMA RevocationKeeps ==
    ASSUME KeyInv, NEW v \in Revocations,
           (\E id \in Ids : FindByID(v, id)) \/ RevokeByID(v) \/ WriteRevoked(v)
    PROVE  KeyInv'
<1>1. UNCHANGED <<create, name>>
  BY DEF FindByID, RevokeByID, WriteRevoked
<1>2. /\ create \in [Creations -> {"new", "inserted", "found", "failed", "answered"}]
      /\ revoke \in [Revocations -> {"new", "found", "revoked", "200", "404", "lost"}]
      /\ target \in [Revocations -> Int]
      /\ \A w \in Revocations : revoke[w] = "found" \/ Successful(w) => target[w] \in DOMAIN rows
  BY DEF KeyInv, KeyTypeOK, RevocationsHaveRows
<1>3. CASE \E id \in Ids : FindByID(v, id)
  <2>1. PICK id \in Ids : FindByID(v, id)
    BY <1>3
  <2>2. /\ id \in Int /\ UNCHANGED rows /\ revoke[v] = "new"
        /\ target' = [target EXCEPT ![v] = id]
        /\ \/ revoke' = [revoke EXCEPT ![v] = "found"] /\ id \in DOMAIN rows
           \/ revoke' = [revoke EXCEPT ![v] = "404"]
    BY <2>1 DEF FindByID, Ids
  <2>3. /\ revoke' \in [Revocations -> {"new", "found", "revoked", "200", "404", "lost"}]
        /\ target' \in [Revocations -> Int]
        /\ \A w \in Revocations : /\ Successful(w)' => Successful(w) /\ target'[w] = target[w]
                                  /\ revoke'[w] = "found" => target'[w] \in DOMAIN rows
    BY <1>2, <2>2 DEF Successful
  <2> QED
    BY <1>1, <1>2, <2>2, <2>3, RowsSame, NothingRevoked
<1>4. CASE WriteRevoked(v)
  <2>1. /\ UNCHANGED <<rows, target>> /\ revoke[v] = "revoked"
        /\ revoke' = [revoke EXCEPT ![v] = "200"]
    BY <1>4 DEF WriteRevoked
  <2>2. /\ revoke' \in [Revocations -> {"new", "found", "revoked", "200", "404", "lost"}]
        /\ \A w \in Revocations : /\ Successful(w)' => Successful(w)
                                  /\ revoke'[w] = "found" => target[w] \in DOMAIN rows
    BY <1>2, <2>1 DEF Successful
  <2> QED
    BY <1>1, <1>2, <2>1, <2>2, RowsSame, NothingRevoked
<1>5. CASE RevokeByID(v)
  <2>1. revoke[v] = "found" /\ target[v] \in DOMAIN rows /\ UNCHANGED target
    BY <1>2, <1>5 DEF RevokeByID
  <2>2. CASE /\ revoke' = [revoke EXCEPT ![v] = "404"]
             /\ rows' \in {rows, WithRevoked(target[v])}
    <3>1. (\E k \in Nat : rows' \in [1 .. k -> Row]) /\ UniqueRaws' /\ RowsGrow
          /\ DOMAIN rows' = DOMAIN rows
      BY <2>1, <2>2, RowsSame, UpdateGrows DEF WithRevoked
    <3>2. /\ revoke' \in [Revocations -> {"new", "found", "revoked", "200", "404", "lost"}]
          /\ \A w \in Revocations : /\ Successful(w)' => Successful(w)
                                    /\ revoke'[w] = "found" => target[w] \in DOMAIN rows
      BY <1>2, <2>2 DEF Successful
    <3> QED
      BY <1>1, <1>2, <2>1, <3>1, <3>2, NothingRevoked
  <2>3. CASE /\ Revocable(target[v]) /\ rows' = WithRevoked(target[v])
             /\ revoke' = [revoke EXCEPT ![v] = "revoked"]
    <3>1. (\E k \in Nat : rows' \in [1 .. k -> Row]) /\ UniqueRaws' /\ RowsGrow
          /\ DOMAIN rows' = DOMAIN rows
      BY <2>1, <2>3, UpdateGrows DEF WithRevoked
    <3>2. KeyTypeOK'
      BY <1>1, <1>2, <2>1, <2>3, <3>1 DEF KeyInv, KeyTypeOK
    <3>3. InsertedByItsCall'
      BY <1>1, <3>1 DEF KeyInv, InsertedByItsCall, RowsGrow
    <3>4. rows'[target[v]].revoked /\ ~rows[target[v]].revoked
      <4>1. PICK k \in Nat : rows \in [1 .. k -> Row]
        BY DEF KeyInv, KeyTypeOK
      <4> QED
        BY <2>1, <2>3, <4>1 DEF WithRevoked, Revocable, Row
    <3>5. \A w \in Revocations : Successful(w)' => w = v \/ Successful(w)
      BY <1>2, <2>3 DEF Successful
    <3>6. \A w \in Revocations : revoke'[w] = "found" => revoke[w] = "found"
      BY <1>2, <2>3
    <3>7. \A w \in Revocations : Successful(w) =>
            /\ target[w] \in DOMAIN rows /\ rows[target[w]].revoked /\ target[w] # target[v]
      BY <3>4 DEF KeyInv, RevocationsHaveRows
    <3>8. RevocationsHaveRows'
      <4>1. \A w \in Revocations : revoke'[w] = "found" \/ Successful(w)' => target'[w] \in DOMAIN rows'
        BY <1>2, <2>1, <3>1, <3>5, <3>6
      <4>2. \A w \in Revocations : Successful(w)' => rows'[target'[w]].revoked
        BY <2>1, <3>1, <3>4, <3>5, <3>7 DEF RowsGrow
      <4>3. \A w, u \in Revocations : Successful(w)' /\ Successful(u)' /\ w # u => target'[w] # target'[u]
        BY <2>1, <3>5, <3>7 DEF KeyInv, RevocationsHaveRows
      <4> QED
        BY <4>1, <4>2, <4>3 DEF RevocationsHaveRows
    <3> QED
      BY <3>1, <3>2, <3>3, <3>8 DEF KeyInv
  <2>4. CASE revoke' = [revoke EXCEPT ![v] = "404"] /\ UNCHANGED rows
    BY <2>2, <2>4
  <2> QED
    BY <1>5, <2>2, <2>3, <2>4 DEF RevokeByID
<1> QED
  BY <1>3, <1>4, <1>5

\* A key that expires stays in the table.
LEMMA ExpireKeeps ==
    ASSUME KeyInv, NEW id \in DOMAIN rows, Expire(id)
    PROVE  KeyInv'
<1>1. /\ rows' = [rows EXCEPT ![id].expired = TRUE]
      /\ UNCHANGED <<create, name, revoke, target>>
  BY DEF Expire
<1>2. /\ \E k \in Nat : rows' \in [1 .. k -> Row]
      /\ UniqueRaws' /\ RowsGrow /\ DOMAIN rows' = DOMAIN rows
  BY <1>1, UpdateGrows
<1> QED
  BY <1>1, <1>2, NothingRevoked DEF KeyInv, KeyTypeOK, RevocationsHaveRows, Successful

\* Start-up inserts the seed key only when no row has its hash.
LEMMA SeedingKeeps ==
    ASSUME KeyInv, NEW i \in Instances, StartUp(i)
    PROVE  KeyInv'
<1>1. UNCHANGED <<create, name, revoke, target>>
  BY DEF StartUp
<1>2. CASE UNCHANGED rows
  BY <1>1, <1>2, KeyInvUnchanged
<1>3. CASE ~Exists(Seed) /\ rows' = Inserted(Seed, SeedName)
  <2>1. Seed \in Raws /\ Seed \notin Creations /\ SeedName \in Names
    BY KeysAssumption DEF Raws, KeysAssumption
  <2>2. /\ \E k \in Nat : rows' \in [1 .. k -> Row]
        /\ UniqueRaws' /\ RowsGrow
        /\ \A j \in DOMAIN rows' : j \in DOMAIN rows \/ rows'[j].raw = Seed
    BY <1>3, <2>1, InsertGrows
  <2> QED
    BY <1>1, <2>1, <2>2, NothingRevoked DEF KeyInv, KeyTypeOK, RevocationsHaveRows, Successful
<1>4. UNCHANGED rows \/ (~Exists(Seed) /\ rows' = Inserted(Seed, SeedName))
  BY DEF StartUp, Start, CheckMigration, ApplyMigration, RecordMigration, CommitMigration,
         ResolveSeed, CreateSeed
<1> QED
  BY <1>2, <1>3, <1>4

\* A crash ends calls and leaves the table.
LEMMA CrashKeeps ==
    ASSUME KeyInv, NEW i \in Instances, Crash(i)
    PROVE  KeyInv'
<1>1. UNCHANGED <<rows, name, target>>
  BY DEF Crash
<1>2. /\ create' \in [Creations -> {"new", "inserted", "found", "failed", "answered"}]
      /\ \A c \in Creations : create[c] # "new" => create'[c] # "new"
  BY DEF Crash, KeyInv, KeyTypeOK
<1>3. /\ revoke' \in [Revocations -> {"new", "found", "revoked", "200", "404", "lost"}]
      /\ \A v \in Revocations : revoke'[v] \in {revoke[v], "lost"}
  BY DEF Crash, KeyInv, KeyTypeOK
<1>4. \A v \in Revocations : /\ Successful(v)' => Successful(v)
                             /\ revoke'[v] = "found" => target[v] \in DOMAIN rows
  BY <1>3 DEF Successful, KeyInv, RevocationsHaveRows
<1> QED
  BY <1>1, <1>2, <1>3, <1>4, RowsSame, NothingRevoked DEF KeyInv, KeyTypeOK

\* Every step keeps the invariant of the keys.
LEMMA KeyInvStep ==
    ASSUME KeyInv, [Next]_vars
    PROVE  KeyInv'
<1>1. CASE KeysNext
  BY <1>1, CreationKeeps, RevocationKeeps, ExpireKeeps DEF KeysNext
<1>2. CASE UNCHANGED vars
  BY <1>2, KeyInvUnchanged DEF vars, keyVars
<1> QED
  BY <1>1, <1>2, SeedingKeeps, CrashKeeps DEF Next, Serve

\* No step of any process takes a row away or clears revoked_at.
LEMMA RowsOnlyGrow ==
    ASSUME KeyInv, [Next]_vars
    PROVE  RowsGrow
<1>1. ASSUME NEW c \in Creations, InsertKey(c) \/ FindByName(c) \/ WriteCreated(c)
      PROVE  RowsGrow
  <2>1. UNCHANGED rows \/ (create[c] = "new" /\ rows' = Inserted(c, name[c]))
    BY <1>1 DEF InsertKey, FindByName, WriteCreated
  <2>2. CASE create[c] = "new" /\ rows' = Inserted(c, name[c])
    <3>1. ~Exists(c) /\ c \in Raws /\ name[c] \in Names
      BY <2>2 DEF Exists, Raws, KeyInv, InsertedByItsCall, KeyTypeOK
    <3> QED
      BY <2>2, <3>1, InsertGrows
  <2> QED
    BY <2>1, <2>2, RowsSame
<1>2. ASSUME NEW v \in Revocations,
             (\E id \in Ids : FindByID(v, id)) \/ RevokeByID(v) \/ WriteRevoked(v)
      PROVE  RowsGrow
  <2>1. \/ UNCHANGED rows
        \/ target[v] \in DOMAIN rows /\ rows' = [rows EXCEPT ![target[v]].revoked = TRUE]
    BY <1>2 DEF FindByID, RevokeByID, WriteRevoked, WithRevoked, KeyInv, RevocationsHaveRows
  <2> QED
    BY <2>1, RowsSame, UpdateGrows
<1>3. ASSUME NEW id \in DOMAIN rows, Expire(id) PROVE RowsGrow
  BY <1>3, UpdateGrows DEF Expire
<1>4. ASSUME NEW i \in Instances, StartUp(i) PROVE RowsGrow
  <2>1. UNCHANGED rows \/ (~Exists(Seed) /\ rows' = Inserted(Seed, SeedName))
    BY <1>4 DEF StartUp, Start, CheckMigration, ApplyMigration, RecordMigration,
                CommitMigration, ResolveSeed, CreateSeed
  <2>2. Seed \in Raws /\ SeedName \in Names
    BY KeysAssumption DEF Raws, KeysAssumption
  <2> QED
    BY <2>1, <2>2, RowsSame, InsertGrows
<1>5. ASSUME NEW i \in Instances, Crash(i) PROVE RowsGrow
  BY <1>5, RowsSame DEF Crash
<1>6. CASE UNCHANGED vars
  BY <1>6, RowsSame DEF vars, keyVars
<1> QED
  BY <1>1, <1>2, <1>3, <1>4, <1>5, <1>6 DEF Next, Serve, KeysNext

\* Only the look-up sets the row of a revocation.
LEMMA TargetsStay ==
    ASSUME KeyInv, [Next]_vars, NEW v \in Revocations, Successful(v)
    PROVE  target'[v] = target[v]
<1>1. CASE KeysNext
  BY <1>1 DEF KeysNext, InsertKey, FindByName, WriteCreated, FindByID, RevokeByID, WriteRevoked,
              Expire, Successful, KeyInv, KeyTypeOK
<1>2. CASE UNCHANGED target
  BY <1>2
<1> QED
  BY <1>1, <1>2 DEF Next, Serve, StartUp, Crash, vars, keyVars

-----------------------------------------------------------------------------
(* Theorems *)

\* The table of keys and the revocations under way, on any schedule.
THEOREM KeyInvariant == Spec => []KeyInv
<1>1. ASSUME Init PROVE KeyInv
  <2>1. rows = <<>> /\ DOMAIN rows = {} /\ rows \in [1 .. 0 -> Row]
    BY <1>1 DEF Init, KeysInit
  <2>2. UniqueRaws /\ InsertedByItsCall
    BY <2>1 DEF UniqueRaws, InsertedByItsCall
  <2>3. /\ create \in [Creations -> {"new", "inserted", "found", "failed", "answered"}]
        /\ name \in [Creations -> Names]
        /\ revoke \in [Revocations -> {"new", "found", "revoked", "200", "404", "lost"}]
        /\ target \in [Revocations -> Int]
    BY <1>1 DEF Init, KeysInit
  <2>4. RevocationsHaveRows
    BY <1>1 DEF Init, KeysInit, RevocationsHaveRows, Successful
  <2>5. KeyTypeOK
    BY <2>1, <2>3 DEF KeyTypeOK
  <2> QED
    BY <2>2, <2>4, <2>5 DEF KeyInv
<1>2. Init => KeyInv
  BY <1>1
<1>3. KeyInv /\ [Next]_vars => KeyInv'
  BY KeyInvStep
<1> QED
  BY <1>2, <1>3, PTL DEF Spec

\* A key whose revocation was answered with success was revoked by that call
\* alone and never resolves again.
THEOREM RevokedForGood == Spec => RevocationIsFinal
<1>1. ASSUME KeyInv, KeyInv', [Next]_vars, NEW v \in Revocations, Successful(v)
      PROVE  ~Resolves(rows[target[v]].raw)'
  <2>1. target[v] \in DOMAIN rows /\ rows[target[v]].revoked
    BY <1>1 DEF KeyInv, RevocationsHaveRows
  <2>2. target'[v] = target[v] /\ target[v] \in DOMAIN rows' /\ rows'[target[v]].revoked
    BY <1>1, <2>1, RowsOnlyGrow, TargetsStay DEF RowsGrow
  <2> QED
    BY <1>1, <2>2 DEF Resolves, KeyInv, UniqueRaws
<1>2. KeyInv /\ KeyInv' /\ [Next]_vars =>
        [/\ \A v, w \in Revocations :
              revoke'[v] \in {"revoked", "200"} /\ revoke'[w] \in {"revoked", "200"} /\ v # w =>
                 target'[v] # target'[w]
         /\ \A v \in Revocations :
              revoke[v] \in {"revoked", "200"} => ~Resolves(rows[target[v]].raw)']_keyVars
  BY <1>1 DEF KeyInv, RevocationsHaveRows, Successful
<1> QED
  BY <1>2, KeyInvariant, PTL DEF Spec, RevocationIsFinal
-----------------------------------------------------------------------------
(* The events of creations *)

\* A row that a creation may take for its own: of its name, and not older
\* than the row it inserted.
Attributed(c, id) ==
    /\ id \in DOMAIN rows /\ rows[id].name = name[c]
    /\ \E i \in DOMAIN rows : rows[i].raw = c /\ i <= id

EventInv ==
    /\ found \in [Creations -> Int]
    /\ \A c \in Creations : create[c] = "inserted" => \E i \in DOMAIN rows : Attributed(c, i)
    /\ \A c \in Creations : create[c] = "found" => Attributed(c, found[c])
    /\ \A e \in authEvents : e.type = "API_KEY_CREATED" =>
          e.call \in Creations /\ Attributed(e.call, e.key)

\* A table with a row of the name has a last one.
LEMMA LastIsLast ==
    ASSUME KeyInv, NEW n, NEW i \in Named(n)
    PROVE  /\ LastByName(n) \in Named(n)
           /\ \A j \in Named(n) : j <= LastByName(n)
<1>1. PICK k \in Nat : rows \in [1 .. k -> Row]
  BY DEF KeyInv, KeyTypeOK
<1>2. Named(n) \subseteq 1 .. k
  BY <1>1 DEF Named
<1> DEFINE fromEnd == {k - j : j \in Named(n)}
<1>3. fromEnd \subseteq Nat /\ fromEnd # {}
  BY <1>2
<1>4. PICK x \in fromEnd : \A y \in fromEnd : ~(<<y, x>> \in OpToRel(<, Nat))
  BY <1>3, NatLessThanWellFounded, WFMin
<1>5. \A y \in fromEnd : ~(y < x)
  BY <1>3, <1>4 DEF OpToRel
<1>6. PICK l \in Named(n) : x = k - l
  OBVIOUS
<1>7. \A j \in Named(n) : j <= l
  <2>1. ASSUME NEW j \in Named(n) PROVE ~(k - j < k - l)
    BY <1>5, <1>6
  <2> QED
    BY <1>2, <2>1
<1> QED
  BY <1>7 DEF LastByName

\* Rows keep their names, so an attribution stays one.
LEMMA AttributedStays ==
    ASSUME RowsGrow, UNCHANGED name, NEW c, NEW id, Attributed(c, id)
    PROVE  Attributed(c, id)'
  BY DEF RowsGrow, Attributed

\* Steps that take no creation to its look-up or its event.
LEMMA EventsStay ==
    ASSUME EventInv, RowsGrow, UNCHANGED <<name, found>>,
           \A c \in Creations : create'[c] \in {"inserted", "found"} => create'[c] = create[c],
           \A e \in authEvents' : e.type = "API_KEY_CREATED" => e \in authEvents
    PROVE  EventInv'
<1>1. \A c \in Creations : create'[c] = "inserted" =>
         \E i \in DOMAIN rows' : Attributed(c, i)'
  <2> SUFFICES ASSUME NEW c \in Creations, create'[c] = "inserted"
               PROVE  \E i \in DOMAIN rows' : Attributed(c, i)'
    OBVIOUS
  <2>1. PICK i \in DOMAIN rows : Attributed(c, i)
    BY DEF EventInv
  <2> QED
    BY <2>1, AttributedStays DEF RowsGrow
<1>2. \A c \in Creations : create'[c] = "found" => Attributed(c, found[c])'
  BY AttributedStays DEF EventInv
<1>3. \A e \in authEvents' : e.type = "API_KEY_CREATED" =>
         e.call \in Creations /\ Attributed(e.call, e.key)'
  BY AttributedStays DEF EventInv
<1> QED
  BY <1>1, <1>2, <1>3 DEF EventInv

\* The three statements of CreateKeyHandler.
LEMMA CreationEvents ==
    ASSUME KeyInv, KeyInv', EventInv, RowsGrow, NEW c \in Creations,
           InsertKey(c) \/ FindByName(c) \/ WriteCreated(c)
    PROVE  EventInv'
<1>1. UNCHANGED name /\ create \in [Creations -> {"new", "inserted", "found", "failed", "answered"}]
  BY DEF InsertKey, FindByName, WriteCreated, KeyInv, KeyTypeOK
<1>2. CASE InsertKey(c)
  <2>1. UNCHANGED <<name, found, authEvents>>
    BY <1>2 DEF InsertKey
  <2>2. CASE create' = [create EXCEPT ![c] = "failed"]
    BY <1>1, <2>1, <2>2, EventsStay
  <2>3. CASE create' = [create EXCEPT ![c] = "inserted"] /\ rows' = Inserted(c, name[c])
    <3>1. PICK id : id = NextId
      OBVIOUS
    <3>2. id \in DOMAIN rows' /\ rows'[id].raw = c /\ rows'[id].name = name[c]
      BY <2>3, <3>1 DEF Inserted
    <3>3. id \in Int
      BY <3>2 DEF KeyInv, KeyTypeOK
    <3>4. Attributed(c, id)'
      BY <2>1, <3>2, <3>3 DEF Attributed
    <3>5. \A d \in Creations \ {c} : create'[d] = create[d]
      BY <1>1, <2>3
    <3>6. create'[c] = "inserted"
      BY <1>1, <2>3
    <3>7. \A d \in Creations : create'[d] = "inserted" => \E i \in DOMAIN rows' : Attributed(d, i)'
      <4> SUFFICES ASSUME NEW d \in Creations, create'[d] = "inserted", d # c
                   PROVE  \E i \in DOMAIN rows' : Attributed(d, i)'
        BY <3>2, <3>4
      <4>1. PICK i \in DOMAIN rows : Attributed(d, i)
        BY <3>5 DEF EventInv
      <4> QED
        BY <2>1, <4>1, AttributedStays DEF RowsGrow
    <3>8. \A d \in Creations : create'[d] = "found" => Attributed(d, found[d])'
      BY <2>1, <3>5, <3>6, AttributedStays DEF EventInv
    <3>9. \A e \in authEvents' : e.type = "API_KEY_CREATED" =>
             e.call \in Creations /\ Attributed(e.call, e.key)'
      BY <2>1, AttributedStays DEF EventInv
    <3>10. found' \in [Creations -> Int]
      BY <2>1 DEF EventInv
    <3> QED
      BY <3>7, <3>8, <3>9, <3>10 DEF EventInv
  <2> QED
    BY <1>2, <2>2, <2>3 DEF InsertKey
<1>3. CASE FindByName(c)
  <2>1. UNCHANGED <<rows, name, authEvents>> /\ create[c] = "inserted"
    BY <1>3 DEF FindByName
  <2>2. CASE create' = [create EXCEPT ![c] = "answered"] /\ UNCHANGED found
    BY <1>1, <2>1, <2>2, EventsStay
  <2>3. CASE /\ create' = [create EXCEPT ![c] = "found"]
             /\ found' = [found EXCEPT ![c] = LastByName(name[c])]
    <3>1. PICK i \in DOMAIN rows : Attributed(c, i)
      BY <2>1 DEF EventInv
    <3>2. i \in Named(name[c])
      BY <3>1 DEF Named, Attributed
    <3>3. /\ LastByName(name[c]) \in Named(name[c])
          /\ i <= LastByName(name[c])
      BY <3>2, LastIsLast
    <3>4. DOMAIN rows \subseteq Int
      BY DEF KeyInv, KeyTypeOK
    <3>5. Attributed(c, LastByName(name[c]))
      BY <3>1, <3>3, <3>4 DEF Attributed, Named
    <3>6. found' \in [Creations -> Int] /\ found'[c] = LastByName(name[c])
          /\ \A d \in Creations \ {c} : found'[d] = found[d] /\ create'[d] = create[d]
      BY <1>1, <2>3, <3>3, <3>4 DEF EventInv, Named
    <3>7. create'[c] = "found"
      BY <1>1, <2>3
    <3>8. \A d \in Creations : create'[d] = "inserted" => \E j \in DOMAIN rows' : Attributed(d, j)'
      BY <2>1, <3>6, <3>7 DEF EventInv, Attributed
    <3>9. \A d \in Creations : create'[d] = "found" => Attributed(d, found[d])'
      BY <2>1, <3>5, <3>6 DEF EventInv, Attributed
    <3> QED
      BY <2>1, <3>6, <3>8, <3>9 DEF EventInv, Attributed
  <2> QED
    BY <1>3, <2>2, <2>3 DEF FindByName
<1>4. CASE WriteCreated(c)
  <2>1. /\ UNCHANGED <<rows, name, found>> /\ create[c] = "found"
        /\ create' = [create EXCEPT ![c] = "answered"]
        /\ authEvents' \in {authEvents, authEvents \cup
              {[type |-> "API_KEY_CREATED", key |-> found[c], call |-> c]}}
    BY <1>4 DEF WriteCreated
  <2>2. Attributed(c, found[c])
    BY <2>1 DEF EventInv
  <2>3. \A d \in Creations : create'[d] \in {"inserted", "found"} => create'[d] = create[d]
    BY <1>1, <2>1
  <2>4. \A e \in authEvents' : e.type = "API_KEY_CREATED" =>
           e.call \in Creations /\ Attributed(e.call, e.key)
    BY <2>1, <2>2 DEF EventInv
  <2> QED
    BY <2>1, <2>3, <2>4 DEF EventInv, Attributed
<1> QED
  BY <1>2, <1>3, <1>4

\* Every step keeps the invariant of the events.
LEMMA EventInvStep ==
    ASSUME KeyInv, KeyInv', EventInv, [Next]_vars
    PROVE  EventInv'
<1>1. RowsGrow
  BY RowsOnlyGrow
<1>2. ASSUME NEW c \in Creations, InsertKey(c) \/ FindByName(c) \/ WriteCreated(c)
      PROVE  EventInv'
  BY <1>1, <1>2, CreationEvents
<1>3. ASSUME NEW v \in Revocations,
             (\E id \in Ids : FindByID(v, id)) \/ RevokeByID(v) \/ WriteRevoked(v)
      PROVE  EventInv'
  <2>1. UNCHANGED <<name, found, create>>
    BY <1>3 DEF FindByID, RevokeByID, WriteRevoked
  <2>2. \A e \in authEvents' : e.type = "API_KEY_CREATED" => e \in authEvents
    BY <1>3 DEF FindByID, RevokeByID, WriteRevoked
  <2> QED
    BY <1>1, <2>1, <2>2, EventsStay
<1>4. ASSUME NEW i \in Instances, Crash(i) PROVE EventInv'
  <2>1. UNCHANGED <<name, found, authEvents>>
    BY <1>4 DEF Crash
  <2>2. \A c \in Creations : create'[c] \in {create[c], "failed"}
    BY <1>4 DEF Crash
  <2> QED
    BY <1>1, <2>1, <2>2, EventsStay
<1>5. CASE UNCHANGED <<name, found, create, authEvents>>
  BY <1>1, <1>5, EventsStay
<1>6. \/ KeysNext \/ \E i \in Instances : Crash(i)
      \/ UNCHANGED <<name, found, create, authEvents>>
  BY DEF Next, Serve, StartUp, vars, keyVars
<1>7. KeysNext => \/ \E c \in Creations : InsertKey(c) \/ FindByName(c) \/ WriteCreated(c)
                  \/ \E v \in Revocations :
                        (\E id \in Ids : FindByID(v, id)) \/ RevokeByID(v) \/ WriteRevoked(v)
                  \/ UNCHANGED <<name, found, create, authEvents>>
  BY DEF KeysNext, Expire
<1> QED
  BY <1>2, <1>3, <1>4, <1>5, <1>6, <1>7

\* In every reachable state a creation past its insert has a row of its name,
\* and what it looked up or recorded is that row or a later one.
THEOREM EventInvariant == Spec => []EventInv
<1>1. Init => EventInv
  <2> SUFFICES ASSUME Init PROVE EventInv
    OBVIOUS
  <2> QED
    BY DEF Init, KeysInit, EventInv
<1>2. KeyInv /\ KeyInv' /\ EventInv /\ [Next]_vars => EventInv'
  BY EventInvStep
<1> QED
  BY <1>1, <1>2, KeyInvariant, PTL DEF Spec

\* The event of a creation names its own key or a later one of the same name,
\* and its own when it is the only one of that name.
THEOREM EventsAttributed == Spec => []EventsNameTheirKey
<1>1. ASSUME KeyInv, EventInv PROVE EventsNameTheirKey
  <2> SUFFICES ASSUME NEW e \in authEvents, e.type = "API_KEY_CREATED"
               PROVE  /\ rows[e.key].name = name[e.call]
                      /\ e.key >= OwnId(e.call)
                      /\ Named(name[e.call]) = {OwnId(e.call)} => e.key = OwnId(e.call)
    BY DEF EventsNameTheirKey
  <2>1. e.key \in DOMAIN rows /\ rows[e.key].name = name[e.call]
    BY <1>1 DEF EventInv, Attributed
  <2>2. PICK i \in DOMAIN rows : rows[i].raw = e.call /\ i <= e.key
    BY <1>1 DEF EventInv, Attributed
  <2>3. OwnId(e.call) = i
    BY <1>1, <2>2 DEF OwnId, KeyInv, UniqueRaws
  <2>4. DOMAIN rows \subseteq Int
    BY <1>1 DEF KeyInv, KeyTypeOK
  <2> QED
    BY <2>1, <2>2, <2>3, <2>4 DEF Named
<1>2. KeyInv /\ EventInv => EventsNameTheirKey
  BY <1>1
<1> QED
  BY <1>2, KeyInvariant, EventInvariant, PTL

-----------------------------------------------------------------------------
(* Types *)

\* Every row has a raw key of its own, so there are no more of them than raw
\* keys.
LEMMA TableFits ==
    ASSUME KeyInv
    PROVE  DOMAIN rows \subseteq Ids
<1>1. PICK n \in Nat : rows \in [1 .. n -> Row]
  BY DEF KeyInv, KeyTypeOK
<1>2. IsFiniteSet(Raws) /\ Cardinality(Raws) \in Nat
  BY KeysAssumption, FS_AddElement, FS_CardinalityType DEF Raws, KeysAssumption
<1>3. IsFiniteSet(1 .. n) /\ Cardinality(1 .. n) = n
  BY FS_Interval
<1>4. ASSUME Cardinality(Raws) < n PROVE FALSE
  <2> DEFINE raw == [i \in 1 .. n |-> rows[i].raw]
  <2>1. raw \in [1 .. n -> Raws]
    BY <1>1 DEF Row
  <2>2. \A i \in 1 .. n : raw[i] = rows[i].raw
    OBVIOUS
  <2> HIDE DEF raw
  <2>3. \E i, j \in 1 .. n : i # j /\ raw[i] = raw[j]
    BY <1>2, <1>3, <1>4, <2>1, FS_PigeonHole
  <2> QED
    BY <1>1, <2>2, <2>3 DEF KeyInv, UniqueRaws
<1> QED
  BY <1>1, <1>2, <1>4 DEF Ids

\* The counters and what the calls remember.
CallsTypeOK ==
    /\ production \in BOOLEAN
    /\ faults \in 0 .. MaxFaults
    /\ crashes \in 0 .. MaxCrashes
    /\ found \in [Creations -> Ids \cup {0}]
    /\ target \in [Revocations -> Ids \cup {0}]
    /\ \A e \in authEvents : e.key \in Ids

\* Faults and crashes stay in their bounds.
LEMMA CountersStep ==
    ASSUME CallsTypeOK, [Next]_vars
    PROVE  /\ production' \in BOOLEAN
           /\ faults' \in 0 .. MaxFaults
           /\ crashes' \in 0 .. MaxCrashes
<1>1. MaxFaults \in Nat /\ MaxCrashes \in Nat
  BY KeysAssumption, StartupAssumption DEF KeysAssumption, StartupAssumption
<1>2. UNCHANGED production
  BY DEF Next, StartUp, Start, CheckMigration, ApplyMigration, RecordMigration,
         CommitMigration, ResolveSeed, CreateSeed, Crash, Serve, startVars, vars
<1>3. UNCHANGED faults \/ Fault
  BY DEF Next, StartUp, Start, CheckMigration, ApplyMigration, RecordMigration,
         CommitMigration, ResolveSeed, CreateSeed, Crash, Serve, KeysNext, InsertKey,
         FindByName, WriteCreated, FindByID, RevokeByID, WriteRevoked, Expire, vars, keyVars
<1>4. UNCHANGED crashes \/ (crashes < MaxCrashes /\ crashes' = crashes + 1)
  BY DEF Next, StartUp, Crash, Serve, startVars, vars
<1> QED
  BY <1>1, <1>2, <1>3, <1>4 DEF CallsTypeOK, Fault

\* The ids the handlers work with are ids of rows.
LEMMA IdsStep ==
    ASSUME KeyInv, EventInv, CallsTypeOK, [Next]_vars
    PROVE  /\ found' \in [Creations -> Ids \cup {0}]
           /\ target' \in [Revocations -> Ids \cup {0}]
           /\ \A e \in authEvents' : e.key \in Ids
<1> DEFINE IdsKept == /\ found' \in [Creations -> Ids \cup {0}]
                      /\ target' \in [Revocations -> Ids \cup {0}]
                      /\ \A e \in authEvents' : e.key \in Ids
<1>1. DOMAIN rows \subseteq Ids
  BY TableFits
<1>2. CASE UNCHANGED <<found, target, authEvents>>
  BY <1>2 DEF CallsTypeOK
<1>3. ASSUME NEW c \in Creations, FindByName(c) PROVE IdsKept
  <2>1. UNCHANGED <<target, authEvents>>
    BY <1>3 DEF FindByName
  <2>2. CASE UNCHANGED found
    BY <1>2, <2>1, <2>2
  <2>3. CASE found' = [found EXCEPT ![c] = LastByName(name[c])]
    <3>1. PICK i \in DOMAIN rows : Attributed(c, i)
      BY <1>3 DEF FindByName, EventInv
    <3>2. i \in Named(name[c])
      BY <3>1 DEF Named, Attributed
    <3>3. LastByName(name[c]) \in Ids
      BY <1>1, <3>2, LastIsLast DEF Named
    <3> QED
      BY <2>1, <2>3, <3>3 DEF CallsTypeOK
  <2> QED
    BY <1>3, <2>2, <2>3 DEF FindByName
<1>4. ASSUME NEW c \in Creations, WriteCreated(c) PROVE IdsKept
  <2>1. found[c] \in Ids
    BY <1>1, <1>4 DEF WriteCreated, EventInv, Attributed
  <2>2. /\ UNCHANGED <<found, target>>
        /\ authEvents' \in {authEvents, authEvents \cup
              {[type |-> "API_KEY_CREATED", key |-> found[c], call |-> c]}}
    BY <1>4 DEF WriteCreated
  <2> QED
    BY <2>1, <2>2 DEF CallsTypeOK
<1>5. ASSUME NEW v \in Revocations, NEW id \in Ids, FindByID(v, id) PROVE IdsKept
  BY <1>5 DEF FindByID, CallsTypeOK
<1>6. ASSUME NEW v \in Revocations, WriteRevoked(v) PROVE IdsKept
  <2>1. target[v] \in Ids
    BY <1>1, <1>6 DEF WriteRevoked, KeyInv, RevocationsHaveRows, Successful
  <2>2. /\ UNCHANGED <<found, target>>
        /\ authEvents' \in {authEvents, authEvents \cup
              {[type |-> "API_KEY_REVOKED", key |-> target[v], call |-> v]}}
    BY <1>6 DEF WriteRevoked
  <2> QED
    BY <2>1, <2>2 DEF CallsTypeOK
<1>7. \/ UNCHANGED <<found, target, authEvents>>
      \/ \E c \in Creations : FindByName(c) \/ WriteCreated(c)
      \/ \E v \in Revocations : (\E id \in Ids : FindByID(v, id)) \/ WriteRevoked(v)
  BY DEF Next, StartUp, Crash, Serve, KeysNext, InsertKey, RevokeByID, Expire, vars, keyVars
<1> QED
  BY <1>2, <1>3, <1>4, <1>5, <1>6, <1>7

\* Every variable of the processes, the table and the handlers keeps its
\* type, and the table never holds more rows than there are keys.
THEOREM StartupTyped == Spec => []TypeOK
<1>1. Init => CallsTypeOK
  BY KeysAssumption, StartupAssumption
  DEF KeysAssumption, StartupAssumption, Init, KeysInit, CallsTypeOK
<1>2. KeyInv /\ EventInv /\ CallsTypeOK /\ [Next]_vars => CallsTypeOK'
  BY CountersStep, IdsStep DEF CallsTypeOK
<1>3. Spec => []CallsTypeOK
  BY <1>1, <1>2, KeyInvariant, EventInvariant, PTL DEF Spec
<1>4. KeyInv /\ MigrationInv /\ CallsTypeOK => TypeOK
  <2> SUFFICES ASSUME KeyInv, MigrationInv, CallsTypeOK PROVE TypeOK
    OBVIOUS
  <2>1. \A i \in DOMAIN rows : rows[i] \in Row
    BY DEF KeyInv, KeyTypeOK
  <2>2. KeysTypeOK
    BY <2>1, TableFits DEF KeysTypeOK, KeyInv, KeyTypeOK, CallsTypeOK
  <2> QED
    BY <2>2 DEF TypeOK, MigrationInv, MigrationTypeOK, CallsTypeOK
<1> QED
  BY <1>3, <1>4, KeyInvariant, MigrationInvariant, PTL
==============================================================================
