------------------------------- MODULE Upgrade -------------------------------
(***************************************************************************)
(* Opening the database (store, db.rs): a program that knows a newer schema  *)
(* backs the file up, applies the migrations it misses one by one, and puts  *)
(* the backup in the place of the file if one fails.  The programs of a      *)
(* scene are started one after the other, each may be of another version,    *)
(* and each may die at any step.  What a migration does to the tables is     *)
(* left out: it keeps the user's rows.                                       *)
(***************************************************************************)
EXTENDS Integers, Sequences, FiniteSets, FiniteSetsExt

CONSTANTS
    Records,        \* what the user's teams are made of
    Versions,       \* the versions of the schema, numbers from 1
    UpgradeScenes   \* sequences of programs [knows, breaks]: the newest version
                    \* of each, and the one whose migration fails (0: none)

ASSUME UpgradeAssumption ==
    /\ IsFiniteSet(Versions) /\ Versions = 1 .. Cardinality(Versions)
    /\ UpgradeScenes \subseteq Seq([knows : Nat, breaks : Nat])

VARIABLES
    database,   \* the file: [kind, applied, rows]
    backups,    \* version -> the file kept before migrating from it
    starts,     \* per program: [ask, at, saved, before]
    written,    \* history: the rows the user has been told of
    torn        \* history: a program died while it copied a backup back

upgradeVars == <<database, backups, starts, written, torn>>

NoDatabase == [kind |-> "absent", applied |-> {}, rows |-> {}]
Torn == [kind |-> "torn", applied |-> {}, rows |-> {}]
EmptyFile == [kind |-> "empty", applied |-> {}, rows |-> {}]
Whole(applied, rows) == [kind |-> "whole", applied |-> applied, rows |-> rows]

UpgradeInit ==
    /\ database = NoDatabase /\ backups = [v \in Versions |-> NoDatabase]
    /\ \E scene \in UpgradeScenes :
         starts = [i \in DOMAIN scene |->
                     [ask |-> scene[i], at |-> "off", saved |-> 0, before |-> NoDatabase]]
    /\ written = {} /\ torn = FALSE

Gone0 == {"closed", "failed", "rolled back", "dead"}
StartGoes(i, at) == starts' = [starts EXCEPT ![i].at = at]
Misses(i) == {v \in Versions : v <= starts[i].ask.knows} \ database.applied

\* connect_with: a file of no bytes is a new database, a torn one is none.
Connects0(i) ==
    /\ starts[i].at = "off" /\ \A j \in 1..(i - 1) : starts[j].at \in Gone0
    /\ IF database.kind = "torn" THEN StartGoes(i, "failed") /\ UNCHANGED database
       ELSE /\ database' = Whole(database.applied, database.rows)
            /\ starts' = [starts EXCEPT ![i].at = "look", ![i].before = database']
    /\ UNCHANGED <<backups, written, torn>>

\* backup_before_migrating: of a database that has something, when something is
\* pending, under the name of its version.  An old backup makes room first.
LooksAtVersions(i) ==
    /\ starts[i].at = "look"
    /\ IF database.applied = {} \/ Misses(i) = {} THEN StartGoes(i, "migrate")
       ELSE starts' = [starts EXCEPT ![i].at = "remove", ![i].saved = Max(database.applied)]
    /\ UNCHANGED <<database, backups, written, torn>>
\* OldBackupServes is the mutant: a backup of that version is taken for good.
OldBackupServes(i) ==
    /\ starts[i].at = "remove" /\ UNCHANGED <<database, backups, written, torn>>
    /\ StartGoes(i, IF backups[starts[i].saved] = NoDatabase THEN "vacuum" ELSE "migrate")
RemovesBackup(i) ==
    /\ starts[i].at = "remove" /\ StartGoes(i, "vacuum")
    /\ backups' = [backups EXCEPT ![starts[i].saved] = NoDatabase]
    /\ UNCHANGED <<database, written, torn>>
\* VACUUM INTO fails where there is a file already, and may fail half way.
VacuumBegins(i) ==
    /\ starts[i].at = "vacuum"
    /\ IF backups[starts[i].saved] = NoDatabase
       THEN backups' = [backups EXCEPT ![starts[i].saved] = Torn] /\ StartGoes(i, "vacuuming")
       ELSE StartGoes(i, "failed") /\ UNCHANGED backups
    /\ UNCHANGED <<database, written, torn>>
VacuumEnds(i) ==
    /\ starts[i].at = "vacuuming"
    /\ \/ backups' = [backups EXCEPT ![starts[i].saved] = database] /\ StartGoes(i, "migrate")
       \/ StartGoes(i, "failed") /\ UNCHANGED backups
    /\ UNCHANGED <<database, written, torn>>

\* Migrator::run: a database with versions the program does not know is
\* refused; then a transaction for each migration, in their order.
Migrates(i) ==
    /\ starts[i].at = "migrate"
    /\ IF \E v \in database.applied : v > starts[i].ask.knows
       THEN StartGoes(i, "undo") /\ UNCHANGED database
       ELSE IF Misses(i) = {} THEN StartGoes(i, "run") /\ UNCHANGED database
       ELSE IF Min(Misses(i)) = starts[i].ask.breaks THEN StartGoes(i, "undo") /\ UNCHANGED database
       ELSE /\ database' = Whole(database.applied \union {Min(Misses(i))}, database.rows)
            /\ UNCHANGED starts
    /\ UNCHANGED <<backups, written, torn>>

\* The connection is closed.  restore: -wal and -shm go, then the backup is copied over the
\* file, which is empty first.  Either may fail.
Undoes(i) ==
    /\ starts[i].at = "undo"
    /\ StartGoes(i, IF starts[i].saved = 0 THEN "failed" ELSE "restore")
    /\ UNCHANGED <<database, backups, written, torn>>
RestoreBegins(i) ==
    /\ starts[i].at = "restore"
    /\ \/ database' = EmptyFile /\ StartGoes(i, "copy")
       \/ StartGoes(i, "failed") /\ UNCHANGED database
    /\ UNCHANGED <<backups, written, torn>>
RestoreEnds(i) ==
    /\ starts[i].at = "copy" /\ database' = backups[starts[i].saved] /\ StartGoes(i, "rolled back")
    /\ UNCHANGED <<backups, written, torn>>

UserAddsRow(i) ==
    /\ starts[i].at = "run"
    /\ \E r \in Records \ written :
         /\ database' = Whole(database.applied, database.rows \union {r})
         /\ written' = written \union {r}
    /\ UNCHANGED <<backups, starts, torn>>
Quits(i) ==
    /\ starts[i].at = "run" /\ StartGoes(i, "closed")
    /\ UNCHANGED <<database, backups, written, torn>>
\* The program dies, or the copy fails: what was being copied is empty or torn.
StartDies(i) ==
    /\ starts[i].at \notin {"off"} \union Gone0 /\ StartGoes(i, "dead")
    /\ IF starts[i].at = "copy" THEN database' \in {EmptyFile, Torn} /\ torn' = TRUE
       ELSE UNCHANGED <<database, torn>>
    /\ UNCHANGED <<backups, written>>

UpgradeNext ==
    \E i \in DOMAIN starts :
        \/ Connects0(i) \/ LooksAtVersions(i) \/ RemovesBackup(i) \/ VacuumBegins(i) \/ VacuumEnds(i)
        \/ Migrates(i) \/ Undoes(i) \/ RestoreBegins(i) \/ RestoreEnds(i)
        \/ UserAddsRow(i) \/ Quits(i) \/ StartDies(i)
UpgradeSpec == UpgradeInit /\ [][UpgradeNext]_upgradeVars

Kept == database.rows \union UNION {backups[v].rows : v \in Versions}
\* "o backup continua lá para uma segunda tentativa" (db.rs:200): whatever
\* fails, what the user had is in the database or in a backup.  Refuted: a
\* program that dies while it copies the backup back leaves an empty file; the
\* next one takes it for a new database, fails at the same migration, and the
\* one after that overwrites the backup with a backup of the empty database.
DataIsSomewhere == written \subseteq Kept
\* What remains true: nothing is lost unless a copy back was cut short.
DataIsKept == torn \/ written \subseteq Kept
\* "o banco fica como estava antes" (db.rs:29): a start that answers that it
\* rolled back leaves the database it found, torn or not by those before it.
RollbackRestores ==
    [][\A i \in DOMAIN starts :
         starts[i].at = "copy" /\ starts'[i].at = "rolled back" => database' = starts[i].before]_upgradeVars
=============================================================================
