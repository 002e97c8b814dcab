------------------------------ MODULE Migrate ------------------------------
(***************************************************************************)
(* Schema migration of the store at start-up (src/src/data/migrate.cpp).   *)
(* porla::Data::Migrate reads PRAGMA user_version, runs the migrations of  *)
(* its build from that index on, returns false at the first one that       *)
(* fails, and writes user_version = Migrations.size() once all have run.   *)
(*                                                                         *)
(* The daemon is started repeatedly, by builds that know a prefix of the   *)
(* migration list (an upgrade or a downgrade of porla), and may crash      *)
(* between two migrations.  A failed migration aborts start-up (spec 7).   *)
(* Each migration is one step: what it does inside is its own code, not in *)
(* this repository; `applied[i]` counts how many times its changes were    *)
(* made to the store.                                                      *)
(***************************************************************************)
EXTENDS Integers, FiniteSets

CONSTANTS
    Builds,             \* Migrations.size() of each build that may be started
    MaxStarts,          \* bound on the number of daemon starts
    VersionWriteFails   \* whether sqlite3_exec of the PRAGMA may fail

ASSUME Builds \subseteq Nat \ {0} /\ MaxStarts \in Nat
ASSUME VersionWriteFails \in BOOLEAN

MaxMig == CHOOSE m \in Builds : \A b \in Builds : b <= m
Indices == 0..(MaxMig - 1)

VARIABLES
    phase,    \* "down", "migrating", "ok" (Migrate returned true), "failed"
    build,    \* Migrations.size() of the running build
    uv,       \* PRAGMA user_version in the store
    i,        \* the loop index of Migrate
    applied,  \* migration index -> times its changes were made to the store
    starts    \* daemon starts so far

vars == <<phase, build, uv, i, applied, starts>>

TypeOK ==
    /\ phase \in {"down", "migrating", "ok", "failed"}
    /\ build \in Builds
    /\ uv \in 0..MaxMig
    /\ i \in 0..MaxMig
    /\ applied \in [Indices -> 0..MaxStarts]
    /\ starts \in 0..MaxStarts

\* A new store: user_version is 0 and nothing is applied.
Init ==
    /\ phase = "down" /\ build = MaxMig /\ uv = 0 /\ i = 0
    /\ applied = [k \in Indices |-> 0]
    /\ starts = 0

\* GetUserVersion: PRAGMA user_version.
GetUserVersion == uv

\* SetUserVersion: the result of sqlite3_exec is ignored, so a failed write
\* leaves the old version in place and Migrate still returns true.
SetUserVersion(v) ==
    \/ uv' = v
    \/ VersionWriteFails /\ UNCHANGED uv

\* Mutant: the new version is recorded before the migrations run.
StartRecordsVersion(s) ==
    /\ phase = "down" /\ starts < MaxStarts
    /\ starts' = starts + 1
    /\ build' = s
    /\ i' = GetUserVersion
    /\ uv' = s
    /\ phase' = "migrating"
    /\ UNCHANGED applied

\* A build with `s` migrations starts and enters Migrate; the loop starts
\* at the version read again in its init statement.
Start(s) ==
    /\ phase = "down" /\ starts < MaxStarts
    /\ starts' = starts + 1
    /\ build' = s
    /\ i' = GetUserVersion
    /\ phase' = "migrating"
    /\ UNCHANGED <<uv, applied>>

\* Mutant: the migration's return value is not checked.
MigrationStepUnchecked ==
    /\ phase = "migrating" /\ i < build
    /\ \/ applied' = [applied EXCEPT ![i] = @ + 1]
       \/ UNCHANGED applied
    /\ i' = i + 1
    /\ UNCHANGED <<phase, build, uv, starts>>

\* One iteration: Migrations.at(i)(db) either returns SQLITE_OK, its
\* changes made, or fails and Migrate returns false.
MigrationStep ==
    /\ phase = "migrating" /\ i < build
    /\ \/ /\ applied' = [applied EXCEPT ![i] = @ + 1]
          /\ i' = i + 1
          /\ UNCHANGED phase
       \/ /\ phase' = "failed"
          /\ UNCHANGED <<applied, i>>
    /\ UNCHANGED <<build, uv, starts>>

\* Mutant: the version written is one past the loop's last index.
FinishPastEnd ==
    /\ phase = "migrating" /\ i >= build
    /\ SetUserVersion(i + 1)
    /\ phase' = "ok"
    /\ UNCHANGED <<build, i, applied, starts>>

\* The loop is over: SetUserVersion(Migrations.size()), return true.
Finish ==
    /\ phase = "migrating" /\ i >= build
    /\ SetUserVersion(build)
    /\ phase' = "ok"
    /\ UNCHANGED <<build, i, applied, starts>>

\* The process dies between two migrations.
Crash ==
    /\ phase = "migrating"
    /\ phase' = "down"
    /\ UNCHANGED <<build, uv, i, applied, starts>>

\* The daemon exits: after running, or after the fatal start-up error.
Stop ==
    /\ phase \in {"ok", "failed"}
    /\ phase' = "down"
    /\ UNCHANGED <<build, uv, i, applied, starts>>

\* No start is left within the bound.
Exhausted == phase = "down" /\ starts = MaxStarts /\ UNCHANGED vars

Next ==
    \/ \E s \in Builds : Start(s)
    \/ MigrationStep \/ Finish \/ Crash \/ Stop
    \/ Exhausted

Spec == Init /\ [][Next]_vars

-----------------------------------------------------------------------------
(* Properties.                                                              *)

Applied(k) == applied[k] >= 1

\* Every migration below the stored user_version has made its changes to
\* the store, across crashes between migrations, failed migrations, ignored
\* version writes and starts of older and newer builds.
VersionBelowApplied ==
    \A k \in Indices : k < uv => Applied(k)

\* When Migrate returns true, every migration the running build knows has
\* made its changes: the daemon never runs on a partly migrated schema.
StartsOnlyMigrated ==
    phase = "ok" => \A k \in 0..(build - 1) : Applied(k)

\* No migration makes its changes twice (spec 6: user_version records the
\* applied prefix, so a migration runs once).
AppliedOnce ==
    \A k \in Indices : applied[k] <= 1

=============================================================================
