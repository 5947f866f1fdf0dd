----------------------------- MODULE Migrations -----------------------------
(***************************************************************************)
(* app/db/migrate.py, which every start of the API runs before uvicorn     *)
(* (docker-compose.yml): one connection applies the files of the release   *)
(* in the order of their versions, skips the recorded ones, and commits    *)
(* all of them when it is left.  A start is a session of PostgreSQL.  One  *)
(* whose container is killed lingers: PostgreSQL ends its transaction, and *)
(* gives up its locks, only when it notices that the client has gone, and  *)
(* the next start may be at work by then.  The database may come from a    *)
(* dump (docker/postgres-init), which brings schema_migrations with it.    *)
(***************************************************************************)
EXTENDS Naturals

CONSTANTS
  Sessions,  \* starts of the API
  Versions,  \* version numbers of migration files
  Contents,  \* contents of migration files, which their checksums tell apart
  Missing    \* of a file that a release does not have, or a table does not record

ASSUME VersionsAssumption == Versions \subseteq Nat

ASSUME MissingAssumption == Missing \notin Contents

VARIABLES
  release,   \* db/migrations in the repository: the content of each version
  image,     \* the files in the image a session was started from
  ledger,    \* the table schema_migrations exists
  recorded,  \* what is committed in schema_migrations: the content of each version
  pc,        \* where a session is
  todo,      \* the versions its loop has not passed yet
  pending    \* the versions it has applied and not committed

migrationVars == <<release, image, ledger, recorded, pc, todo, pending>>

Directory == [Versions -> Contents \cup {Missing}]

Files(files) == {v \in Versions : files[v] # Missing}

Migrating == {"starting", "looping", "applying"}

\* The database is new, or filled by the seed dump that the postgres container
\* loads into a new volume: what the exporter's database had recorded, which was
\* of this release or an earlier one, each file with the content it had there.
MigrationInit ==
  /\ release \in Directory /\ recorded \in Directory
  /\ Files(recorded) \subseteq Files(release)
  /\ ledger \in BOOLEAN
  /\ ~ledger => Files(recorded) = {}
  /\ image = [s \in Sessions |-> [v \in Versions |-> Missing]]
  /\ pc = [s \in Sessions |-> "unused"]
  /\ todo = [s \in Sessions |-> {}] /\ pending = [s \in Sessions |-> {}]

-----------------------------------------------------------------------------
(* Releases *)

\* Somebody adds a file, at the end or in between, or edits one.
EditRelease ==
  /\ \E v \in Versions, c \in Contents : release' = [release EXCEPT ![v] = c]
  /\ UNCHANGED <<image, ledger, recorded, pc, todo, pending>>

\* A container of the release is made, or one that has stopped is started again.
Images == {release} \cup {image[s] : s \in {t \in Sessions : pc[t] # "unused"}}

StartSession(s, files) ==
  /\ pc[s] = "unused" /\ files \in Images
  /\ pc' = [pc EXCEPT ![s] = "starting"]
  /\ image' = [image EXCEPT ![s] = files]
  /\ UNCHANGED <<release, ledger, recorded, todo, pending>>

-----------------------------------------------------------------------------
(* apply_migrations *)

\* The transaction ends, committed or rolled back, and the session with it.
Finish(s, end) ==
  /\ pc' = [pc EXCEPT ![s] = end]
  /\ todo' = [todo EXCEPT ![s] = {}]
  /\ pending' = [pending EXCEPT ![s] = {}]

\* CREATE TABLE IF NOT EXISTS and its own commit.
CreateLedger(s) ==
  /\ pc[s] = "starting"
  /\ ledger' = TRUE
  /\ pc' = [pc EXCEPT ![s] = "looping"]
  /\ todo' = [todo EXCEPT ![s] = Files(image[s])]
  /\ UNCHANGED <<release, image, recorded, pending>>

IsNext(s, v) == v \in todo[s] /\ \A w \in todo[s] : v <= w

MutantMatches(s, v) == TRUE

\* The checksum recorded for a version is that of the file in the image.
Matches(s, v) == recorded[v] = image[s][v]

\* A recorded version is passed over.
Skip(s, v) ==
  /\ pc[s] = "looping" /\ IsNext(s, v)
  /\ recorded[v] # Missing /\ Matches(s, v)
  /\ todo' = [todo EXCEPT ![s] = @ \ {v}]
  /\ UNCHANGED <<release, image, ledger, recorded, pc, pending>>

MutantMismatch(s, v) ==
  /\ pc[s] = "looping" /\ IsNext(s, v)
  /\ recorded[v] # Missing /\ ~Matches(s, v)
  /\ pending' = [pending EXCEPT ![s] = @ \cup {v}]
  /\ todo' = [todo EXCEPT ![s] = @ \ {v}]
  /\ UNCHANGED <<release, image, ledger, recorded, pc>>

\* RuntimeError: migration checksum mismatch.
Mismatch(s, v) ==
  /\ pc[s] = "looping" /\ IsNext(s, v)
  /\ recorded[v] # Missing /\ ~Matches(s, v)
  /\ Finish(s, "failed")
  /\ UNCHANGED <<release, image, ledger, recorded>>

\* The SELECT finds no row for the version.  What others have not committed it
\* does not see.
FindMissing(s, v) ==
  /\ pc[s] = "looping" /\ IsNext(s, v) /\ recorded[v] = Missing
  /\ pc' = [pc EXCEPT ![s] = "applying"]
  /\ UNCHANGED <<release, image, ledger, recorded, todo, pending>>

\* The file's statements and the INSERT wait for a transaction that has made
\* the same objects and the same row.
Blocked(s, v) == \E t \in Sessions \ {s} : v \in pending[t]

MutantApply(s, v) ==
  /\ pc[s] = "applying" /\ IsNext(s, v) /\ ~Blocked(s, v)
  /\ recorded[v] = Missing
  /\ recorded' = [recorded EXCEPT ![v] = image[s][v]]
  /\ todo' = [todo EXCEPT ![s] = @ \ {v}]
  /\ pc' = [pc EXCEPT ![s] = "looping"]
  /\ UNCHANGED <<release, image, ledger, pending>>

\* conn.transaction(): a savepoint, since the SELECTs have opened a transaction.
Apply(s, v) ==
  /\ pc[s] = "applying" /\ IsNext(s, v) /\ ~Blocked(s, v)
  /\ recorded[v] = Missing
  /\ pending' = [pending EXCEPT ![s] = @ \cup {v}]
  /\ todo' = [todo EXCEPT ![s] = @ \ {v}]
  /\ pc' = [pc EXCEPT ![s] = "looping"]
  /\ UNCHANGED <<release, image, ledger, recorded>>

\* Another session has committed the version since: the primary key refuses it.
Duplicate(s, v) ==
  /\ pc[s] = "applying" /\ IsNext(s, v) /\ ~Blocked(s, v)
  /\ recorded[v] # Missing
  /\ Finish(s, "failed")
  /\ UNCHANGED <<release, image, ledger, recorded>>

MutantMigrationFails(s) ==
  /\ pc[s] \in Migrating
  /\ pc' = [pc EXCEPT ![s] = "failed"] /\ todo' = [todo EXCEPT ![s] = {}]
  /\ UNCHANGED <<release, image, ledger, recorded, pending>>

\* A statement fails, two sessions create the table at once, the connection
\* breaks: leaving the connection rolls everything back.
MigrationFails(s) ==
  /\ pc[s] \in Migrating
  /\ Finish(s, "failed")
  /\ UNCHANGED <<release, image, ledger, recorded>>

\* The connection is left and commits; uvicorn follows unless the
\* acknowledgement is lost.
Commit(s) ==
  /\ pc[s] = "looping" /\ todo[s] = {}
  /\ recorded' = [v \in Versions |-> IF v \in pending[s] THEN image[s][v] ELSE recorded[v]]
  /\ Finish(s, "serving") \/ Finish(s, "failed")
  /\ UNCHANGED <<release, image, ledger>>

-----------------------------------------------------------------------------
(* Containers *)

Kill(s) ==
  /\ pc[s] \in Migrating \cup {"serving"}
  /\ pc' = [pc EXCEPT ![s] = IF pc[s] = "serving" THEN "stopped" ELSE "lingering"]
  /\ UNCHANGED <<release, image, ledger, recorded, todo, pending>>

\* PostgreSQL notices that the client of a session has gone.
Release(s) ==
  /\ pc[s] = "lingering"
  /\ Finish(s, "stopped")
  /\ UNCHANGED <<release, image, ledger, recorded>>

\* PostgreSQL and the API are stopped (docker compose down, docker compose stop).
Shutdown ==
  /\ pc' = [s \in Sessions |-> IF pc[s] \in {"unused", "failed"} THEN pc[s] ELSE "stopped"]
  /\ todo' = [s \in Sessions |-> {}] /\ pending' = [s \in Sessions |-> {}]
  /\ UNCHANGED <<release, image, ledger, recorded>>

MigrationStep(s) ==
  \/ CreateLedger(s)
  \/ \E v \in Versions :
       Skip(s, v) \/ Mismatch(s, v) \/ FindMissing(s, v) \/ Apply(s, v) \/ Duplicate(s, v)
  \/ Commit(s)

MigrationNext ==
  \/ EditRelease \/ Shutdown
  \/ \E s \in Sessions :
       \/ \E files \in Images : StartSession(s, files)
       \/ MigrationStep(s) \/ MigrationFails(s) \/ Kill(s) \/ Release(s)

MigrationSpec == MigrationInit /\ [][MigrationNext]_migrationVars

-----------------------------------------------------------------------------
(* SchemaUpgrades, as the migrations implement it *)

Built == {image[s] : s \in {t \in Sessions : pc[t] # "unused"}}

Serving == {image[s] : s \in {t \in Sessions : pc[t] = "serving"}}

Upgrades == INSTANCE SchemaUpgrades WITH built <- Built, schema <- recorded, serving <- Serving

-----------------------------------------------------------------------------
(* Properties *)

TypeOK ==
  /\ release \in Directory
  /\ image \in [Sessions -> Directory]
  /\ ledger \in BOOLEAN
  /\ recorded \in Directory
  /\ pc \in [Sessions -> {"unused", "lingering", "serving", "failed", "stopped"} \cup Migrating]
  /\ todo \in [Sessions -> SUBSET Versions]
  /\ pending \in [Sessions -> SUBSET Versions]

\* The schema only ever becomes that of one whole release: whenever what is
\* recorded changes, it is then all the files of one image, each with the content
\* it has there, whatever the seed had recorded, and however many starts ran at
\* once, failed, were killed or edited a file.
SchemaIsWhole == [][\E s \in Sessions : recorded' = image[s]]_recorded

\* An API serves only once every file of its image is recorded, with the content
\* it has in the image.
ServingMeansMigrated ==
  \A s \in Sessions : pc[s] = "serving" => \A v \in Files(image[s]) : recorded[v] = image[s][v]

\* The files recorded go from those of one image to those of another that has
\* them all, in one step, and none is ever changed or taken back, however many
\* sessions find, apply and commit them at the same time, fail or linger.
ImplementsSchemaUpgrades == Upgrades!Spec

=============================================================================
