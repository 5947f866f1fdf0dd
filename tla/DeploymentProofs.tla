-------------------------- MODULE DeploymentProofs --------------------------
(***************************************************************************)
(* Proofs about Migrations and about Deployment, for every number of       *)
(* starts, versions, contents, questions, secrets, emails and edits.       *)
(*                                                                         *)
(* The migrations.  A version that one session has applied and not         *)
(* committed keeps the others from applying it, so at a commit nothing     *)
(* that is added has been recorded meanwhile; and since releases only gain *)
(* files, from the one of the seed on, a session that adds one has all     *)
(* those already recorded in its image, so that what is recorded then is   *)
(* its image.                                                              *)
(*                                                                         *)
(* The deployment.  Every step is one of Migrations or leaves its          *)
(* variables alone, so what holds there holds here; the rest follows from  *)
(* what the containers of one start share.                                 *)
(***************************************************************************)
EXTENDS Deployment, TLAPS

-----------------------------------------------------------------------------
(* The migrations *)

\* Of two images, the files of one are among those of the other, and among
\* those of the release; a session not yet started has none.
ImagesInv ==
  /\ \A s \in Sessions : pc[s] = "unused" => Files(image[s]) = {}
  /\ \A s \in Sessions : Files(image[s]) \subseteq Files(release)
  /\ \A s, t \in Sessions : \/ Files(image[s]) \subseteq Files(image[t])
                            \/ Files(image[t]) \subseteq Files(image[s])

\* Of what is recorded and an image, the files of one are among those of the
\* other; the release has them all.
RecordedInv ==
  /\ Files(recorded) \subseteq Files(release)
  /\ \A s \in Sessions : \/ Files(recorded) \subseteq Files(image[s])
                         \/ Files(image[s]) \subseteq Files(recorded)

\* What a session has applied is in its image, and recorded nowhere, and no
\* other session has applied it.
PendingInv ==
  \A s \in Sessions :
    /\ pc[s] \notin {"looping", "applying", "lingering"} => pending[s] = {}
    /\ \A v \in pending[s] : image[s][v] # Missing /\ recorded[v] = Missing
    /\ \A t \in Sessions \ {s} : pending[s] \cap pending[t] = {}

\* What is left to do is in the image.
TodoInv == \A s \in Sessions : \A v \in todo[s] : image[s][v] # Missing

\* The versions a loop has passed are recorded as they are in its image, or
\* applied.
LoopInv ==
  \A s \in Sessions :
    pc[s] \in {"looping", "applying"} =>
      \A v \in Files(image[s]) \ todo[s] : v \in pending[s] \/ recorded[v] = image[s][v]

IInv ==
  /\ TypeOK /\ ImagesInv /\ TodoInv /\ PendingInv /\ LoopInv
  /\ RecordedInv /\ ServingMeansMigrated

-----------------------------------------------------------------------------

LEMMA InitIInv == MigrationInit => IInv
<1> SUFFICES ASSUME MigrationInit PROVE IInv
  OBVIOUS
<1> USE DEF MigrationInit, Directory, Files, Migrating
<1>1. TypeOK
  BY DEF TypeOK
<1>2. ImagesInv /\ TodoInv /\ PendingInv /\ LoopInv
  BY DEF ImagesInv, TodoInv, PendingInv, LoopInv
<1>3. RecordedInv /\ ServingMeansMigrated
  BY DEF RecordedInv, ServingMeansMigrated
<1> QED BY <1>1, <1>2, <1>3 DEF IInv

\* A commit records exactly the session's image, or nothing new.
LEMMA CommitKeepsWhole ==
  ASSUME IInv, NEW s \in Sessions, Commit(s)
  PROVE  recorded' = recorded \/ recorded' = image[s]
<1> USE DEF IInv, TypeOK, Directory, Files
<1>1. CASE pending[s] = {}
  BY <1>1 DEF Commit
<1>2. CASE pending[s] # {}
  <2>1. PICK v \in pending[s] : recorded[v] = Missing /\ image[s][v] # Missing
    BY <1>2 DEF PendingInv
  <2>2. Files(recorded) \subseteq Files(image[s])
    BY <2>1 DEF RecordedInv, ImagesInv
  <2>3. \A w \in Versions : recorded'[w] = image[s][w]
    <3> SUFFICES ASSUME NEW w \in Versions PROVE recorded'[w] = image[s][w]
      OBVIOUS
    <3>1. CASE image[s][w] = Missing
      BY <2>2, <3>1 DEF Commit, PendingInv
    <3>2. CASE image[s][w] # Missing
      BY <3>2 DEF Commit, LoopInv
    <3> QED BY <3>1, <3>2
  <2> QED BY <2>3 DEF Commit
<1> QED BY <1>1, <1>2

LEMMA RecordedStays ==
  ASSUME RecordedInv, UNCHANGED <<release, image, recorded>>
  PROVE  RecordedInv'
BY DEF RecordedInv, Files

LEMMA NextIInv == IInv /\ [MigrationNext]_migrationVars => IInv'
<1> SUFFICES ASSUME IInv, [MigrationNext]_migrationVars PROVE IInv'
  OBVIOUS
<1> USE DEF IInv, TypeOK, Directory, Files, Migrating
<1>1. CASE EditRelease
  <2>1. TypeOK'
    BY <1>1 DEF EditRelease
  <2>2. Files(release) \subseteq Files(release)'
    BY <1>1, MissingAssumption DEF EditRelease
  <2>3. ImagesInv'
    BY <1>1, <2>2 DEF EditRelease, ImagesInv
  <2>4. RecordedInv'
    BY <1>1, <2>2 DEF EditRelease, RecordedInv
  <2> QED BY <1>1, <2>1, <2>3, <2>4 DEF EditRelease, PendingInv, TodoInv, LoopInv, ServingMeansMigrated
<1>2. CASE Shutdown
  <2>1. UNCHANGED <<release, image, recorded>>
    BY <1>2 DEF Shutdown
  <2>2. RecordedInv'
    BY <2>1, RecordedStays
  <2> QED BY <1>2, <2>2 DEF Shutdown, ImagesInv, PendingInv, TodoInv, LoopInv, ServingMeansMigrated
<1>3. ASSUME NEW s \in Sessions, NEW files \in Images, StartSession(s, files) PROVE IInv'
  <2>1. TypeOK'
    BY <1>3 DEF StartSession, Images
  <2>2. ImagesInv'
    <3>1. \A t \in Sessions : \/ Files(files) \subseteq Files(image[t])
                              \/ Files(image[t]) \subseteq Files(files)
      BY <1>3 DEF Images, ImagesInv
    <3>2. Files(files) \subseteq Files(release)
      BY <1>3 DEF Images, ImagesInv
    <3>3. /\ pc'[s] = "starting" /\ image'[s] = files /\ release' = release
          /\ \A t \in Sessions \ {s} : image'[t] = image[t] /\ pc'[t] = pc[t]
      BY <1>3 DEF StartSession
    <3>4. \A t \in Sessions : /\ pc'[t] = "unused" => Files(image'[t]) = {}
                              /\ Files(image'[t]) \subseteq Files(release')
      BY <3>2, <3>3 DEF ImagesInv
    <3>5. \A t, u \in Sessions : \/ Files(image'[t]) \subseteq Files(image'[u])
                                 \/ Files(image'[u]) \subseteq Files(image'[t])
      <4> SUFFICES ASSUME NEW t \in Sessions, NEW u \in Sessions
                   PROVE  \/ Files(image'[t]) \subseteq Files(image'[u])
                          \/ Files(image'[u]) \subseteq Files(image'[t])
        OBVIOUS
      <4>1. CASE t # s /\ u # s
        BY <3>3, <4>1 DEF ImagesInv
      <4>2. CASE t = s \/ u = s
        BY <3>1, <3>3, <4>2
      <4> QED BY <4>1, <4>2
    <3> QED BY <3>4, <3>5 DEF ImagesInv
  <2>3. TodoInv' /\ PendingInv' /\ LoopInv'
    <3>1. /\ pc'[s] = "starting" /\ todo'[s] = {} /\ pending'[s] = {} /\ UNCHANGED <<recorded, todo, pending>>
          /\ \A t \in Sessions \ {s} : image'[t] = image[t] /\ pc'[t] = pc[t]
      BY <1>3 DEF StartSession, TodoInv, PendingInv, ImagesInv
    <3>2. TodoInv'
      BY <3>1 DEF TodoInv
    <3>3. PendingInv'
      BY <3>1 DEF PendingInv
    <3>4. LoopInv'
      BY <3>1 DEF LoopInv
    <3> QED BY <3>2, <3>3, <3>4
  <2>4. RecordedInv'
    <3>1. \/ Files(recorded) \subseteq Files(files)
          \/ Files(files) \subseteq Files(recorded)
      BY <1>3 DEF Images, RecordedInv
    <3>2. /\ image'[s] = files /\ UNCHANGED <<release, recorded>>
          /\ \A t \in Sessions \ {s} : image'[t] = image[t]
      BY <1>3 DEF StartSession
    <3> QED BY <3>1, <3>2 DEF RecordedInv
  <2> QED BY <1>3, <2>1, <2>2, <2>3, <2>4 DEF StartSession, ServingMeansMigrated
<1>4. ASSUME NEW s \in Sessions, CreateLedger(s) PROVE IInv'
  <2>1. UNCHANGED <<release, image, recorded>>
    BY <1>4 DEF CreateLedger
  <2>2. RecordedInv'
    BY <2>1, RecordedStays
  <2>3. TypeOK' /\ ImagesInv' /\ TodoInv'
    BY <1>4 DEF CreateLedger, ImagesInv, TodoInv
  <2>4. PendingInv'
    BY <1>4 DEF CreateLedger, PendingInv
  <2>5. LoopInv' /\ ServingMeansMigrated'
    BY <1>4 DEF CreateLedger, LoopInv, ServingMeansMigrated
  <2> QED BY <2>2, <2>3, <2>4, <2>5
<1>5. ASSUME NEW s \in Sessions, NEW v \in Versions, Skip(s, v) PROVE IInv'
  <2>1. TypeOK'
    BY <1>5 DEF Skip, Matches
  <2>2. ImagesInv' /\ TodoInv'
    BY <1>5 DEF Skip, Matches, ImagesInv, TodoInv
  <2>3. PendingInv'
    BY <1>5 DEF Skip, Matches, PendingInv
  <2>4. LoopInv'
    BY <1>5 DEF Skip, Matches, LoopInv
  <2>5. RecordedInv' /\ ServingMeansMigrated'
    BY <1>5 DEF Skip, Matches, RecordedInv, ServingMeansMigrated
  <2> QED BY <2>1, <2>2, <2>3, <2>4, <2>5
<1>6. ASSUME NEW s \in Sessions, NEW v \in Versions, Mismatch(s, v) PROVE IInv'
  <2>1. UNCHANGED <<release, image, recorded>>
    BY <1>6 DEF Mismatch, Finish
  <2>2. RecordedInv'
    BY <2>1, RecordedStays
  <2>3. TypeOK' /\ ImagesInv' /\ TodoInv'
    BY <1>6 DEF Mismatch, Finish, ImagesInv, TodoInv
  <2>4. PendingInv'
    BY <1>6 DEF Mismatch, Finish, PendingInv
  <2>5. LoopInv' /\ ServingMeansMigrated'
    BY <1>6 DEF Mismatch, Finish, LoopInv, ServingMeansMigrated
  <2> QED BY <2>2, <2>3, <2>4, <2>5
<1>7. ASSUME NEW s \in Sessions, NEW v \in Versions, FindMissing(s, v) PROVE IInv'
  <2>1. TypeOK'
    BY <1>7 DEF FindMissing
  <2>2. ImagesInv' /\ TodoInv'
    BY <1>7 DEF FindMissing, ImagesInv, TodoInv
  <2>3. PendingInv'
    BY <1>7 DEF FindMissing, PendingInv
  <2>4. LoopInv'
    BY <1>7 DEF FindMissing, LoopInv
  <2>5. RecordedInv' /\ ServingMeansMigrated'
    BY <1>7 DEF FindMissing, RecordedInv, ServingMeansMigrated
  <2> QED BY <2>1, <2>2, <2>3, <2>4, <2>5
<1>8. ASSUME NEW s \in Sessions, NEW v \in Versions, Apply(s, v) PROVE IInv'
  <2>1. image[s][v] # Missing
    BY <1>8 DEF Apply, IsNext, TodoInv
  <2>2. /\ pending'[s] = pending[s] \cup {v} /\ todo'[s] = todo[s] \ {v} /\ pc'[s] = "looping"
        /\ \A t \in Sessions \ {s} : pending'[t] = pending[t] /\ todo'[t] = todo[t] /\ pc'[t] = pc[t]
        /\ UNCHANGED <<image, release, recorded>>
    BY <1>8 DEF Apply
  <2>3. TypeOK' /\ ImagesInv' /\ TodoInv'
    BY <1>8, <2>2 DEF Apply, ImagesInv, TodoInv
  <2>4. PendingInv'
    BY <1>8, <2>1, <2>2 DEF Apply, Blocked, PendingInv
  <2>5. LoopInv'
    BY <1>8, <2>2 DEF Apply, LoopInv
  <2> QED BY <2>2, <2>3, <2>4, <2>5 DEF RecordedInv, ServingMeansMigrated
<1>9. ASSUME NEW s \in Sessions, NEW v \in Versions, Duplicate(s, v) PROVE IInv'
  <2>1. UNCHANGED <<release, image, recorded>>
    BY <1>9 DEF Duplicate, Finish
  <2>2. RecordedInv'
    BY <2>1, RecordedStays
  <2>3. TypeOK' /\ ImagesInv' /\ TodoInv'
    BY <1>9 DEF Duplicate, Finish, ImagesInv, TodoInv
  <2>4. PendingInv'
    BY <1>9 DEF Duplicate, Finish, PendingInv
  <2>5. LoopInv' /\ ServingMeansMigrated'
    BY <1>9 DEF Duplicate, Finish, LoopInv, ServingMeansMigrated
  <2> QED BY <2>2, <2>3, <2>4, <2>5
<1>10. ASSUME NEW s \in Sessions, MigrationFails(s) PROVE IInv'
  <2>1. TypeOK'
    BY <1>10 DEF MigrationFails, Finish
  <2>2. ImagesInv' /\ TodoInv'
    BY <1>10 DEF MigrationFails, Finish, ImagesInv, TodoInv
  <2>3. PendingInv'
    BY <1>10 DEF MigrationFails, Finish, PendingInv
  <2>4. LoopInv'
    BY <1>10 DEF MigrationFails, Finish, LoopInv
  <2>5. RecordedInv' /\ ServingMeansMigrated'
    BY <1>10 DEF MigrationFails, Finish, RecordedInv, ServingMeansMigrated
  <2> QED BY <2>1, <2>2, <2>3, <2>4, <2>5
<1>11. ASSUME NEW s \in Sessions, Commit(s) PROVE IInv'
  <2>0. /\ pc'[s] \in {"serving", "failed"} /\ todo'[s] = {} /\ pending'[s] = {}
        /\ \A t \in Sessions \ {s} : pc'[t] = pc[t] /\ todo'[t] = todo[t] /\ pending'[t] = pending[t]
        /\ UNCHANGED <<image, release>>
    BY <1>11 DEF Commit, Finish
  <2>1. TypeOK' /\ ImagesInv' /\ TodoInv'
    <3>1. TypeOK'
      <4>1. recorded' \in Directory
        BY <1>11 DEF Commit
      <4> QED BY <1>11, <4>1 DEF Commit, Finish
    <3>2. ImagesInv'
      <4>1. \A t \in Sessions : pc'[t] = "unused" => Files(image'[t]) = {}
        BY <2>0 DEF ImagesInv
      <4> QED BY <2>0, <4>1 DEF ImagesInv
    <3>3. TodoInv'
      BY <2>0 DEF TodoInv
    <3> QED BY <3>1, <3>2, <3>3
  <2>2. \A t \in Sessions \ {s} : \A v \in pending[t] : recorded'[v] = Missing
    BY <1>11 DEF Commit, PendingInv
  <2>3. \A v \in Versions : recorded[v] # Missing => recorded'[v] = recorded[v]
    BY <1>11 DEF Commit, PendingInv
  <2>4. PendingInv'
    BY <2>0, <2>2 DEF PendingInv
  <2>5. LoopInv'
    BY <1>11, <2>3 DEF Commit, Finish, LoopInv
  <2>6. RecordedInv'
    <3>1. CASE recorded' = recorded
      BY <2>0, <3>1, RecordedStays
    <3>2. CASE recorded' = image[s]
      BY <2>0, <3>2 DEF ImagesInv, RecordedInv
    <3> QED BY <1>11, <3>1, <3>2, CommitKeepsWhole
  <2>7. \A v \in Files(image[s]) : recorded'[v] = image[s][v]
    BY <1>11 DEF Commit, LoopInv
  <2>8. ServingMeansMigrated'
    BY <1>11, <2>3, <2>7 DEF Commit, Finish, ServingMeansMigrated
  <2> QED BY <2>1, <2>4, <2>5, <2>6, <2>8
<1>12. ASSUME NEW s \in Sessions, Kill(s) PROVE IInv'
  <2>1. /\ pc'[s] = IF pc[s] = "serving" THEN "stopped" ELSE "lingering"
        /\ pc[s] \in Migrating \cup {"serving"}
        /\ \A t \in Sessions \ {s} : pc'[t] = pc[t]
        /\ UNCHANGED <<release, image, ledger, recorded, todo, pending>>
    BY <1>12 DEF Kill
  <2>2. TypeOK' /\ ImagesInv' /\ TodoInv'
    BY <1>12, <2>1 DEF Kill, ImagesInv, TodoInv
  <2>3. PendingInv' /\ LoopInv'
    BY <2>1 DEF PendingInv, LoopInv
  <2> QED BY <2>1, <2>2, <2>3 DEF RecordedInv, ServingMeansMigrated
<1>13. ASSUME NEW s \in Sessions, Release(s) PROVE IInv'
  <2>1. UNCHANGED <<release, image, recorded>>
    BY <1>13 DEF Release, Finish
  <2>2. RecordedInv'
    BY <2>1, RecordedStays
  <2>3. TypeOK' /\ ImagesInv' /\ TodoInv'
    BY <1>13 DEF Release, Finish, ImagesInv, TodoInv
  <2>4. PendingInv'
    BY <1>13 DEF Release, Finish, PendingInv
  <2>5. LoopInv' /\ ServingMeansMigrated'
    BY <1>13 DEF Release, Finish, LoopInv, ServingMeansMigrated
  <2> QED BY <2>2, <2>3, <2>4, <2>5
<1>14. CASE UNCHANGED migrationVars
  <2>1. UNCHANGED <<release, image, recorded>>
    BY <1>14 DEF migrationVars
  <2>2. RecordedInv'
    BY <2>1, RecordedStays
  <2> QED BY <1>14, <2>2 DEF migrationVars, ImagesInv, PendingInv, TodoInv, LoopInv, ServingMeansMigrated
<1> QED
  BY <1>1, <1>2, <1>3, <1>4, <1>5, <1>6, <1>7, <1>8, <1>9, <1>10, <1>11, <1>12, <1>13, <1>14
  DEF MigrationNext, MigrationStep

-----------------------------------------------------------------------------

\* What the migrations of any number of starts keep, the type of every variable
\* included.
THEOREM MigrationInvariance == MigrationSpec => []IInv
BY InitIInv, NextIInv, PTL DEF MigrationSpec

\* Only a commit records anything.
LEMMA StepKeepsWhole ==
  IInv /\ [MigrationNext]_migrationVars => [\E s \in Sessions : recorded' = image[s]]_recorded
<1> SUFFICES ASSUME IInv, [MigrationNext]_migrationVars
             PROVE  recorded' = recorded \/ \E s \in Sessions : recorded' = image[s]
  OBVIOUS
<1>1. CASE EditRelease \/ Shutdown \/ UNCHANGED migrationVars
  BY <1>1 DEF EditRelease, Shutdown, migrationVars
<1>2. ASSUME NEW s \in Sessions, NEW files \in Images, StartSession(s, files)
      PROVE  recorded' = recorded
  BY <1>2 DEF StartSession
<1>3. ASSUME NEW s \in Sessions, CreateLedger(s) \/ MigrationFails(s) \/ Kill(s) \/ Release(s)
      PROVE  recorded' = recorded
  BY <1>3 DEF CreateLedger, MigrationFails, Kill, Release
<1>4. ASSUME NEW s \in Sessions, NEW v \in Versions,
             Skip(s, v) \/ Mismatch(s, v) \/ FindMissing(s, v) \/ Apply(s, v) \/ Duplicate(s, v)
      PROVE  recorded' = recorded
  BY <1>4 DEF Skip, Mismatch, FindMissing, Apply, Duplicate
<1>5. ASSUME NEW s \in Sessions, Commit(s)
      PROVE  recorded' = recorded \/ recorded' = image[s]
  BY <1>5, CommitKeepsWhole
<1> QED BY <1>1, <1>2, <1>3, <1>4, <1>5 DEF MigrationNext, MigrationStep

\* Whatever the seed had recorded, what is recorded only ever becomes that of one
\* whole image, whichever starts of migrate.py ran at once, failed or were killed.
THEOREM WholeSchema == MigrationSpec => SchemaIsWhole
BY StepKeepsWhole, MigrationInvariance, PTL DEF MigrationSpec, SchemaIsWhole

\* uvicorn serves only after migrate.py has recorded every file of the image
\* with its own checksum.
THEOREM MigratedServing == MigrationSpec => []ServingMeansMigrated
<1>1. IInv => ServingMeansMigrated BY DEF IInv
<1> QED BY <1>1, MigrationInvariance, PTL

-----------------------------------------------------------------------------
(* The migrations implement SchemaUpgrades *)

AbstractStep == [Upgrades!Next]_(Upgrades!upgradeVars)

\* No image is built yet.
LEMMA InitUpgrades == MigrationInit => Upgrades!Init
BY DEF MigrationInit, Directory, Upgrades!Init, Built, Serving

\* A step that starts no session, makes no API serve and records nothing.
LEMMA QuietStep ==
  ASSUME TypeOK, UNCHANGED <<image, recorded>>,
         \A s \in Sessions : (pc'[s] = "unused") <=> (pc[s] = "unused"),
         \A s \in Sessions : pc'[s] = "serving" => pc[s] = "serving"
  PROVE  AbstractStep
<1>1. Built' = Built
  BY DEF Built
<1>2. Serving' \subseteq Serving
  BY DEF Serving
<1> QED BY <1>1, <1>2 DEF AbstractStep, Upgrades!Next, Upgrades!Stop

\* A session that starts builds its image.
LEMMA StartBuilds ==
  ASSUME IInv, NEW s \in Sessions, NEW files \in Images, StartSession(s, files)
  PROVE  AbstractStep
<1>1. /\ pc[s] = "unused" /\ pc'[s] = "starting" /\ image'[s] = files /\ recorded' = recorded
      /\ \A t \in Sessions \ {s} : image'[t] = image[t] /\ pc'[t] = pc[t]
  BY DEF StartSession, IInv, TypeOK
<1>2. files \in [Versions -> Contents \cup {Missing}]
  BY DEF Images, IInv, TypeOK, Directory
<1>3. Built' = Built \cup {files}
  BY <1>1 DEF Built
<1>4. Serving' = Serving
  BY <1>1 DEF Serving
<1> QED BY <1>1, <1>2, <1>3, <1>4 DEF AbstractStep, Upgrades!Next, Upgrades!Build

\* A commit takes the schema to the session's image, which has all that was
\* recorded, as it was; or finds it has all of the image.
LEMMA CommitUpgrades ==
  ASSUME IInv, NEW s \in Sessions, Commit(s)
  PROVE  AbstractStep
<1> USE DEF IInv, TypeOK, Directory, Files
<1>1. /\ pc[s] = "looping" /\ todo[s] = {} /\ image' = image
      /\ pc'[s] \in {"serving", "failed"} /\ \A t \in Sessions \ {s} : pc'[t] = pc[t]
  BY DEF Commit, Finish
<1>2. \A v \in Versions : image[s][v] # Missing => v \in pending[s] \/ recorded[v] = image[s][v]
  BY <1>1 DEF LoopInv
<1>3. \/ recorded' = recorded /\ Upgrades!Within(image[s], recorded)
      \/ recorded' = image[s] /\ Upgrades!Within(recorded, image[s])
  <2>1. CASE pending[s] = {}
    BY <1>2, <2>1 DEF Commit, Upgrades!Within
  <2>2. CASE pending[s] # {}
    <3>1. PICK v \in pending[s] : recorded[v] = Missing /\ image[s][v] # Missing
      BY <2>2 DEF PendingInv
    <3>2. recorded'[v] # Missing
      BY <3>1 DEF Commit
    <3>3. recorded' = image[s]
      BY <3>1, <3>2, CommitKeepsWhole
    <3>4. ASSUME NEW w \in Versions, recorded[w] # Missing PROVE image[s][w] = recorded[w]
      <4>1. w \notin pending[s]
        BY <3>4 DEF PendingInv
      <4>2. recorded'[w] = recorded[w]
        BY <4>1 DEF Commit
      <4> QED BY <3>3, <4>2
    <3> QED BY <3>3, <3>4 DEF Upgrades!Within
  <2> QED BY <2>1, <2>2
<1>4. image[s] \in Built /\ Built' = Built
  BY <1>1 DEF Built
<1>5. Serving' \in {Serving, Serving \cup {image[s]}}
  <2>1. CASE pc'[s] = "serving"
    <3>1. Serving' = Serving \cup {image[s]}
      BY <1>1, <2>1 DEF Serving
    <3> QED BY <3>1
  <2>2. CASE pc'[s] = "failed"
    <3>1. Serving' = Serving
      BY <1>1, <2>2 DEF Serving
    <3> QED BY <3>1
  <2> QED BY <1>1, <2>1, <2>2
<1>6. Upgrades!Upgrade(image[s])
  BY <1>3, <1>4, <1>5 DEF Upgrades!Upgrade
<1> QED BY <1>4, <1>6 DEF AbstractStep, Upgrades!Next

\* Every step of the migrations is a step of SchemaUpgrades or none.
LEMMA MigrationsUpgrade == IInv /\ [MigrationNext]_migrationVars => AbstractStep
<1> SUFFICES ASSUME IInv, [MigrationNext]_migrationVars PROVE AbstractStep
  OBVIOUS
<1> USE DEF Migrating
<1>0. TypeOK
  BY DEF IInv
<1>1. CASE EditRelease \/ Shutdown \/ UNCHANGED migrationVars
  BY <1>0, <1>1, QuietStep DEF EditRelease, Shutdown, migrationVars, TypeOK
<1>2. ASSUME NEW s \in Sessions, NEW files \in Images, StartSession(s, files) PROVE AbstractStep
  BY <1>2, StartBuilds
<1>3. ASSUME NEW s \in Sessions, CreateLedger(s) \/ MigrationFails(s) \/ Kill(s) \/ Release(s)
      PROVE  AbstractStep
  <2>1. /\ UNCHANGED <<image, recorded>> /\ pc[s] # "unused"
        /\ pc'[s] \notin {"unused", "serving"} /\ \A t \in Sessions \ {s} : pc'[t] = pc[t]
    BY <1>0, <1>3 DEF CreateLedger, MigrationFails, Kill, Release, Finish, TypeOK
  <2> QED BY <1>0, <2>1, QuietStep
<1>4. ASSUME NEW s \in Sessions, NEW v \in Versions,
             Skip(s, v) \/ Mismatch(s, v) \/ FindMissing(s, v) \/ Apply(s, v) \/ Duplicate(s, v)
      PROVE  AbstractStep
  <2>1. /\ UNCHANGED <<image, recorded>> /\ pc[s] \notin {"unused", "serving"}
        /\ pc'[s] \notin {"unused", "serving"} /\ \A t \in Sessions \ {s} : pc'[t] = pc[t]
    BY <1>0, <1>4 DEF Skip, Mismatch, FindMissing, Apply, Duplicate, Finish, TypeOK
  <2> QED BY <1>0, <2>1, QuietStep
<1>5. ASSUME NEW s \in Sessions, Commit(s) PROVE AbstractStep
  BY <1>5, CommitUpgrades
<1> QED BY <1>1, <1>2, <1>3, <1>4, <1>5 DEF MigrationNext, MigrationStep

\* However starts of migrate.py overlap, fail, are killed or linger, what they do
\* to the schema is to take it from whole image to whole image.
THEOREM MigrationsImplement == MigrationSpec => ImplementsSchemaUpgrades
<1>1. IInv /\ [MigrationNext]_migrationVars => AbstractStep
  BY MigrationsUpgrade
<1> QED BY <1>1, InitUpgrades, MigrationInvariance, PTL
        DEF MigrationSpec, AbstractStep, ImplementsSchemaUpgrades, Upgrades!Spec

-----------------------------------------------------------------------------
(* The deployment *)

States == {"idle", "answered", "unreachable", "refused"} \cup Live

DeploymentTypeOK ==
  /\ env \in [secret : Secrets, email : Emails]
  /\ question \in [Questions -> [state : States, secret : Secrets \cup {None}, after : BOOLEAN]]
  /\ boot \in {"none", "waiting", "done", "clashed", "failed"}
  /\ stack \in {"down", "up"}
  /\ valves \in Secrets \cup {None}

\* The API's container runs its image.
ApiInv ==
  stack = "up" => api \in Sessions /\ pc[api] # "unused" /\ container.image = image[api]

\* After a bootstrap the pipe's secret is that of the containers, and so is that
\* of every question sent since.
SecretInv ==
  /\ boot # "none" => stack = "up"
  /\ stack = "up" => container.secret \in Secrets
  /\ boot = "done" => valves = container.secret
  /\ \A q \in Questions : question[q].after =>
       /\ boot = "done" /\ question[q].state \in Live
       /\ question[q].state = "sent" => question[q].secret = container.secret

\* While no email is changed, all that have one have the first.
EmailInv ==
  ~renamed =>
    /\ env.email = FirstEnv.email
    /\ stack = "up" => container.email = FirstEnv.email
    /\ account \in {None, FirstEnv.email}

DeploymentInv == DeploymentTypeOK /\ ApiInv /\ SecretInv /\ EmailInv /\ ClashesNeedRenaming

-----------------------------------------------------------------------------

\* The deployment does to the migrations what Migrations allows.
LEMMA StepsOfMigrations ==
  ASSUME DeploymentInv, [Next]_vars
  PROVE  [MigrationNext]_migrationVars
<1> USE DEF MigrationNext
<1>1. CASE ChangeRelease
  BY <1>1 DEF ChangeRelease
<1>2. CASE ChangeSecret \/ ChangeConfiguredEmail \/ Register \/ ChangeAccountEmail
  BY <1>2 DEF ChangeSecret, ChangeConfiguredEmail, Register, ChangeAccountEmail
<1>3. CASE Down
  BY <1>3 DEF Down
<1>4. CASE Migrate
  BY <1>4 DEF Migrate, DeploymentInv, ApiInv
<1>5. CASE ApiDies
  BY <1>5 DEF ApiDies, DeploymentInv, ApiInv
<1>6. CASE Bootstrap \/ BootstrapClashes \/ BootstrapFails
  BY <1>6 DEF Bootstrap, BootstrapClashes, BootstrapFails
<1>7. ASSUME NEW s \in Sessions, Up(s) PROVE MigrationNext
  BY <1>7 DEF Up, StartSession
<1>8. ASSUME NEW s \in Sessions, RestartApi(s) PROVE MigrationNext
  BY <1>8 DEF RestartApi, StartSession
<1>9. ASSUME NEW s \in Sessions, SessionEnds(s) PROVE MigrationNext
  BY <1>9 DEF SessionEnds
<1>10. ASSUME NEW q \in Questions, Ask(q) \/ Arrive(q) \/ GiveUp(q) \/ Respond(q)
       PROVE  UNCHANGED migrationVars
  BY <1>10 DEF Ask, Arrive, GiveUp, Respond
<1>11. CASE UNCHANGED vars
  BY <1>11 DEF vars
<1> QED
  BY <1>1, <1>2, <1>3, <1>4, <1>5, <1>6, <1>7, <1>8, <1>9, <1>10, <1>11 DEF Next

LEMMA InitDeploymentInv == Init => DeploymentInv
BY FirstAssumption
   DEF Init, DeploymentInv, DeploymentTypeOK, ApiInv, SecretInv, EmailInv, ClashesNeedRenaming,
       Idle, States, Live

LEMMA NextDeploymentInv == IInv /\ DeploymentInv /\ [Next]_vars => DeploymentInv'
<1> SUFFICES ASSUME IInv, DeploymentInv, [Next]_vars PROVE DeploymentInv'
  OBVIOUS
<1> USE NoneAssumption DEF DeploymentInv, DeploymentTypeOK, States, Live
<1>1. CASE ChangeRelease \/ ChangeSecret \/ ChangeConfiguredEmail
  BY <1>1 DEF ChangeRelease, EditRelease, ChangeSecret, ChangeConfiguredEmail, demoVars, webui,
              migrationVars, ApiInv, SecretInv, EmailInv, ClashesNeedRenaming
<1>2. CASE Register \/ ChangeAccountEmail
  BY <1>2 DEF Register, ChangeAccountEmail, demoVars, migrationVars,
              ApiInv, SecretInv, EmailInv, ClashesNeedRenaming
<1>3. CASE Down
  BY <1>3 DEF Down, EndQuestions, Ended, Shutdown, settings, webui,
              ApiInv, SecretInv, EmailInv, ClashesNeedRenaming
<1>4. CASE Migrate
  <2>1. UNCHANGED image /\ \A s \in Sessions : pc[s] # "unused" => pc'[s] # "unused"
    BY <1>4 DEF Migrate, MigrationStep, MigrationFails, CreateLedger, Skip, Mismatch, FindMissing,
                Apply, Duplicate, Commit, Finish, IInv, TypeOK
  <2> QED BY <1>4, <2>1 DEF Migrate, settings, demoVars, webui,
                            ApiInv, SecretInv, EmailInv, ClashesNeedRenaming
<1>5. CASE ApiDies
  <2>1. UNCHANGED image /\ \A s \in Sessions : pc[s] # "unused" => pc'[s] # "unused"
    BY <1>5 DEF ApiDies, Kill, IInv, TypeOK
  <2> QED BY <1>5, <2>1 DEF ApiDies, Ended, settings, demoVars, webui,
                            ApiInv, SecretInv, EmailInv, ClashesNeedRenaming
<1>6. CASE Bootstrap
  BY <1>6 DEF Bootstrap, SetValves, Exists, migrationVars, settings,
              ApiInv, SecretInv, EmailInv, ClashesNeedRenaming
<1>7. CASE BootstrapClashes
  BY <1>7 DEF BootstrapClashes, Exists, migrationVars, settings, webui,
              ApiInv, SecretInv, EmailInv, ClashesNeedRenaming
<1>8. CASE BootstrapFails
  BY <1>8 DEF BootstrapFails, migrationVars, settings, webui,
              ApiInv, SecretInv, EmailInv, ClashesNeedRenaming
<1>9. ASSUME NEW s \in Sessions, Up(s) PROVE DeploymentInv'
  BY <1>9 DEF Up, StartSession, IInv, TypeOK, settings, webui,
              ApiInv, SecretInv, EmailInv, ClashesNeedRenaming
<1>10. ASSUME NEW s \in Sessions, RestartApi(s) PROVE DeploymentInv'
  BY <1>10 DEF RestartApi, StartSession, IInv, TypeOK, settings, webui,
               ApiInv, SecretInv, EmailInv, ClashesNeedRenaming
<1>11. ASSUME NEW s \in Sessions, SessionEnds(s) PROVE DeploymentInv'
  BY <1>11 DEF SessionEnds, Release, Finish, IInv, TypeOK, settings, demoVars, webui,
               ApiInv, SecretInv, EmailInv, ClashesNeedRenaming
<1>12. ASSUME NEW q \in Questions, Ask(q) PROVE DeploymentInv'
  BY <1>12 DEF Ask, migrationVars, settings, demoVars, webui,
               ApiInv, SecretInv, EmailInv, ClashesNeedRenaming
<1>13. ASSUME NEW q \in Questions, Arrive(q) \/ GiveUp(q) \/ Respond(q) PROVE DeploymentInv'
  <2>1. question' \in [Questions -> [state : States, secret : Secrets \cup {None}, after : BOOLEAN]]
    <3>1. ASSUME NEW how \in {"answered", "unreachable"}, End(q, how)
          PROVE  question' \in [Questions -> [state : States, secret : Secrets \cup {None}, after : BOOLEAN]]
      BY <3>1 DEF End, Ended
    <3>2. ASSUME NEW state \in {"refused", "working", "abandoned"}, Becomes(q, state)
          PROVE  question' \in [Questions -> [state : States, secret : Secrets \cup {None}, after : BOOLEAN]]
      BY <3>2 DEF Becomes
    <3> QED BY <1>13, <3>1, <3>2 DEF Arrive, GiveUp, Respond
  <2>2. /\ \A r \in Questions \ {q} : question'[r] = question[r]
        /\ question'[q].after => /\ question[q].after
                                 /\ question'[q].state \in {"working", "abandoned"}
    BY <1>13 DEF Arrive, GiveUp, Respond, End, Ended, Becomes, SecretInv
  <2> QED BY <1>13, <2>1, <2>2 DEF Arrive, GiveUp, Respond, migrationVars, settings, demoVars, webui,
               ApiInv, SecretInv, EmailInv, ClashesNeedRenaming
<1>14. CASE UNCHANGED vars
  BY <1>14 DEF vars, migrationVars, settings, demoVars, webui,
               ApiInv, SecretInv, EmailInv, ClashesNeedRenaming
<1> QED
  BY <1>1, <1>2, <1>3, <1>4, <1>5, <1>6, <1>7, <1>8, <1>9, <1>10, <1>11, <1>12, <1>13, <1>14 DEF Next

-----------------------------------------------------------------------------

\* What the migrations and the deployment keep together.
THEOREM DeploymentInvariance == Spec => [](IInv /\ DeploymentInv)
<1>1. Init => IInv /\ DeploymentInv
  BY InitIInv, InitDeploymentInv DEF Init
<1>2. IInv /\ DeploymentInv /\ [Next]_vars => (IInv /\ DeploymentInv)'
  BY StepsOfMigrations, NextIInv, NextDeploymentInv
<1> QED BY <1>1, <1>2, PTL DEF Spec

\* In the demo, with all its starts, stops and crashes, what is recorded only ever
\* becomes that of one whole image.
THEOREM DeployedSchema == Spec => SchemaIsWhole
<1>1. IInv /\ DeploymentInv /\ [Next]_vars => [\E s \in Sessions : recorded' = image[s]]_recorded
  BY StepsOfMigrations, StepKeepsWhole
<1> QED BY <1>1, DeploymentInvariance, PTL DEF Spec, SchemaIsWhole

\* In the demo an API that serves has all the files of its image recorded.
THEOREM DeployedServing == Spec => []ServingMeansMigrated
<1>1. IInv => ServingMeansMigrated BY DEF IInv
<1> QED BY <1>1, DeploymentInvariance, PTL

\* The API never refuses a question the pipe asked after the bootstrap.
THEOREM NoRefusalAfterBootstrap == Spec => []RefusedOnlyBeforeBootstrap
<1>1. DeploymentInv => RefusedOnlyBeforeBootstrap
  BY DEF DeploymentInv, SecretInv, RefusedOnlyBeforeBootstrap, Live
<1> QED BY <1>1, DeploymentInvariance, PTL

\* A demo whose emails are left alone can always be started again.
THEOREM NoClashWithoutRenaming == Spec => []ClashesNeedRenaming
<1>1. DeploymentInv => ClashesNeedRenaming BY DEF DeploymentInv
<1> QED BY <1>1, DeploymentInvariance, PTL

\* With the demo around them, its edits, crashes and restarts included, the
\* migrations still implement SchemaUpgrades.
THEOREM DeploymentImplements == Spec => ImplementsSchemaUpgrades
<1>1. Init => Upgrades!Init
  BY InitUpgrades DEF Init
<1>2. IInv /\ DeploymentInv /\ [Next]_vars => AbstractStep
  BY StepsOfMigrations, MigrationsUpgrade
<1> QED BY <1>1, <1>2, DeploymentInvariance, PTL
        DEF Spec, AbstractStep, ImplementsSchemaUpgrades, Upgrades!Spec

=============================================================================
