# TLA+ models of Company Intelligent

These modules model the orchestrator API of this repository
(`orchestrator-api/app`), the part that decides what a user may read, plans and
runs searches over documents and tables, and keeps the PostgreSQL dataset in
step with a folder of files; and its deployment: the migrations, the bootstrap
of Open WebUI and the pipe that asks the API. TLC checks the models on small
instances; TLAPS proves every safety property that holds for every
value of the constants.

Contents: [the system](#1-the-system), [what makes it
hard](#2-what-makes-it-hard), [modules and code](#3-modules-and-the-code-they-model),
[runs](#4-what-the-runs-check), [assumptions and fairness](#5-assumptions-fairness-and-bounds),
[findings](#6-findings), [proofs](#7-what-is-proved), [what is left
out](#8-what-is-not-modelled), [plan](#9-plan). To repeat a check:
`tlc -config MCSqlRagTool.cfg MCSqlRagTool`; a proof: `tlapm SqlRagToolProofs.tla`
(and so for each module named `...Proofs`).

## 1. The system

Paths are below `orchestrator-api/app`, or of the repository (`/`).

| Component | State it keeps | Operations | Correct when |
| --- | --- | --- | --- |
| sql_rag tool graph, `tools/sql_rag` | the state of one invocation: plan, current step, results, coverage | plan, schedule, run one child, normalise, bundle | steps run in the plan's order, stop at the first failure, and success means every obligation was met |
| sql child workflow, `tools/sql_rag/sql` | the state of one run | filter schema by permission, load joins, select, generate, validate, execute | a selection within the permitted schema; retries bounded; failures come out as failures |
| rag child workflow, `tools/sql_rag/rag` | the state of one run | filter documents, select, take chunks, validate evidence | evidence only of permitted documents, cited at their present path |
| runtime store, `db/runtime_store.py` | PostgreSQL: sources, entries, chunks, structured resources, a table for each, approved joins | rebuild, refresh, delete, rename, list, query | a resource and its runtime tables change together |
| row-level security, `db/migrations` | policies and grants | decide which rows a query sees | follows the scope and key of the table (not modelled) |
| watchdog, `services/watchdog_sync.py`, `watchdog_runtime.py` | an in-memory queue of events and its flag | normalise, enqueue and coalesce, drain, apply | what the dataset serves is what the files hold, or someone was told |
| reconciliation, `services/watchdog_reconciliation.py` | none | compare files with records | "current" means what it says (not modelled) |
| rebuild, `services/source_catalog_dataset_rebuild.py` | none of its own | scan and replace the dataset | the new dataset is the scan |
| join discovery, `services/join_discovery_approved_joins.py`, `scripts/rebuild_approved_joins.py`, `scripts/rebuild_dataset.py` | none of its own; the approved joins are in the store | read the resources, ask a model, validate its answer, replace the joins | a join rests on the tables the model was shown; the joins are those of one discovery; a failure leaves none |
| permission schema graph, `graphs/permission_schema`, `services/permissions` | `_CACHE`, one dictionary per process | look up, validate, resolve, build, store | a request gets its own user's permissions, not older than a bound |
| main graph and route, `graphs/main`, `routes/openwebui.py` | the state of one request | permission, tool selection, tool, composer | "answered" is earned; no tool without permission |
| migrations, `db/migrate.py` | `schema_migrations`, the schema | apply the files of an image that are not recorded | the schema is that of one whole release, and the API serves only with its own |
| start script, containers, `/scripts/project30_demo.ps1`, `/docker-compose.yml` | `.env`, containers, volumes | take down, make anew, restart | what is made anew agrees with what the volumes keep |
| Open WebUI bootstrap, `/openwebui_bootstrap` | `webui.db`: accounts, tool, pipe and valves | one transaction per start | the pipe has the API's secret; the bootstrap goes through |
| pipe, `/openwebui_functions` | one question | ask with a timeout | answered, or told that it was not |

How they meet:

* **Calls.** The route runs the main graph, synchronously, on a thread of
  FastAPI's pool; the main graph runs the permission graph, the planner, the
  tool graph and the composer as subgraphs; the tool graph runs one child
  workflow per step of its plan. Within a request everything is sequential.
* **Shared memory.** Concurrent requests of one process share `_CACHE` and
  nothing else.
* **Shared store.** Requests (readers), the watchdog process, rebuilds and join
  discovery (writers) share the PostgreSQL dataset, each method of
  `PostgresRuntimeStore` being one transaction at READ COMMITTED. A request
  reads it in several transactions, with model calls between them.
* **Shared files.** The dataset root changes while the watchdog and the rebuild
  read it.
* **Seed.** A new PostgreSQL volume is filled from
  `/docker/postgres-init/001_project3_demo_seed.sql.gz`, a `pg_dump` of some
  earlier database, `schema_migrations` included, before the API's first start.
* **Databases that outlive containers.** A start makes all containers anew from
  `.env` and the release; PostgreSQL and `webui.db` keep what earlier starts
  wrote. The API's container migrates the one, the bootstrap's writes the other,
  neither waits for the other.
* **External.** The models (any answer, any failure), the directory behind the
  identity adapter (changes and fails at will), the observer that turns file
  changes into events (not in the repository), PostgreSQL itself.

## 2. What makes it hard

`PROJECT.json` lists every hazard with its line. In short:

* *Results applied over a changed world*: a child filters by permission in one
  transaction and reads rows or chunks in another; joins are read later than
  the schema; join discovery writes ids it read before a model call.
* *Order of events*: coalescing keeps the place of the first event of a path; a
  move followed by a deletion, a temporary name moved to a final one, a rename
  onto a catalogued path.
* *Failure in the middle*: an exception ends a batch whose items are already
  drained; a restart forgets the queue; one step of a plan fails after others
  succeeded.
* *Writers that overlap*: the rebuild selects the tables to drop before it
  deletes the rows; two writers lock joins, rows and tables in different orders,
  and the refresh of a workbook drops its tables in no order at all.
* *Names cut short*: PostgreSQL keeps 63 bytes of a relation's name, so that two
  resource keys can come to have one table.
* *Committed and not yet reported*: a discovery that dies after its `COMMIT`.
* *Discoveries that overlap*: neither sees the other's joins; refreshes and
  deletions take joins along by cascade, and only a report says so.
* *Starts over old data*: a database that comes filled from a dump, a file edited after it was applied, an older image
  started again, a killed start whose session still holds its locks, a secret or
  an email changed between two starts.
* *Age of permissions*: an entry's life counts from the store, not from the read
  of the groups; a slow resolution may be stored over a later one.

## 3. Modules and the code they model

`PROJECT.json` maps each definition to its lines.

```
RuntimePlan   ChildContract                DatasetStore      StoreTransactions *
     \         /   |      \   \                 |             (same methods, by
     SqlRagTool *  |       \   \           WatchdogSync *        statement)
     |       \     |        \   \
     |      MC..  SqlSubgraph * RagSubgraph *                JoinDiscovery *
     |                                                       (the joins alone)
  PlanExecution (abstract)     PermissionSchema   Migrations
                                     |            |       \
                                 MainGraph *  Deployment *  SchemaUpgrades (abstract)

* M has its theorems in MProofs, those about the modules it extends with them
```

**RuntimePlan** (`tools/sql_rag/contracts.py`). What `validate_runtime_plan`
accepts. A plan is reduced to status, obligations and steps; anything the code
rejects by form is one member outside the well-formed ones (`"bad_id"`,
`"bad_type"`). A goal of whitespace is a value of its own, `"blank"`, since
validation accepts what `perform_rag_sql` refuses.

**ChildContract.** The results a child may hand back, by status and by whether
its output is usable. `SqlRagTool` assumes it of the children (its guarantee is
checked on the other side by `KeepsContract` in both child modules), so the two
levels are composed by contract and not by product.

**SqlRagTool** (`graph.py` and the seven nodes of the tool). One action per node
and per way out of it; `node` is the node that runs next, so each action sets
it with the conditional edge's function (`AfterAgent`, `AfterPlanner`,
`AfterExecutor`). The executor's branches are one action each, in the order of
its early returns. `supersteps` counts nodes as LangGraph does.

**PlanExecution.** The abstract promise: the jobs of an accepted graph start one
at a time, each once and after all it depends on; a stop is final; success is
delivered only with every job finished. `SqlRagTool!Execution` is the refinement
mapping: a job is started when it has a result or is the current step, and
finished when one of its obligations is covered.

**DatasetStore** (`db/runtime_store.py`). The dataset and the write methods, one
operator each, as a transaction that commits or fails. A source stands for its
catalogue row and its entry; a table remembers the path it was imported from
(`origin`) while its source moves, as `metadata` and `source_uri` do in the code.
A resource stands for all tables of a file, which these methods write together.
The content hash is left out: no code of the repository reads it back. A
replacement by a scan is stated as the sets of sources and resources that result,
ids being dealt out in some order of the paths, which nothing depends on.

**WatchdogSync** (`services/watchdog_sync.py`, `watchdog_runtime.py`,
`source_catalog_dataset_rebuild.py`). File changes
enqueue normalised events; `Drain` takes the batch; one action per branch of the
application of an item, the parse and the store's transaction being two steps
(`ReadFile`, `Refresh`); `Restart` at any moment; a rebuild that goes file by
file and commits at the end. It reads each file twice, for its hash
(`RebuildHashes`) and to parse it (`RebuildParses`), and the file may change or
vanish between the two. `_validate_csv_header_for_watchdog` and the import read a
csv file twice as well; that pair is one step, `ReadFile`, since a change between
the two has an event of its own behind it.

**StoreTransactions** (`db/runtime_store.py` again, statement by statement). A
transaction is a program of statements with what it has done and not committed,
and so its locks: `Holds` says which statement waits for which uncommitted work
(unique keys, `DROP TABLE` against readers, deletes and cascades, foreign keys),
`Fault` which fails, `Deadlocked` who waits in a circle (whoever is in every set that
has the ones it waits for and is closed under waiting). A file holds `Sheets`,
one in a csv file and several in a workbook, each a resource with a key of its
own; a refresh finds any of them in the file. `RelationOf` is what PostgreSQL
makes of the name derived from a key (`structured_<scope>_<stem>_<sheet>`, cut at
63 bytes), so it need not tell keys apart. A deletion selects
the relations of its rows, drops them one by one in any order, then deletes the
rows there are; a schema read goes by the order of the keys. `DELETE` works
through its snapshot row by row and then cascades. A relation is there or not,
and remembers the row it was created for. The rows of sources and entries,
and the locks that `ON DELETE SET NULL` takes in structured_resources, are left
out: a refresh or rebuild takes the latter only on rows it has deleted itself,
except for a table whose file was moved.

**SqlSubgraph** and **RagSubgraph** (`tools/sql_rag/sql`, `tools/sql_rag/rag`).
One action per node, over a store that other actions replace between them.
A query is the set of relations it names, any there are, and whether the
deterministic check takes it; what the row policies leave of its rows is not
modelled (section 8); a document has one chunk, safe or not.

**PermissionSchema** (`graphs/permission_schema`, `services/permissions`). Each
worker's request, node by node, over a shared cache, with a clock and a
directory. **MainGraph** EXTENDS it with the rest of a request; the planner, the
tool and the composer touch only their own request's state, so each is one step.
The tool's statuses are those `SqlRagTool` ends with.

**JoinDiscovery** (`services/join_discovery_approved_joins.py`,
`schemas/join_discovery.py`, the two scripts). A run, from the read of the
resources through the model's answer and its validation to the report, beside
rebuilds (each followed by a discovery), watchdog batches and another run. A
table's identity is its `generation`, as a resource id is; a join remembers the
run that wrote it, so that what the model was shown can be compared with what
the join names later. The replacement is three steps: the snapshot its `DELETE`
takes, the wait for rows another run has deleted, insert and commit (`CommitWrite`,
after which the connection may break); audit event and report follow as a step of
their own (`ReportWrite`), and the process may be killed before it. A validated
answer is any set `ValidatedJoins` makes of a sequence of candidates, in which a
column may be invented and a pair proposed twice or reversed. Refresh, deletion
and rebuild are one step each: what happens within them is in StoreTransactions.

**Migrations** (`db/migrate.py`). Starts of the API as sessions of PostgreSQL:
`CreateLedger` with its own commit, the loop (`Skip`, `Mismatch`, `FindMissing`
then `Apply`, the read and the write being two steps), and one `Commit` for all
files, since the first `SELECT` opens the transaction and `conn.transaction()`
is a savepoint in it. A killed start lingers until PostgreSQL ends its session.
A release gains files and has files edited; a start runs the release's image or
one that an earlier start had. The database is new, or comes from the seed dump:
then the ledger is there and has recorded what its exporter had, files of this
release or an earlier one, with the content they had there.

**SchemaUpgrades.** The abstract promise of the migrations: the schema is at first what a new or
restored database has, and in one step goes to that of a built image that has all
it had; an API serves once the schema has its image. `Migrations!Upgrades` is the refinement
mapping.

**Deployment** (`/scripts/project30_demo.ps1`, `/docker-compose.yml`,
`/openwebui_bootstrap`, `/openwebui_functions`, `routes/openwebui.py`) EXTENDS
Migrations with what surrounds it: `Down` and `Up` make the containers, which
keep the image, the secret and the email of that moment; the API's may die and
be started again; `Bootstrap` is its one transaction, `BootstrapClashes` the
`INSERT` under a fixed id that is taken; a question is sent with the secret in
the valves, and refused, answered, unreachable or abandoned.

**MC…** modules give the instances. Operators named `Mutant…` are deliberately
wrong variants of the definition that follows them; nothing in the models uses
them. They exist to show, definition by definition, that each property fails
when the code it is about is wrong.

## 4. What the runs check

State counts are distinct states found by TLC.

| Run (cfg) | States | Shows |
| --- | --- | --- |
| `plan_execution` (MCSqlRagTool) | 7,472 | For every well-formed plan of up to three executable steps and every plan one edit from a well-formed one, with any child results: steps run in plan order (`RunsInPlanOrder`), stop at the first that does not pass (`FirstFailureStops`), find their dependencies met and covered (`DependenciesSatisfied`), success is earned (`SuccessIsEarned`), a failure is reported with its own status (`FailureReportedAsIs`), the branches "could not make progress" and "without covering every obligation" are dead (`StopsForACause`), the number of nodes is bounded (`SuperstepsBounded`), and the tool implements `PlanExecution`. |
| `watchdog_documents` | 557,684 | A document in no move is out of step only with a reason (`DivergenceExplained`); the batch report never drops a failure (`ReportKeepsFailure`). |
| `watchdog_tables` | 434,328 | The same for tables, two of which share a name; a table without a source comes from a move (`OrphansComeFromMoves`). |
| `store_writers` | 310,593 | A rebuild and the refreshes of a workbook and of a csv file, two of whose tables have one relation, interleave, fail and crash: a resource has the table created with it, unless two files contend for its relation and one's table was committed while another writer was at work (`RowsHaveTables`); a table loses its row only when writers overlapped, and an import meets `DuplicateTable` only after that or when two keys have its name (`OrphansNeedOverlap`). |
| `store_joins` (fair) | 99,629 | A rebuild of two csv files, the refresh of one, a schema read and a join discovery: a join relates resources that are there, whatever is deleted or approved at the same time (`JoinsReferToRows`); only the rebuild can deadlock with the read (`DeadlocksNeedSeveralDrops`); every transaction ends (`EveryTransactionEnds`). |
| `store_readers` | 485,196 | A schema read and a query beside the refreshes of a workbook and of a csv file: a deadlock with them has a workbook's refresh in it that waits for its second drop (`DeadlocksNeedSeveralDrops`); what a transaction has read stays committed until it ends (`ReadsAreStable`). |
| `sql_subgraph` | 854,386 | Over a dataset replaced twice during a run, queries naming any relations: a selection within the schema although joins are read later, self-joins included (`SelectionFitsSchema`), four generations and one execution at most (`GenerationBounded`), the contract (`KeepsContract`). |
| `rag_subgraph` | 132,004 | Evidence is permitted, safe and cited at the path it had when its text was read (`EvidenceIsCurrent`), and the contract. |
| `main_graph` | 1,861,673 | Two concurrent requests: how long a revoked permission lasts (`RevocationTakesEffect`), no other user's schema (`CacheKeepsOwners`), answers rest on a success of the tool under the user's own schema (`AnswersAreEarned`), a citation shown is the one meant or a later one of the same number (`CitationsMeantOrShadowed`). |
| `join_discovery` | 1,420,154 | Two discoveries, one after a rebuild, and a watchdog batch over three tables: an approved join names tables as they are and as its model was shown them, all of them present (`JoinsRestOnTheirEvidence`); the joins are of one discovery, each pair once, unless two wrote at the same time (`OneDiscoveryUnlessOverlapped`); joins are those of a discovery that reports them or has not come to its report since it committed, killed there perhaps, and one that reports no success has left no join unless its commit's acknowledgement was lost (`HonestReports`); a batch that ends announces the joins it took away (`LossIsAnnounced`). |
| `deployment` (fair) | 797,936 | Two starts of the API over a new or a seeded database, and edits of the release, the secret, `.env`'s email and accounts: no step changes what is recorded but to that of one whole image (`SchemaIsWhole`); the API serves only with every file of its image recorded as it is (`ServingMeansMigrated`); a question asked after the bootstrap is not refused (`RefusedOnlyBeforeBootstrap`); the bootstrap clashes with an account only after an email was changed (`ClashesNeedRenaming`); the migrations implement `SchemaUpgrades` (`ImplementsSchemaUpgrades`); every start ends its migrations (`StartsEnd`). |
| `deleted_table` | | The finding below: it refutes what a test of the repository is named for. |

Eight properties state how far a promise goes rather than the promise one
might expect, because the code does not keep the latter:

* `RevocationTakesEffect` bounds a revoked permission by `Ttl + ResolveTime`,
  not by the time to live alone.
* `DivergenceExplained` excludes moved paths until a rebuild, and temporary
  names; and an explanation ("asked for a rebuild") is not a repair.
* `CitationsMeantOrShadowed` admits that citation ids, numbered from one in each
  rag step, collide.
* `OneDiscoveryUnlessOverlapped` admits the union of two discoveries that write
  at the same time, pairs twice included: the table has no unique constraint.
* `DeadlocksNeedSeveralDrops` admits deadlocks of a request with the refresh of a
  workbook and with a rebuild, and says that there are no others.
* `RowsHaveTables` and `OrphansNeedOverlap` admit what cut names lead to.
* `LossIsAnnounced` admits that an exception takes the report of a batch along.

## 5. Assumptions, fairness and bounds

**Assumptions.** Named `ASSUME`s in the modules, evaluated by TLC:
`MaxRuntimeStepsAssumption`, `PlansAssumption`, `NoneAssumption`,
`PathsAssumption`, `NullsAssumption`, `NamesAssumption`, `SheetsAssumption`,
`ActorsAssumption`, `DatasetsAssumption`, `TimesAssumption`, `CountsAssumption`,
`ColumnsAssumption`, `VersionsAssumption`, `MissingAssumption`, `FirstAssumption`.
The theorems rest on these and on nothing else. They say that constants have the
form the code gives them: a folder has finitely many files, each of one kind; a
scan has a list of sheets, each with a file and a key; a transaction is that of one method, and what
was loaded before is no transaction's; citation counts are numbers; an id is a
number; a run is not a batch; and what stands for "none" (`None`, `NoRows`,
`NoSource`, `NoPath`, `NoFile`, `NoRead`, `NoTable`) is no value of its type, as
SQL's `NULL` and Python's `None` are not.
Beyond them:

* `ResolveTime` bounds the time from reading the groups to storing the schema.
  The code has no such bound; without one no bound on revocation exists, and the
  property names it for that reason.
* The observer delivers one event per change, in order, before the next change.
  It is not in the repository; its tests call `normalize_watchdog_event` this way.
  Lost events are covered only as far as `Restart` loses them.
* PostgreSQL at READ COMMITTED as documented: row and table locks to the end of
  a transaction, a wait for uncommitted unique keys, a deadlock ended by
  aborting one of its members. Savepoints do not occur in these methods.
* Uuids are never reused (`fresh`).
* The seed was dumped from a database of this release or an earlier one. The dump
  in the repository has recorded exactly the four migrations of the repository,
  with their checksums.
* Releases gain and edit migration files and never remove one. Were one removed,
  a start of an image that has it and one of the release that follows could
  leave recorded what no image has.
* Open WebUI keeps the emails of accounts apart. Its sign-up and its settings are
  the only other writers of the accounts.
* Sessions wait for each other over one version only: the files of different
  versions make different objects.

**Fairness.** `EveryTransactionEnds` needs weak fairness of `Proceed`
for each transaction, that is, PostgreSQL goes on with a transaction that is not
blocked and ends a deadlock after `deadlock_timeout`. `StartsEnd` needs weak
fairness of the migrations of the API's present start, a loop without waits
other than for locks, and of `SessionEnds`: PostgreSQL notices in time that the
client of a killed start has gone. Without the latter a start may wait for ever
for the locks of its predecessor. No fairness is assumed of
users, files, models or processes: they may stop at any time. Everything else is
a safety property.

**Bounds**, and why they are enough. What a theorem states holds without them; they
matter to the two liveness properties, and to the runs' power to refute the mutants:

* `SqlRagTool`: four step ids and three obligations give plans with every
  dependency graph over three executable steps, which includes chains, forks and
  joins. `MaxRuntimeSteps` is 4 (`MAX_RUNTIME_STEPS` is 8 in the code).
* `WatchdogSync`: two or three file operations (`MaxFileOps`) and one rebuild
  (`MaxRebuilds`). The events of one path meet in the queue with two operations;
  a move followed by a deletion, or an operation between a drain and the end of
  the batch, needs no more than three. Two valid contents suffice, since the
  code compares contents only for equality, and are interchangeable
  (`SYMMETRY`); two more stand for those a parser refuses and those it cannot
  decode.
* `StoreTransactions`: each actor runs one transaction; a workbook of two sheets
  is the least with which lock orders can differ, and a csv file beside it the
  least with which two files can have one relation (`CutRelations`, in
  `store_writers`). Three transactions meet in `store_writers`, four in the
  others; the runs differ in who they are, because all five sorts at once are too
  many. Two files are enough for a rebuild to drop several tables, as a workbook
  does for a refresh.
* `SqlSubgraph`, `RagSubgraph`: `MaxChanges = 2`, a change between each pair of
  store reads of a run.
* `JoinDiscovery`: three tables with one column each, at most two of them in a
  packet (`MaxResources`, so that the limit is met), answers of two candidates,
  batches of two events. A pair can be proposed twice and reversed, a batch can
  take joins away first and do something else after. Tables are interchangeable
  (`SYMMETRY`). The initial state has any joins an earlier discovery may have
  left.
* `Deployment`: any database that the seed can have left, two starts, two
  migration versions with two contents, one question, two secrets and two
  emails, two edits (`MaxEdits`). Two starts
  overlap when one is killed and lingers; a file may be added before or after
  another, or edited.
* `MainGraph`: two workers, two users, one scope, one change of the directory,
  `Ttl = ResolveTime = 1`, `MaxClock = 2`. An entry can be stored, overwritten
  by an older resolution and expire.

`CHECK_DEADLOCK FALSE` is set where the environment is bounded and the system
may therefore come to rest (`WatchdogSync`, `StoreTransactions`, `JoinDiscovery`,
`Deployment`).

## 6. Findings

1. **A moved and then deleted table stays visible** (`deleted_table`).
   `delete_structured` finds tables by the path they were imported from, the
   rename changes only the source's path. `OrphansComeFromMoves` shows that there
   is no other way to such a table in the watchdog.

Also noticed, and stated in the properties or the modules rather than as findings:

* An ambiguous queue hands out its marker at every drain until the process restarts.
* The tool graph needs `3 * (n + 1) + 2` nodes for `n` executable steps, 26 for
  the seven that `MAX_RUNTIME_STEPS = 8` admits, while a recursion limit is
  configured nowhere and LangGraph's default has long been 25 (the requirements
  pin no version).
* `validate_read_only_sql` discards the selected resources (`validation.py:52`),
  although `ARCHITECTURE.md:132` has "SQL contains selected permission data
  only"; whose rows a query returns rests on the row-level policies.
* The watchdog stores the constant `"watchdog-refresh"` as content hash
  (`runtime_store.py:444`), and a rebuild the hash of a first read of the file,
  its rows coming from a second. Nothing reads the hash back from the database
  today; whoever implements `list_active_records` for reconciliation will.
* A workbook with long names can make its own import fail with `DuplicateTable`,
  two of its sheets having one relation, with no other writer at work; so can
  the refresh of a file whose relation is another's.
* The refresh of a workbook and a request can deadlock, with no rebuild at work:
  the request's schema read or query, or the refresh, is then aborted.
* The seed is dumped with `--no-privileges`: what `restricted_runtime_reader`, to
  which queries switch, was granted by migrations and imports is not in it, and
  no start applies a recorded migration again.
* Store reads catch only `RuntimeError`: a driver error leaves the sql graph as
  an exception, although `ARCHITECTURE.md:124` sends every failed node to
  `emit_sql_failure`.
* `rebuild_dataset.py:36` exits with the rebuild's code: it is 0 when the
  discovery that follows failed, with all joins gone.
* A question the pipe gave up on goes on in the API for nobody (`abandoned` in
  `Deployment`): the client's timeout cancels nothing.
* Once the email of a demo account was changed, in `.env` or in Open WebUI, the
  bootstrap's `INSERT` clashes with the fixed id at every later start, and the
  pipe keeps its old valves (`BootstrapClashes`).
* A migration file of a lower version than the recorded ones is applied when it
  is found; the order of application is that of the starts, not of the versions.

## 7. What is proved

Every theorem is of the form `Spec => []P` (or `Spec => [][A]_vars`), or states the
refinement of an abstract specification. It follows from an inductive invariant
`IInv` that the module states in named parts, and that is proved from `InitIInv`,
one lemma per action or group of actions, and `NextIInv`. The `IInv`s were also
checked by TLC on the instances of section 4. The type invariants of the store and of the watchdog are theorems
alone: no run repeats them.

**The executor.** `SqlRagToolProofs` proves, for every set of plans, every set of ids and every
step limit:

| Theorem | Of `Spec` |
| --- | --- |
| `Invariance` | `[]IInv`, the inductive invariant |
| `TypeCorrect` | `[]TypeOK` |
| `PlanOrder` | `[]RunsInPlanOrder` |
| `FailureStops` | `[]FirstFailureStops` |
| `EarnedSuccess` | `[]SuccessIsEarned` |
| `BoundedSupersteps` | `[]SuperstepsBounded` |

They rest on `MaxRuntimeStepsAssumption` (a positive step limit),
`PlansAssumption` (plans have the form of `RawPlan`, which admits every plan the
planner's JSON can be) and `NoneAssumption` (None is no plan, step or result).

None of the properties is inductive. The executor does not walk the plan: at
each visit it searches for steps that have not run and whose dependencies have.
That this search is a walk rests on the plan's validity. Lemma `ValidPlanShape`:
the final step depends on all executable ones and dependencies point back, so it
is the last, and the others are the list before it. Lemmas `NextStepReady` and
`NoStepLeft`: with the first `k` steps completed, step `k + 1` is ready and the
first to be so, and with all completed none is. `IInv` adds to the properties what
makes a step preserve them: `ResultsInv`, the results are those of the first
steps of a valid plan, all passed but perhaps the last; `ProgressInv`,
`completed` and `depContext` are the ids of the successful results; `NodeInv`,
what each node may rely on when it runs, for instance that a step is at
`perform_rag_sql` only as the successor of passed ones, and that a refused step
reaches the normaliser together with a failure bundle; `SuccessInv`, a success
is the whole walk; `SuperstepsInv`, the node count is a function of node and
number of results. There is one lemma per action (`AgentIInv` … `AdapterIInv`),
with a step per conjunct, and `StutterIInv`.

The second part of the module goes on from there, under the same assumptions:

| Theorem | Of `Spec` |
| --- | --- |
| `CauseInvariance` | `[]CauseInv`, a second layer on top of `IInv` |
| `SatisfiedDependencies` | `[]DependenciesSatisfied` |
| `StopsOnlyForACause` | `[]StopsForACause` |
| `HonestFailure` | `[]FailureReportedAsIs` |
| `Implementation` | `ImplementsPlanExecution` |

What the first layer does not know is which obligations are covered when. A rag
result's are at once, an sql result's only at the executor's next visit, which
looks at its output; `CoverageInv` says that `covered` is what these results
earned, neither less nor more. Since each obligation is assigned to one step,
the last visit of a run without failure finds all of them covered (lemma
`SchedulingVisit`), so the branch "completed without covering every obligation"
is dead, as `NextStepReady` makes "could not make progress", and lemma
`OnlyBlankRefused` leaves a blank goal as the one thing `perform_rag_sql` can
refuse. `CurrentInv` says where a step may be current, and that a stopped run is
visited only after a step that failed; `ReportInv`, that a failure bundle has the
status of the step that brought it about.

`Implementation` maps every action to a step of `PlanExecution` or to none.
`WalkView` reads the abstract state off the walk: started are the first `k`
steps and the current one, finished those whose obligations are covered. The
planner's step is `Accept` for a valid plan (lemma `GraphOfValidPlan`), the
normaliser's finishes a rag step, a scheduling visit finishes an sql step and
starts step `k + 1`, the visits and nodes that refuse are `Stop`, and the adapter
is `Deliver`. `PlanExecution` is a safety specification, so no fairness is
involved.

**The migrations.** `DeploymentProofs` proves, for any number of starts and any
release files:

| Theorem | Of `MigrationSpec` |
| --- | --- |
| `MigrationInvariance` | `[]IInv`, the inductive invariant |
| `WholeSchema` | `SchemaIsWhole` |
| `MigratedServing` | `[]ServingMeansMigrated` |
| `MigrationsImplement` | `ImplementsSchemaUpgrades` |

They rest on `VersionsAssumption` (versions are numbers, hence ordered) and
`MissingAssumption`, and start from any record that a seed can have left. Neither
property follows from the step alone: a commit overwrites what is
recorded with what the session read long before. `PendingInv` says that what a
session has applied is recorded nowhere and applied by no other, because the
primary key makes them wait; `ImagesInv` that the file sets of images are
nested, because releases only gain files, and `RecordedInv` that what is recorded
is nested with them; `LoopInv` that a loop has left nothing
out. So (lemma `CommitKeepsWhole`) a session that commits anything new has an
image with all that is recorded and, by `LoopInv`, recorded as it is there: the
commit makes the record equal to that image. Which record there was at first
matters only to `RecordedInv`.

`SchemaUpgrades` says what the two properties leave open, how the record may change:
an edited file recorded over the old one would violate neither. In the mapping, the
schema is what is recorded, and the images are those of the sessions started.
A start is `Build` (lemma `StartBuilds`), a commit `Upgrade` to the session's image
(`CommitUpgrades`: by `PendingInv` and `LoopInv` the image has all that was
recorded, as it was), and all else, which leaves the record alone, is at most an
API that stops (`QuietStep`).

**The deployment.** The module extends the proof to `Deployment`, for any
number of edits, secrets, emails and questions:

| Theorem | Of `Spec` |
| --- | --- |
| `DeploymentInvariance` | `[](IInv /\ DeploymentInv)` |
| `DeployedSchema` | `SchemaIsWhole` |
| `DeployedServing` | `[]ServingMeansMigrated` |
| `NoRefusalAfterBootstrap` | `[]RefusedOnlyBeforeBootstrap` |
| `NoClashWithoutRenaming` | `[]ClashesNeedRenaming` |
| `DeploymentImplements` | `ImplementsSchemaUpgrades` |

Lemma `StepsOfMigrations`: every step of the deployment is one of `Migrations` or
leaves its variables alone, so `IInv` carries over. `SecretInv` and `EmailInv`
say what the containers of one start share: after a bootstrap the valves hold
the containers' secret, and so does every question sent since; while no email
was changed, `.env`, the containers and the account agree. They rest on
`FirstAssumption` and `NoneAssumption` besides.

**The sql child.** `SqlSubgraphProofs`, for any resources, columns, users and states
of the dataset, and any number of changes to it:

| Theorem | Of `Spec` |
| --- | --- |
| `SqlSubgraphInvariance` | `[]IInv` |
| `SqlContract` | `[]KeepsContract` |
| `SelectionWithinSchema` | `[]SelectionFitsSchema` |
| `BoundedGeneration` | `[]GenerationBounded` |

Each field of the workflow's state is written by nodes that no route leads back to,
but for the generation of a query. The parts of `IInv` say of each field in which
form its last writer left it, given the node that runs next; lemma
`RouteKeepsIInv` does the routing of all nodes at once. The selection was checked
against the schema the run has read, so that nothing need be known of what the
dataset became. The loop back to the generation is counted by
`CallsInv`, which ties the number of generations to what sent the run back.

**The rag child.** `RagSubgraphProofs`, for any paths, scopes and users:

| Theorem | Of `Spec` |
| --- | --- |
| `RagSubgraphInvariance` | `[]IInv` |
| `RagContract` | `[]KeepsContract` |
| `CurrentEvidence` | `[]EvidenceIsCurrent` |

Permission is looked at in one state of the store and text is read in another.
`EntryInv` says why that is safe: an entry id is given out once, and a document
that keeps its entry keeps its scope, renamed or not (lemma
`ChangesKeepEntries`). A replaced document is not found under its old entry.

**Permissions and the main graph.** `MainGraphProofs`, for any number of workers,
users, groups, scopes and changes of the directory:

| Theorem | Of `Spec` |
| --- | --- |
| `MainGraphInvariance` | `[]IInv` |
| `Revocation` | `[]RevocationTakesEffect` |
| `CacheOwnership` | `[]CacheKeepsOwners` |
| `EarnedAnswers` | `[]AnswersAreEarned` |
| `ShownCitations` | `[]CitationsMeantOrShadowed` |

The cache may hold an old resolution stored over a new one, so no invariant ties an
entry to the directory as it is. What works is a bound that only grows
(`LastTimesGrow`): the last time the user had the scope or was in the groups. An
entry's schema was read at or before that time for each scope in it (`Recent`,
in `CacheInv`, `FoundInv`, `ResolvingInv` and `DecisionInv`), at most
`ResolveTime` before it was stored and so at most `Ttl + ResolveTime` before it
is used. For the citations, `InOrder` says that they stand in the order of their
steps; lemmas `RecursionExists` and `FlattenSeqFlattens` establish what the
library's concatenation of the steps' lists returns, by induction stated with
sets (`NatSetInduction`).

**Join discovery.** `JoinDiscoveryProofs`, for any tables with any columns, any
number of runs, refreshes, rebuilds and batches:

| Theorem | Of `Spec` |
| --- | --- |
| `JoinDiscoveryInvariance` | `[]IInv` |
| `JoinEvidence` | `[]JoinsRestOnTheirEvidence` |
| `OneDiscovery` | `[]OneDiscoveryUnlessOverlapped` |
| `ReportsAreHonest` | `[]HonestReports` |
| `AnnouncedLoss` | `[]LossIsAnnounced` |

A run that has joins in the store has committed (`JoinsInv`), so neither what it was
shown nor what it approved changes any more, and its report, the last thing it does
(`ReportInv`), tells of them unless it was killed or took its commit for lost.
`RowOfApproval`: the foreign keys,
checked at the commit, hold for an approved pair only if the tables are still of
the generations of the packet; `TakenAway`: a table's joins go in the step that
replaces it. `WritingInv`: a run that writes alone has every join there is in its
snapshot, which is why only an overlap leaves joins of two runs.

**The store's transactions.** `StoreTransactionsProofs`, for any files with any
sheets, any keys that share relations or not, and any number of transactions of
each kind, interleaved statement by statement, with failures and crashes:

| Theorem | Of `Spec` |
| --- | --- |
| `StoreInvariance` | `[]IInv` |
| `StoreTypeCorrect` | `[]TypeOK` |
| `ResourcesKeepTables` | `[]RowsHaveTables` |
| `OrphansExplained` | `[]OrphansNeedOverlap` |
| `StableReads` | `[]ReadsAreStable` |
| `StoreLayers` | `[](IInv /\ DInv)` |
| `JoinsKeepResources` | `[]JoinsReferToRows` |
| `DeadlocksExplained` | `[]DeadlocksNeedSeveralDrops` |

The properties speak of what is committed; a commit overwrites it with what the
transaction has done long before. So `IInv` is about programs, what they have done
and what is committed: `DatasetOK` (rows and tables belong together, but for what
overlaps excuse, and one key is one row's), `ProgramInv` (what a
program may still hold, and that only writers delete), `WellFormed` (inserts come last, each
followed by its `CREATE TABLE`), `CreationInv` (an inserted row has
its table or the next statement makes it), `DroppedInv` (a table still to be
dropped is of a file still to be cleared, and so is each row that has it, unless
two files contend for it), `DropInv` (the row of a dropped table is
deleted or about to be, with the same exception), `SelectedInv` (a row that goes without its table was
committed while others were at work), `KeyInv` (the unique resource key), `LockInv` and
`ReadInv` (a shared lock keeps the relation), and `ExclusiveInv` (what two
transactions cannot have locked together), the one part about pairs. The
exception is one formula, `Excused`. The programs of rebuilds, refreshes, reads and discoveries
are lists made from sheets, keys and sets of rows, of any length; their form
(`MayStart`) is proved with `NatSetInduction` as above (lemma `FlattenIn`).

`DInv` is a second layer, inductive given `IInv`, for the joins and the deadlocks.
`KindInv`: which statements a transaction of each sort has left and has done;
`DroppingInv`: with a table still to drop, a transaction has deleted no row, a
refresh no join, and a refresh drops only tables of its own file;
`RemovalInv`: rows are deleted that are there, and of each the joins after the row;
`ApartInv`: no two delete the same row, nor one a row that the other has approved
a join of; `OwnersInv`: whoever wrote a committed row has ended.
`JoinsReferToRows` is inductive with these: a commit that deletes a row
has gone through the joins that its own statement found, `RemovalInv` says that
there are no others, and the foreign key's lock keeps a join from being approved
meanwhile.

A deadlock is reduced to a circle, a set in which everyone waits for a member and
is waited for by one: lemma `CirclesExist` takes for the circle of `a` those that
`a` reaches and that reach `a`. A reader or a query holds nothing but the tables it
has read, against a drop (`ReadersHoldTables`), so the one that waits for it in its
circle is a writer with a table to drop; and by `DroppingInv` such a writer holds,
if anything, tables it has dropped or, a rebuild, joins it has deleted
(`DropperHolds`). A refresh among them has dropped one table of its file and
waits for another, so its file has two (`CirclesNeedDrops`).

**The watchdog.** `WatchdogSyncProofs`, for any files and contents, any number of
changes, batches, restarts and rebuilds:

| Theorem | Of `Spec` |
| --- | --- |
| `SyncInvariance` | `[]IInv` |
| `SyncTypeCorrect` | `[]TypeOK` |
| `ExplainedDivergence` | `[]DivergenceExplained` |
| `MovedOrphans` | `[]OrphansComeFromMoves` |
| `KeptFailure` | `ReportKeepsFailure` |

`DivergenceExplained` is nearly inductive; what it lacks is what the events still to
be applied say. `QueueOK`: one item per path; `ItemsOK`: items have the form that
normalisation leaves, and the paths of a move are on record as moved; `EventsOK`:
for a path in no move, a deletion as the last event that waits is true, which is
what makes coalescing safe; `ReadOK`: content parsed and not stored yet is the
file's unless an event about it waits (a change between the two steps of a
refresh enqueues one). On the dataset: `StoreOK` (ids are used
once, and no table hangs on a source yet to come), `ScanOK` (what a rebuild has
still to read and what it has parsed) and `OriginOK` (a table is away
from its source only after a move). There is one lemma per write method of the
store (`RefreshDocumentKeeps`, `RenameKeeps`, `ReplaceKeeps`, ...) and one per
action. `ItemDoneIInv` is shared by all branches that end an item.
`ReportKeepsFailure` is an action property and follows from the same invariant,
branch by branch.

**Only model-checked**, being out of the prover's reach: `EveryTransactionEnds` and
`StartsEnd`, liveness under fairness.

## 8. What is not modelled

* **Audit trace** (`services/audit_trace.py`): written and never read back.
* **LLM provider**: network calls; its answers and failures are choices in the
  modules that call it.
* **The migrations' SQL**: what the files do to the schema. That they run again
  without harm (`IF NOT EXISTS`) matters only to a file that is edited.
* **Open WebUI**: the visibility of models, access grants, and how the pipe takes
  question, history and identity from a chat. The tool asks as the pipe does and
  is not modelled beside it.
* **Reconciliation** (`services/watchdog_reconciliation.py`): it compares files
  with the records of `list_active_records`, which is only a `Protocol`; no store
  of the repository implements it and no script calls it. What it would say of
  the runtime dataset cannot be read from the code.
* **Row-level security** (migrations 003 and 004, and the policy of each runtime
  table): the policies read `app.permission_*`, settings that a query the checks
  accept can change, and the catalogue tables are granted to the reader too. Which rows
  a query returns depends on its text, which the models do not have; they let a
  query name any relations, and say nothing of whose rows it gets.
* **Smoke tests and demo data**: they change nothing.
* In modelled components: prompt and answer texts, chunking, type inference,
  column bookkeeping, counters, dry runs, logging, content hashes.
* In `StoreTransactions`: the rows of sources and entries with their locks, and
  two sheets of one workbook whose keys are the same (that import fails on the
  unique key, as it does when two files share a key).
* What a restored dump lacks (privileges).
* LangGraph's recursion limit is not enforced in `SqlRagTool`: the model runs
  every plan to its end and counts.

## 9. Plan

The order followed the weight of the behaviour: A the planner-driven executor
(with its proofs), B the watchdog and store, C the store's transactions, D the
permission cache, E the child workflows, F the main graph, G join discovery, H
the migrations and the deployment around them (with their proofs). All have
their modules, runs and properties. Next:

1. *Models.* Two watchdog batches in succession with a full rebuild between them;
   an abstract specification of the dataset (a served version per path) that
   `WatchdogSync` implements for unmoved paths, and one of permission decisions
   for `PermissionSchema`.
2. *Proofs.* With the models of item 1, the refinements they state.
