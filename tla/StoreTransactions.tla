-------------------------- MODULE StoreTransactions --------------------------
(***************************************************************************)
(* The transactions of PostgresRuntimeStore (app/db/runtime_store.py) that *)
(* touch structured resources, statement by statement: the rebuild, the    *)
(* watchdog's refresh and deletion of the tables of one file, the read of  *)
(* the schema, the execution of a query and the replacement of the         *)
(* approved joins.  Several processes run them at once, in PostgreSQL at   *)
(* READ COMMITTED: the rows of structured_resources and the runtime tables *)
(* they name are two things, each with its own locks.  A resource has a    *)
(* key, a file it was imported from, and a relation: PostgreSQL cuts the   *)
(* name derived from the key to 63 bytes, so that two keys may have one    *)
(* relation.  The rows of sources and catalog entries are in DatasetStore, *)
(* which has the same methods as one step each.                            *)
(***************************************************************************)
EXTENDS Naturals, Sequences, FiniteSets, SequencesExt

CONSTANTS
  Sheets,      \* the tables that files may hold, in the order of the scan
  KeyOrder,    \* their resource keys, in the order of ORDER BY resource_key
  RelationOf,  \* RelationOf[k]: the relation that PostgreSQL calls by k's name
  Rebuilders, Refreshers, Readers, Queries, Discoverers,  \* one transaction each
  FileOf,      \* the file a refresher is about
  SchemaOf,    \* the reader whose schema a query or a discoverer works with
  NoTable

Actors == Rebuilders \cup Refreshers \cup Readers \cup Queries \cup Discoverers

Keys == {s.key : s \in ToSet(Sheets)}
Files == {s.file : s \in ToSet(Sheets)}
Relations == {RelationOf[k] : k \in Keys}

\* A csv file has one sheet, a workbook several.
ASSUME SheetsAssumption ==
  /\ Sheets \in Seq([file : Files, key : Keys])
  /\ KeyOrder \in Seq(Keys) /\ ToSet(KeyOrder) = Keys
  /\ DOMAIN RelationOf = Keys
  /\ NoTable \notin {<<a, k>> : a \in Actors \cup {"loaded"}, k \in Keys}

\* A transaction is that of one method, and none wrote what is there at the start.
ASSUME ActorsAssumption ==
  /\ Rebuilders \cap (Refreshers \cup Readers \cup Queries \cup Discoverers) = {}
  /\ Refreshers \cap (Readers \cup Queries \cup Discoverers) = {}
  /\ Discoverers \cap (Readers \cup Queries) = {}
  /\ "loaded" \notin Actors
  /\ FileOf \in [Refreshers -> Files]
  /\ SchemaOf \in [Queries \cup Discoverers -> Readers]

VARIABLES
  rows,       \* committed structured_resources: [id, key, file]
  tables,     \* committed relations: the id each was created for
  joins,      \* committed approved joins: the ids of the resources they relate
  status, program,  \* of each transaction; the statements it still has to run
  tx,         \* what it has done and not committed, and with it its locks
  schema,     \* the rows a reader has selected
  seen,       \* the relations a reader or a query has read
  overlapped  \* history: relations committed while another writer was at work

vars == <<rows, tables, joins, status, program, tx, schema, seen, overlapped>>

Errors == {"unique_violation", "duplicate_table", "undefined_table",
           "foreign_key_violation", "deadlock_detected", "crashed"}

Clean == [gone |-> {}, added |-> {}, tabs |-> << >>, shared |-> {},
          wiped |-> {}, approved |-> {}]

RowOf(a, sheet) == [id |-> <<a, sheet.key>>, key |-> sheet.key, file |-> sheet.file]

RelationFor(r) == RelationOf[r.key]

Ids(rs) == {r.id : r \in rs}

\* A join relates columns of two resources or of one.
JoinsOver(ids) == {j \in SUBSET ids : Cardinality(j) \in 1..2}

\* What is loaded at the start came from one scan: no two of its tables have
\* one relation.
Init ==
  /\ \E loaded \in SUBSET ToSet(Sheets) :
       /\ \A s, t \in loaded : RelationFor(s) = RelationFor(t) => s = t
       /\ rows = {RowOf("loaded", s) : s \in loaded}
       /\ tables = [k \in Relations |->
                      IF \E s \in loaded : RelationFor(s) = k
                      THEN (CHOOSE r \in rows : RelationFor(r) = k).id ELSE NoTable]
  /\ joins \in {{j} : j \in JoinsOver(Ids(rows))} \cup {{}}
  /\ status = [a \in Actors |-> "idle"]
  /\ program = [a \in Actors |-> << >>]
  /\ tx = [a \in Actors |-> Clean]
  /\ schema = [a \in Readers |-> {}]
  /\ seen = [a \in Readers \cup Queries |-> << >>]
  /\ overlapped = {}

-----------------------------------------------------------------------------
(* The programs *)

Do(op, arg) == <<[op |-> op, arg |-> arg]>>

MutantCreation(sheet) == Do("insert", sheet)

\* _insert_structured_resource: the row, then the table.
Creation(sheet) == Do("insert", sheet) \o Do("create", sheet)

\* The sheets imported, file by file and each file's in order.
Import(sheets) ==
  FlattenSeq([i \in DOMAIN Sheets |->
                IF Sheets[i] \in sheets THEN Creation(Sheets[i]) ELSE << >>])

\* One statement for each argument.
Each(op, args) == [i \in DOMAIN args |-> [op |-> op, arg |-> args[i]]]

\* DROP TABLE IF EXISTS for rows selected in no particular order.
Drops(order) == Each("drop", order)

RelationsOf(rs) == {RelationFor(r) : r \in rs}

SheetsOf(f) == {s \in ToSet(Sheets) : s.file = f}

RowsFrom(f) == {r \in rows : r.file = f}

MutantClearDataset(order) == Do("unjoin", {}) \o Do("clear", Files)

MutantClearFirst(order) == Do("unjoin", {}) \o Do("clear", Files) \o Drops(order)

\* _clear_dataset: the relations to drop are those of the rows as they are when
\* it starts; the rows deleted are those there later.
ClearDataset(order) == Do("unjoin", {}) \o Drops(order) \o Do("clear", Files)

MutantDeleteStructured(f, order) == Drops(SetToSeq(RelationsOf(rows))) \o Do("clear", {f})

\* delete_structured, for the rows imported from the file.
DeleteStructured(f, order) == Drops(order) \o Do("clear", {f})

Begin(a, statements) ==
  /\ status[a] = "idle"
  /\ status' = [status EXCEPT ![a] = "running"]
  /\ program' = [program EXCEPT ![a] = statements]
  /\ UNCHANGED <<rows, tables, joins, tx, seen, overlapped>>

\* replace_dataset with the files of some earlier scan.
ReplaceDataset == \E a \in Rebuilders, scan \in SUBSET ToSet(Sheets) :
  \E order \in SetToSeqs(RelationsOf(rows)) :
    /\ Begin(a, ClearDataset(order) \o Import(scan))
    /\ UNCHANGED schema

\* refresh_structured with what the file holds now, which may be less than it
\* could; with nothing, it is delete_structured alone.
RefreshStructured == \E a \in Refreshers : \E held \in SUBSET SheetsOf(FileOf[a]) :
  \E order \in SetToSeqs(RelationsOf(RowsFrom(FileOf[a]))) :
    /\ Begin(a, DeleteStructured(FileOf[a], order) \o Import(held))
    /\ UNCHANGED schema

\* list_structured_resources: the rows, then five rows of each table.
ListStructuredResources == \E a \in Readers :
  /\ Begin(a, FlattenSeq([i \in DOMAIN KeyOrder |->
                IF \E r \in rows : r.key = KeyOrder[i]
                THEN Do("read", RelationOf[KeyOrder[i]]) ELSE << >>]))
  /\ schema' = [schema EXCEPT ![a] = rows]

\* execute_read_only_sql: a query names relations of the schema the request
\* read, in any order.
ExecuteReadOnlySql == \E a \in Queries :
  /\ status[SchemaOf[a]] = "committed"
  /\ \E names \in SUBSET RelationsOf(schema[SchemaOf[a]]) \ {{}} :
       \E order \in SetToSeqs(names) : Begin(a, Each("read", order))
  /\ UNCHANGED schema

\* replace_approved_joins, with a join of resources read before or none.
ReplaceApprovedJoins == \E a \in Discoverers :
  LET read == schema[SchemaOf[a]] IN
  /\ status[SchemaOf[a]] = "committed" /\ read # {}
  /\ \/ Begin(a, Do("unjoin", {}))
     \/ \E j \in JoinsOver(Ids(read)) : Begin(a, Do("unjoin", {}) \o Do("join", j))
  /\ UNCHANGED schema

-----------------------------------------------------------------------------
(* What PostgreSQL makes of a statement *)

Running == {a \in Actors : status[a] = "running"}

Statement(a) == Head(program[a])

\* Committed relations b has dropped: locked ACCESS EXCLUSIVE until b ends.
Dropped(b) == {k \in DOMAIN tx[b].tabs : tables[k] # NoTable}

Created(b) == {k \in DOMAIN tx[b].tabs : tx[b].tabs[k] # NoTable}

\* CREATE TABLE waits for an uncommitted relation of the name, and fails at
\* once for a committed one, dropped by another or not.
Holds(b, statement) ==
  LET x == statement.arg IN
  CASE statement.op = "drop"   -> tables[x] # NoTable /\ x \in Dropped(b) \cup tx[b].shared
    [] statement.op = "read"   -> x \in Dropped(b)
    [] statement.op = "remove" -> x \in tx[b].gone \cup UNION tx[b].approved
    [] statement.op = "cascade" -> x \in UNION tx[b].wiped
    [] statement.op = "insert" -> \/ \E r \in tx[b].added : r.key = x.key
                                  \/ \E r \in rows : r.key = x.key /\ r.id \in tx[b].gone
    [] statement.op = "create" -> /\ RelationFor(x) \in Created(b)
                                  /\ tables[RelationFor(x)] = NoTable
    [] statement.op = "unlink" -> x \in tx[b].wiped
    [] statement.op = "join"   -> x \cap tx[b].gone # {}
    [] OTHER -> FALSE

\* Whom a waits for.
Blockers(a) ==
  IF a \in Running /\ program[a] # << >>
  THEN {b \in Running \ {a} : Holds(b, Statement(a))} ELSE {}

MutantReferencesExist(join) == TRUE

\* The foreign keys of approved_join_relationships.
ReferencesExist(join) == join \subseteq Ids(rows)

\* The table a transaction finds under a name.
TableSeen(a, k) == IF k \in DOMAIN tx[a].tabs THEN tx[a].tabs[k] ELSE tables[k]

KeyTaken(a, k) ==
  (\E r \in rows : r.key = k /\ r.id \notin tx[a].gone) \/ \E r \in tx[a].added : r.key = k

Fault(a) ==
  LET x == Statement(a).arg IN
  CASE Statement(a).op = "insert" /\ KeyTaken(a, x.key) -> "unique_violation"
    [] Statement(a).op = "create" /\ TableSeen(a, RelationFor(x)) # NoTable -> "duplicate_table"
    [] Statement(a).op = "read" /\ tables[x] = NoTable -> "undefined_table"
    [] Statement(a).op = "join" /\ ~ReferencesExist(x) -> "foreign_key_violation"
    [] OTHER -> "none"

\* The locks of a reading transaction last to its end.
MutantReadLocks(a, k) == {}

ReadLocks(a, k) == tx[a].shared \cup {k}

With(f, k, value) == [x \in DOMAIN f \cup {k} |-> IF x = k THEN value ELSE f[x]]

Effect(a) ==
  LET t == tx[a]
      x == Statement(a).arg
  IN
  CASE Statement(a).op = "drop" /\ tables[x] # NoTable -> [t EXCEPT !.tabs = With(@, x, NoTable)]
    [] Statement(a).op = "remove" /\ x \in Ids(rows) -> [t EXCEPT !.gone = @ \cup {x}]
    [] Statement(a).op = "cascade" -> [t EXCEPT !.wiped = @ \cup {j \in joins : x \in j}]
    [] Statement(a).op = "insert" -> [t EXCEPT !.added = @ \cup {RowOf(a, x)}]
    [] Statement(a).op = "create" -> [t EXCEPT !.tabs = With(@, RelationFor(x), <<a, x.key>>)]
    [] Statement(a).op = "read"   -> [t EXCEPT !.shared = ReadLocks(a, x)]
    [] Statement(a).op = "unlink" /\ x \in joins -> [t EXCEPT !.wiped = @ \cup {x}]
    [] Statement(a).op = "join"   -> [t EXCEPT !.approved = {x}]
    [] OTHER -> t

ForEach(op, args) == Each(op, SetToSeq(args))

\* The start of a DELETE: it goes through what its snapshot has, whatever it
\* waits for meanwhile, and then through the joins that refer to deleted rows.
Deletion(statement) ==
  CASE statement.op = "unjoin" -> ForEach("unlink", joins)
    [] statement.op = "clear" ->
         LET ids == Ids({r \in rows : r.file \in statement.arg})
         IN ForEach("remove", ids) \o ForEach("cascade", ids)
    [] OTHER -> << >>

Execute(a) ==
  /\ a \in Running /\ program[a] # << >>
  /\ Blockers(a) = {} /\ Fault(a) = "none"
  /\ tx' = [tx EXCEPT ![a] = Effect(a)]
  /\ program' = [program EXCEPT ![a] = Deletion(Statement(a)) \o Tail(@)]
  /\ seen' = IF Statement(a).op = "read"
             THEN [seen EXCEPT ![a] = With(@, Statement(a).arg, tables[Statement(a).arg])]
             ELSE seen
  /\ UNCHANGED <<rows, tables, joins, status, schema, overlapped>>

WriterBeside(a) == \E b \in (Rebuilders \cup Refreshers) \ {a} : status[b] = "running"

Commit(a) ==
  /\ a \in Running /\ program[a] = << >>
  /\ rows' = {r \in rows : r.id \notin tx[a].gone} \cup tx[a].added
  /\ tables' = [k \in Relations |-> IF k \in DOMAIN tx[a].tabs THEN tx[a].tabs[k] ELSE tables[k]]
  /\ joins' = (joins \ tx[a].wiped) \cup tx[a].approved
  /\ overlapped' = overlapped \cup
                   IF WriterBeside(a) THEN RelationsOf(tx[a].added) ELSE {}
  /\ status' = [status EXCEPT ![a] = "committed"]
  /\ tx' = [tx EXCEPT ![a] = Clean]
  /\ UNCHANGED <<program, schema, seen>>

RollBack(a, error) ==
  /\ status' = [status EXCEPT ![a] = error]
  /\ program' = [program EXCEPT ![a] = << >>]
  /\ tx' = [tx EXCEPT ![a] = Clean]
  /\ UNCHANGED <<rows, tables, joins, schema, seen, overlapped>>

Fail(a) ==
  /\ a \in Running /\ program[a] # << >>
  /\ Blockers(a) = {} /\ Fault(a) # "none"
  /\ RollBack(a, Fault(a))

MutantDeadlocked(a) == FALSE

\* a waits in a circle: whatever set has the ones it waits for, and with each
\* member the ones that member waits for, has a.
Deadlocked(a) ==
  /\ Blockers(a) # {}
  /\ \A S \in SUBSET Running :
       Blockers(a) \subseteq S /\ (\A b \in S : Blockers(b) \subseteq S) => a \in S

DetectDeadlock(a) == Deadlocked(a) /\ RollBack(a, "deadlock_detected")

\* The process ends and with it its connection.
Crash(a) == a \in Running /\ RollBack(a, "crashed")

Proceed(a) == Execute(a) \/ Commit(a) \/ Fail(a) \/ DetectDeadlock(a)

Next ==
  \/ ReplaceDataset \/ RefreshStructured
  \/ ListStructuredResources \/ ExecuteReadOnlySql \/ ReplaceApprovedJoins
  \/ \E a \in Actors : Execute(a)
  \/ \E a \in Actors : Commit(a)
  \/ \E a \in Actors : Fail(a)
  \/ \E a \in Actors : DetectDeadlock(a)
  \/ \E a \in Actors : Crash(a)

Spec == Init /\ [][Next]_vars

\* PostgreSQL goes on with a transaction that is not blocked, and ends a
\* deadlock after deadlock_timeout.
FairSpec == Spec /\ \A a \in Actors : WF_vars(Proceed(a))

-----------------------------------------------------------------------------
(* Properties *)

\* Every variable holds a value of its kind.
TypeOK ==
  /\ \A r \in rows : r.key \in Keys /\ r.file \in Files
  /\ tables \in [Relations -> {<<a, k>> : a \in Actors \cup {"loaded"}, k \in Keys} \cup {NoTable}]
  /\ status \in [Actors -> {"idle", "running", "committed"} \cup Errors]
  /\ \A j \in joins : Cardinality(j) \in 1..2
  /\ overlapped \subseteq Relations

\* Two files have tables of one relation.
Contested(k) ==
  \E s, t \in ToSet(Sheets) : s.file # t.file /\ RelationFor(s) = k /\ RelationFor(t) = k

\* A structured resource has its own runtime table, the one created with its
\* row.  No interleaving, failure or crash of the writers leaves it without a
\* table or with another's, unless two files contend for the relation and a
\* table of that name was committed while another writer was at work: a
\* deletion that selected the name then drops the other file's table.
RowsHaveTables ==
  \A r \in rows :
    tables[RelationFor(r)] = r.id \/ RelationFor(r) \in {k \in overlapped : Contested(k)}

Orphans == {k \in Relations : tables[k] # NoTable /\ \A r \in rows : r.id # tables[k]}

\* The next statement of a fails with DuplicateTable.
MeetsTable(a) ==
  program[a] # << >> /\ Statement(a).op = "create" /\ Fault(a) = "duplicate_table"

\* A runtime table loses its resource only if one of its name was committed
\* while another rebuild, refresh or deletion was at work: too late for the
\* relations that one selected to drop, in time for the rows it deletes.  A
\* table makes an import fail with DuplicateTable only after that, or when two
\* keys have its name.
OrphansNeedOverlap ==
  /\ Orphans \subseteq overlapped
  /\ \A a \in Running : MeetsTable(a) =>
       LET k == RelationFor(Statement(a).arg)
       IN k \in overlapped \/ \E l, m \in Keys : l # m /\ RelationOf[l] = k /\ RelationOf[m] = k

\* An approved join relates resources that are in the dataset, whatever was
\* deleted, rolled back or approved between the two statements of a deletion.
JoinsReferToRows == \A j \in joins : j \subseteq Ids(rows)

SeveralTables(f) == \E s, t \in SheetsOf(f) : RelationFor(s) # RelationFor(t)

\* Where a schema read or a query waits in a circle, a writer in a circle is
\* waiting to drop a table with another one dropped already, the refresh of a
\* workbook or a rebuild, or is a rebuild that has deleted joins.  Requests and
\* the refreshes of files with one table never wait for one another in a circle.
DeadlocksNeedSeveralDrops ==
  \A a \in Running \cap (Readers \cup Queries) : Deadlocked(a) =>
    \E b \in Running :
      /\ Deadlocked(b) /\ Statement(b).op = "drop"
      /\ \/ b \in Rebuilders /\ (Dropped(b) # {} \/ tx[b].wiped # {})
         \/ b \in Refreshers /\ Dropped(b) # {} /\ SeveralTables(FileOf[b])

\* What a query or a schema read has read of a table stays the committed table
\* until it ends: two tables of one query are never of two generations.
ReadsAreStable ==
  \A a \in Running \cap (Readers \cup Queries) :
    \A k \in DOMAIN seen[a] : tables[k] = seen[a][k]

\* Every transaction ends: nothing waits for ever.
EveryTransactionEnds == \A a \in Actors : status[a] = "running" ~> status[a] # "running"

=============================================================================
