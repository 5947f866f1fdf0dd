----------------------------- MODULE SqlSubgraph -----------------------------
(***************************************************************************)
(* The sql child workflow (app/tools/sql_rag/sql/graph.py): one run of its *)
(* nodes over a dataset that rebuilds, refreshes and join discovery        *)
(* replace meanwhile.  The run reads the store three times, each time in   *)
(* another transaction: the schema, the approved joins and the query's     *)
(* tables.  The models propose anything.  Which rows of a table a query is *)
(* given is decided in PostgreSQL, by the policies, and not modelled.      *)
(***************************************************************************)
EXTENDS Naturals, FiniteSets, ChildContract

CONSTANTS
  Keys,         \* resource keys, which stand for their runtime relations too
  ColumnNames,
  ScopeOf,      \* the permission scope in a resource key
  Datasets,     \* the states of the dataset: key -> columns, none if absent
  Ungranted,    \* a relation restricted_runtime_reader has no grant on
  Users,        \* permission schemas: [scopes, keys]
  MaxChanges,   \* bound: changes of the dataset during the run
  NoSql, NoSelection, NoRows, NoResult

Columns == Keys \X ColumnNames  \* column keys stand for these, join keys for pairs

ASSUME DatasetsAssumption == Datasets \subseteq [Keys -> SUBSET ColumnNames]

VARIABLES
  node, status,   \* the next node; sql_status
  user,           \* user_permission_schema
  intake,         \* what require_sql_input makes of the input
  dataset, approved,  \* the store: resources and approved joins
  schema,         \* filtered_sql_schema: its columns
  joins,          \* approved_joins of the schema
  selected,       \* selected_resources
  candidate,      \* candidate_sql
  regenerations,  \* unbound_parameter_regeneration_count
  validated,      \* validated_sql
  rows,           \* execution_result: whether it passes the tool's coverage gate
  result,         \* sql_result
  calls, executed, changes  \* history: calls of the generation model, queries
                  \* handed to the executor; changes of the dataset

inputs == <<user, intake, dataset, approved>>
outcome == <<validated, rows, result>>
vars == <<node, status, user, intake, dataset, approved, schema, joins, selected,
          candidate, regenerations, validated, rows, result, calls, executed, changes>>

ColumnsIn(d) == {x \in Columns : x[2] \in d[x[1]]}

\* An approved join relates two columns, of two resources or of one.
JoinsOver(columns) == {j \in SUBSET columns : Cardinality(j) = 2}

\* What the selected columns make a candidate: empty text, a query with an
\* unbound parameter, one the deterministic check refuses, or a read-only one,
\* over any tables of the dataset and others, perhaps one without a grant.
Candidates ==
  [kind : {"empty", "unbound", "refused"}, from : {{}}]
  \cup [kind : {"query"}, from : SUBSET (Keys \cup {Ungranted})]

\* execution_result, rows or none of them: the output of the run's success.
Rows == {"material", "nulls"}

\* selected_resources
Selections == [tables : SUBSET Keys, sources : SUBSET Columns, columns : SUBSET Columns,
               joins : SUBSET SUBSET Columns]

\* Python's None is no value of these types.
ASSUME NoneAssumption ==
  NoSql \notin Candidates /\ NoSelection \notin Selections /\ NoRows \notin Rows
  /\ NoResult \notin ChildResult

Init ==
  /\ node = "sql_intake" /\ status = "unset"
  /\ user \in Users /\ intake \in {"ok", "missing_permission", "malformed"}
  /\ dataset \in Datasets /\ approved \in {{j} : j \in JoinsOver(ColumnsIn(dataset))} \cup {{}}
  /\ schema = {} /\ joins = {} /\ selected = NoSelection
  /\ candidate = NoSql /\ regenerations = 0 /\ validated = NoSql
  /\ rows = NoRows /\ result = NoResult
  /\ calls = 0 /\ executed = {} /\ changes = 0

\* A rebuild, a refresh or a join discovery commits.
DatasetChanges ==
  /\ changes < MaxChanges /\ changes' = changes + 1
  /\ dataset' \in Datasets
  /\ approved' \in {{j} : j \in JoinsOver(ColumnsIn(dataset'))} \cup {{}}
  /\ UNCHANGED <<node, status, user, intake, schema, joins, selected, candidate,
                 regenerations, outcome, calls, executed>>

Fail(as) == status' = as /\ node' = "emit_sql_failure"

\* A driver error that is not a RuntimeError: DeadlockDetected, UndefinedTable
\* or a lost connection while the store is read.
StoreRaises ==
  /\ node \in {"build_permission_filtered_sql_schema", "load_approved_join_relationships"}
  /\ node' = "raised"
  /\ UNCHANGED <<status, inputs, schema, joins, selected, candidate,
                 regenerations, outcome, calls, executed, changes>>

StoreUnavailable ==
  /\ node \in {"build_permission_filtered_sql_schema", "load_approved_join_relationships"}
  /\ Fail("error")
  /\ UNCHANGED <<inputs, schema, joins, selected, candidate,
                 regenerations, outcome, calls, executed, changes>>

SqlIntake ==
  /\ node = "sql_intake"
  /\ CASE intake = "missing_permission" -> Fail("access_failed")
       [] intake = "malformed" -> Fail("error")
       [] OTHER -> status' = "running" /\ node' = "build_permission_filtered_sql_schema"
  /\ UNCHANGED <<inputs, schema, joins, selected, candidate,
                 regenerations, outcome, calls, executed, changes>>

\* _resource_is_allowed: by its key or by its scope.
ResourceIsAllowed(k) == k \in user.keys \/ ScopeOf[k] \in user.scopes

BuildPermissionFilteredSqlSchema ==
  /\ node = "build_permission_filtered_sql_schema"
  /\ schema' = {x \in ColumnsIn(dataset) : ResourceIsAllowed(x[1])}
  /\ IF schema' = {} THEN Fail("insufficient_evidence")
     ELSE node' = "load_approved_join_relationships" /\ UNCHANGED status
  /\ UNCHANGED <<inputs, joins, selected, candidate,
                 regenerations, outcome, calls, executed, changes>>

\* load_current_approved_joins: both ends are columns of the schema read before.
CurrentJoins(columns, all) == {j \in all : j \subseteq columns}

LoadApprovedJoinRelationships ==
  /\ node = "load_approved_join_relationships"
  /\ joins' = CurrentJoins(schema, approved)
  /\ node' = "read_filtered_sql_schema"
  /\ UNCHANGED <<status, inputs, schema, selected, candidate,
                 regenerations, outcome, calls, executed, changes>>

\* read_filtered_sql_schema, and build_sql_query_intent, whose model may fail
\* or answer without content.
BuildSqlQueryIntent ==
  /\ \/ node = "read_filtered_sql_schema" /\ node' = "build_sql_query_intent" /\ UNCHANGED status
     \/ node = "build_sql_query_intent" /\ Fail("error")
     \/ node = "build_sql_query_intent" /\ UNCHANGED status
        /\ node' = "select_relevant_structured_resources"
  /\ UNCHANGED <<inputs, schema, joins, selected, candidate,
                 regenerations, outcome, calls, executed, changes>>

MutantResolveSelection(tables, columns, picked) ==
  LET sources == columns \cap schema
      matched == {j \in picked \cap joins : j \subseteq schema}
  IN [tables |-> tables \cap {x[1] : x \in schema}, sources |-> sources,
      columns |-> sources \cup UNION matched, joins |-> matched]

\* _resolve_selection: of the proposed keys those in the schema; a column
\* brings its table, a complete join between selected tables the columns it
\* relates.
ResolveSelection(tables, columns, picked) ==
  LET sources == columns \cap schema
      chosen == (tables \cap {x[1] : x \in schema}) \cup {x[1] : x \in sources}
      matched == {j \in picked \cap joins : j \subseteq schema /\ {x[1] : x \in j} \subseteq chosen}
  IN [tables |-> chosen, sources |-> sources, columns |-> sources \cup UNION matched,
      joins |-> matched]

SelectorFails ==
  /\ node = "select_relevant_structured_resources"
  /\ Fail("error") \/ Fail("validation_failed")  \* no model; no such JSON
  /\ UNCHANGED <<inputs, schema, joins, selected, candidate,
                 regenerations, outcome, calls, executed, changes>>

SelectRelevantStructuredResources ==
  /\ node = "select_relevant_structured_resources"
  /\ \E tables \in SUBSET Keys, columns \in SUBSET Columns, picked \in SUBSET (joins \cup approved) :
       LET resolved == ResolveSelection(tables, columns, picked) IN
       IF resolved.sources = {}
       THEN Fail("insufficient_evidence") /\ UNCHANGED selected
       ELSE /\ selected' = resolved
            /\ node' = "generate_candidate_sql" /\ UNCHANGED status
  /\ UNCHANGED <<inputs, schema, joins, candidate,
                 regenerations, outcome, calls, executed, changes>>

MutantMaxAttempts == 3

\* An empty answer is asked for again once.
MaxAttempts == 2

\* The model is unavailable or its output unreadable, at some call.
GenerationFails ==
  /\ node = "generate_candidate_sql"
  /\ Fail("error")
  /\ \E n \in 1..MaxAttempts : calls' = calls + n
  /\ UNCHANGED <<inputs, schema, joins, selected, candidate,
                 regenerations, outcome, executed, changes>>

GenerateCandidateSql ==
  /\ node = "generate_candidate_sql"
  /\ \E answer \in Candidates :
       /\ \E n \in 1..MaxAttempts : (answer.kind = "empty" => n = MaxAttempts) /\ calls' = calls + n
       /\ IF answer.kind = "empty" THEN Fail("error") /\ UNCHANGED candidate
          ELSE /\ candidate' = answer
               /\ node' = "validate_sql_before_execution" /\ UNCHANGED status
  /\ UNCHANGED <<inputs, schema, joins, selected,
                 regenerations, outcome, executed, changes>>

\* With _route_after_sql_validation, which goes back for the count of one only.
ValidateSqlBeforeExecution ==
  /\ node = "validate_sql_before_execution"
  /\ \/ /\ candidate.kind = "unbound" /\ regenerations = 0
        /\ candidate' = NoSql /\ validated' = NoSql /\ regenerations' = regenerations + 1
        /\ node' = IF regenerations' = 1 THEN "generate_candidate_sql" ELSE "emit_sql_failure"
        /\ UNCHANGED status
     \/ /\ candidate.kind = "refused" \/ (candidate.kind = "unbound" /\ regenerations # 0)
        /\ Fail("validation_failed")
        /\ UNCHANGED <<candidate, validated, regenerations>>
     \/ /\ candidate.kind = "query"
        /\ validated' = candidate
        /\ node' = "execute_sql" /\ UNCHANGED <<status, candidate, regenerations>>
  /\ UNCHANGED <<inputs, schema, joins, selected, rows, result, calls, executed, changes>>

\* The connection fails, or PostgreSQL ends a deadlock with this query.
ExecutorUnavailable ==
  /\ node = "execute_sql"
  /\ executed' = executed \cup {validated}
  /\ Fail("error")
  /\ UNCHANGED <<inputs, schema, joins, selected, candidate,
                 regenerations, outcome, calls, changes>>

\* execute_read_only_sql on the dataset as it is now.  It names the tables of
\* the query, not those selected.
ExecuteSql ==
  LET missing == {k \in validated.from \cap Keys : dataset[k] = {}} IN
  /\ node = "execute_sql"
  /\ executed' = executed \cup {validated}
  /\ IF missing # {} THEN Fail("validation_failed") /\ UNCHANGED rows
     ELSE IF Ungranted \in validated.from
     THEN Fail("access_failed") /\ UNCHANGED rows
     ELSE /\ rows' \in Rows
          /\ node' = "validate_sql_result" /\ UNCHANGED status
  /\ UNCHANGED <<inputs, schema, joins, selected, candidate,
                 regenerations, validated, result, calls, changes>>

\* A column the query uses and the table no longer has, a type error, a
\* division by zero: any other error of the query.
QueryFails ==
  /\ node = "execute_sql"
  /\ executed' = executed \cup {validated}
  /\ Fail("validation_failed")
  /\ UNCHANGED <<inputs, schema, joins, selected, candidate,
                 regenerations, outcome, calls, changes>>

\* What execute_read_only_sql returns always passes validate_execution_result.
ValidateSqlResult ==
  /\ node = "validate_sql_result"
  /\ node' = "emit_sql_result"
  /\ UNCHANGED <<status, inputs, schema, joins, selected, candidate,
                 regenerations, outcome, calls, executed, changes>>

EmitSqlResult ==
  /\ node = "emit_sql_result"
  /\ node' = "END" /\ status' = "success"
  /\ result' = [status |-> "success", output |-> rows]
  /\ UNCHANGED <<inputs, schema, joins, selected, candidate,
                 regenerations, validated, rows, calls, executed, changes>>

MutantFailureOutput == IF selected = NoSelection THEN "none" ELSE "nulls"

\* empty_validated_output
FailureOutput == "none"

EmitSqlFailure ==
  /\ node = "emit_sql_failure"
  /\ node' = "END" /\ UNCHANGED status
  /\ result' = [status |-> IF status = "running" THEN "error" ELSE status,
                output |-> FailureOutput]
  /\ UNCHANGED <<inputs, schema, joins, selected, candidate,
                 regenerations, validated, rows, calls, executed, changes>>

Step ==
  \/ StoreRaises \/ StoreUnavailable
  \/ SqlIntake
  \/ BuildPermissionFilteredSqlSchema
  \/ LoadApprovedJoinRelationships
  \/ BuildSqlQueryIntent
  \/ SelectorFails \/ SelectRelevantStructuredResources
  \/ GenerationFails \/ GenerateCandidateSql
  \/ ValidateSqlBeforeExecution
  \/ ExecutorUnavailable \/ ExecuteSql \/ QueryFails
  \/ ValidateSqlResult
  \/ EmitSqlResult \/ EmitSqlFailure

Done == node \in {"END", "raised"} /\ UNCHANGED vars

Next == Step \/ DatasetChanges \/ Done

Spec == Init /\ [][Next]_vars

-----------------------------------------------------------------------------
(* Properties *)

\* A success is reported exactly when the store has answered a query, any
\* other end with no output: the results are those the tool counts on.
KeepsContract ==
  result # NoResult =>
    /\ result \in ChildResults("sql")
    /\ result.status = "success" <=> rows # NoRows

\* What the generation model is given are columns of the schema read for this
\* run, both ends of a join included, although the joins are read later.
SelectionFitsSchema ==
  selected # NoSelection =>
    /\ selected.columns \subseteq schema
    /\ {x[1] : x \in selected.columns} \subseteq selected.tables

\* The generation model is called at most four times and one query at most is
\* executed: the retries of an empty answer and of an unbound parameter do not
\* feed one another.
GenerationBounded == calls <= 4 /\ Cardinality(executed) <= 1

=============================================================================
