-------------------------- MODULE SqlSubgraphProofs --------------------------
(***************************************************************************)
(* Proofs about SqlSubgraph, for every set of resources, columns, users    *)
(* and states of the dataset, and any number of changes to it.  The        *)
(* argument: each field of the workflow's state is written by nodes that   *)
(* no route leads back to, with one exception, the generation of a query   *)
(* for an unbound parameter; so what a node reads has the form in which    *)
(* the last of its writers left it, whatever the store has become since.   *)
(***************************************************************************)
EXTENDS SqlSubgraph, FiniteSetTheorems, TLAPS

\* The nodes up to the one that fills each field.
UntilSelection ==
  {"sql_intake", "build_permission_filtered_sql_schema", "load_approved_join_relationships",
   "read_filtered_sql_schema", "build_sql_query_intent", "select_relevant_structured_resources"}

UntilExecution ==
  UntilSelection \cup {"generate_candidate_sql", "validate_sql_before_execution", "execute_sql"}

WithRows == {"validate_sql_result", "emit_sql_result"}

Terminals == {"END", "raised"}

FailureStatuses == TerminalResultStatuses \ {"success"}

TypeOK ==
  /\ node \in UntilExecution \cup WithRows \cup {"emit_sql_failure"} \cup Terminals
  /\ user \in Users /\ intake \in {"ok", "missing_permission", "malformed"}
  /\ dataset \in Datasets /\ approved \subseteq SUBSET Columns
  /\ schema \subseteq Columns /\ joins \subseteq SUBSET Columns
  /\ selected \in Selections \cup {NoSelection}
  /\ candidate \in Candidates \cup {NoSql} /\ validated \in Candidates \cup {NoSql}
  /\ regenerations \in {0, 1} /\ calls \in Nat
  /\ rows \in Rows \cup {NoRows} /\ result \in ChildResult \cup {NoResult}

\* A failure is emitted under a status of its own, and nothing is emitted twice.
StatusInv ==
  /\ node = "emit_sql_failure" => status \in FailureStatuses
  /\ result # NoResult => node = "END"

\* There are rows between the executor and the end, and after a success only.
RowsInv ==
  /\ node \in WithRows => rows # NoRows
  /\ rows # NoRows => node \in WithRows \cup {"END"}
  /\ KeepsContract

\* The nodes after the model and after the check have what they read.
CandidateInv ==
  /\ node = "validate_sql_before_execution" => candidate \in Candidates
  /\ node = "execute_sql" => validated \in Candidates /\ validated.kind = "query"

\* A generation spends two calls, and the second follows the regeneration.
CallsInv ==
  /\ node \in UntilSelection => regenerations = 0 /\ calls = 0
  /\ node = "generate_candidate_sql" => calls <= MaxAttempts * regenerations
  /\ calls <= MaxAttempts * (regenerations + 1)

\* The executor has seen the validated query, once it is past.
ExecutionInv ==
  /\ node \in UntilExecution => executed = {}
  /\ executed = {} \/ executed = {validated}

\* The schema is read before anything is selected from it.
SelectionInv ==
  /\ node \in UntilSelection => selected = NoSelection
  /\ SelectionFitsSchema

IInv ==
  /\ TypeOK /\ StatusInv /\ RowsInv /\ CandidateInv /\ CallsInv /\ ExecutionInv /\ SelectionInv

-----------------------------------------------------------------------------

\* The invariant holds at the start.
LEMMA InitIInv == Init => IInv
<1> SUFFICES ASSUME Init PROVE IInv
  OBVIOUS
<1> USE DEF Init, UntilSelection, UntilExecution, WithRows, Terminals, MaxAttempts
<1>1. TypeOK
  BY DEF TypeOK, JoinsOver, ColumnsIn
<1>2. StatusInv /\ RowsInv /\ CandidateInv
  BY DEF StatusInv, RowsInv, KeepsContract, CandidateInv
<1>3. CallsInv /\ ExecutionInv /\ SelectionInv
  BY DEF CallsInv, ExecutionInv, SelectionInv, SelectionFitsSchema
<1> QED BY <1>1, <1>2, <1>3 DEF IInv

\* What is resolved from proposed keys, and from joins over the schema, lies
\* within the schema, every column in a table that is selected with it.
LEMMA ResolvedFits ==
  ASSUME schema \subseteq Columns, NEW tables \in SUBSET Keys, NEW columns \in SUBSET Columns,
         NEW picked
  PROVE  LET resolved == ResolveSelection(tables, columns, picked) IN
         /\ resolved \in [tables : SUBSET Keys, sources : SUBSET Columns, columns : SUBSET Columns,
                          joins : SUBSET SUBSET Columns]
         /\ resolved.columns \subseteq schema
         /\ {x[1] : x \in resolved.columns} \subseteq resolved.tables
<1> DEFINE resolved == ResolveSelection(tables, columns, picked)
<1>1. \A x \in schema : x[1] \in Keys
  BY DEF Columns
<1>2. resolved.columns \subseteq schema
  BY DEF ResolveSelection
<1>3. \A x \in resolved.columns : x[1] \in resolved.tables
  BY DEF ResolveSelection
<1>4. resolved.tables \subseteq Keys
  BY <1>1 DEF ResolveSelection
<1>5. resolved.joins \subseteq SUBSET Columns /\ resolved.sources \subseteq Columns
  BY DEF ResolveSelection
<1>6. resolved = [tables |-> resolved.tables, sources |-> resolved.sources,
                  columns |-> resolved.columns, joins |-> resolved.joins]
  BY DEF ResolveSelection
<1> QED BY <1>2, <1>3, <1>4, <1>5, <1>6

\* What a node does to no other field than the route and the status.
LEMMA RouteKeepsIInv ==
  ASSUME IInv, UNCHANGED <<inputs, schema, joins, selected, candidate, regenerations, outcome,
                           calls, executed, changes>>,
         \/ /\ node \in UntilExecution /\ node' = "emit_sql_failure"
            /\ status' \in FailureStatuses
         \/ /\ node \in UntilExecution /\ node' = "raised"
         \/ /\ node \in UntilSelection /\ node' \in UntilSelection
         \/ /\ node = "validate_sql_result" /\ node' = "emit_sql_result"
  PROVE  IInv'
<1> USE DEF IInv, inputs, outcome, UntilSelection, UntilExecution, WithRows, Terminals
<1>1. TypeOK'
  BY DEF TypeOK
<1>2. StatusInv' /\ RowsInv' /\ CandidateInv'
  BY DEF StatusInv, RowsInv, KeepsContract, CandidateInv
<1>3. CallsInv' /\ ExecutionInv' /\ SelectionInv'
  BY DEF CallsInv, ExecutionInv, SelectionInv, SelectionFitsSchema
<1> QED BY <1>1, <1>2, <1>3

\* Every step preserves the invariant.
LEMMA NextIInv == IInv /\ [Next]_vars => IInv'
<1> SUFFICES ASSUME IInv, [Next]_vars PROVE IInv'
  OBVIOUS
<1> USE DEF IInv, inputs, outcome, UntilSelection, UntilExecution, WithRows, Terminals,
            FailureStatuses, TerminalResultStatuses, Fail
<1>1. CASE StoreRaises \/ StoreUnavailable
  BY <1>1, RouteKeepsIInv DEF StoreRaises, StoreUnavailable
<1>2. CASE SqlIntake
  BY <1>2, RouteKeepsIInv DEF SqlIntake
<1>3. CASE BuildPermissionFilteredSqlSchema
  <2>1. schema' \subseteq Columns
    BY <1>3 DEF BuildPermissionFilteredSqlSchema, ColumnsIn, TypeOK
  <2>2. TypeOK'
    BY <1>3, <2>1 DEF BuildPermissionFilteredSqlSchema, TypeOK
  <2>3. StatusInv' /\ RowsInv' /\ CandidateInv'
    BY <1>3 DEF BuildPermissionFilteredSqlSchema, StatusInv, RowsInv, KeepsContract, CandidateInv
  <2>4. CallsInv' /\ ExecutionInv' /\ SelectionInv'
    BY <1>3 DEF BuildPermissionFilteredSqlSchema, CallsInv, ExecutionInv, SelectionInv,
                SelectionFitsSchema
  <2> QED BY <2>2, <2>3, <2>4
<1>4. CASE LoadApprovedJoinRelationships
  <2>1. joins' \subseteq SUBSET Columns
    BY <1>4 DEF LoadApprovedJoinRelationships, CurrentJoins, TypeOK
  <2>2. TypeOK'
    BY <1>4, <2>1 DEF LoadApprovedJoinRelationships, TypeOK
  <2>3. StatusInv' /\ RowsInv' /\ CandidateInv'
    BY <1>4 DEF LoadApprovedJoinRelationships, StatusInv, RowsInv, KeepsContract, CandidateInv
  <2>4. CallsInv' /\ ExecutionInv' /\ SelectionInv'
    BY <1>4 DEF LoadApprovedJoinRelationships, CallsInv, ExecutionInv, SelectionInv,
                SelectionFitsSchema
  <2> QED BY <2>2, <2>3, <2>4
<1>5. CASE BuildSqlQueryIntent
  BY <1>5, RouteKeepsIInv DEF BuildSqlQueryIntent
<1>6. CASE SelectorFails
  BY <1>6, RouteKeepsIInv DEF SelectorFails
<1>7. CASE SelectRelevantStructuredResources
  <2>1. PICK tables \in SUBSET Keys, columns \in SUBSET Columns, picked \in SUBSET (joins \cup approved) :
          IF ResolveSelection(tables, columns, picked).sources = {}
          THEN Fail("insufficient_evidence") /\ UNCHANGED selected
          ELSE /\ selected' = ResolveSelection(tables, columns, picked)
               /\ node' = "generate_candidate_sql" /\ UNCHANGED status
    BY <1>7 DEF SelectRelevantStructuredResources
  <2>2. CASE ResolveSelection(tables, columns, picked).sources = {}
    BY <1>7, <2>1, <2>2, RouteKeepsIInv DEF SelectRelevantStructuredResources
  <2>3. CASE ResolveSelection(tables, columns, picked).sources # {}
    <3>1. /\ selected' = ResolveSelection(tables, columns, picked)
          /\ node = "select_relevant_structured_resources"
          /\ node' = "generate_candidate_sql" /\ UNCHANGED status
          /\ UNCHANGED <<inputs, schema, joins, candidate,
                         regenerations, outcome, calls, executed, changes>>
      BY <1>7, <2>1, <2>3 DEF SelectRelevantStructuredResources
    <3>2. /\ selected' \in Selections /\ selected'.columns \subseteq schema
          /\ {x[1] : x \in selected'.columns} \subseteq selected'.tables
      BY <3>1, ResolvedFits DEF TypeOK, Selections
    <3>3. TypeOK'
      BY <3>1, <3>2 DEF TypeOK
    <3>4. StatusInv' /\ RowsInv' /\ CandidateInv'
      BY <3>1 DEF StatusInv, RowsInv, KeepsContract, CandidateInv
    <3>5. CallsInv' /\ ExecutionInv'
      BY <3>1 DEF CallsInv, MaxAttempts, ExecutionInv
    <3>6. SelectionInv'
      BY <3>1, <3>2 DEF SelectionInv, SelectionFitsSchema
    <3> QED BY <3>3, <3>4, <3>5, <3>6
  <2> QED BY <2>2, <2>3
<1>8. CASE GenerationFails \/ GenerateCandidateSql
  <2>1. /\ node = "generate_candidate_sql"
        /\ \E n \in 1..MaxAttempts : calls' = calls + n
        /\ UNCHANGED <<inputs, schema, joins, selected, regenerations, outcome, executed, changes>>
        /\ \/ Fail("error") /\ UNCHANGED candidate
           \/ /\ candidate' \in Candidates /\ node' = "validate_sql_before_execution"
              /\ UNCHANGED status
    BY <1>8 DEF GenerationFails, GenerateCandidateSql
  <2>2. calls' \in Nat /\ calls' <= MaxAttempts * (regenerations + 1)
    BY <2>1 DEF CallsInv, TypeOK, MaxAttempts
  <2>3. TypeOK'
    BY <2>1, <2>2 DEF TypeOK
  <2>4. StatusInv' /\ RowsInv' /\ CandidateInv'
    BY <2>1 DEF StatusInv, RowsInv, KeepsContract, CandidateInv
  <2>5. CallsInv'
    BY <2>1, <2>2 DEF CallsInv
  <2>6. ExecutionInv' /\ SelectionInv'
    BY <2>1 DEF ExecutionInv, SelectionInv, SelectionFitsSchema
  <2> QED BY <2>3, <2>4, <2>5, <2>6
<1>9. CASE ValidateSqlBeforeExecution
  <2>1. /\ node = "validate_sql_before_execution" /\ candidate \in Candidates
        /\ UNCHANGED <<inputs, schema, joins, selected, rows, result, calls, executed, changes>>
    BY <1>9 DEF ValidateSqlBeforeExecution, CandidateInv
  <2>2. CASE /\ regenerations = 0 /\ regenerations' = 1 /\ candidate' = NoSql /\ validated' = NoSql
             /\ node' = "generate_candidate_sql" /\ UNCHANGED status
    <3>1. TypeOK'
      BY <2>1, <2>2 DEF TypeOK
    <3>2. StatusInv' /\ RowsInv' /\ CandidateInv' /\ CallsInv'
      BY <2>1, <2>2 DEF StatusInv, RowsInv, KeepsContract, CandidateInv, CallsInv, MaxAttempts, TypeOK
    <3>3. ExecutionInv' /\ SelectionInv'
      BY <2>1, <2>2 DEF ExecutionInv, SelectionInv, SelectionFitsSchema
    <3> QED BY <3>1, <3>2, <3>3
  <2>3. CASE Fail("validation_failed") /\ UNCHANGED <<candidate, validated, regenerations>>
    BY <2>1, <2>3, RouteKeepsIInv
  <2>4. CASE /\ candidate.kind = "query" /\ validated' = candidate
             /\ node' = "execute_sql" /\ UNCHANGED <<status, candidate, regenerations>>
    <3>1. TypeOK'
      BY <2>1, <2>4 DEF TypeOK
    <3>2. StatusInv' /\ RowsInv' /\ CandidateInv' /\ CallsInv'
      BY <2>1, <2>4 DEF StatusInv, RowsInv, KeepsContract, CandidateInv, CallsInv, MaxAttempts
    <3>3. ExecutionInv' /\ SelectionInv'
      BY <2>1, <2>4 DEF ExecutionInv, SelectionInv, SelectionFitsSchema
    <3> QED BY <3>1, <3>2, <3>3
  <2> QED BY <1>9, <2>2, <2>3, <2>4 DEF ValidateSqlBeforeExecution
<1>10. CASE ExecutorUnavailable \/ QueryFails
  <2>1. /\ node = "execute_sql" /\ executed' = executed \cup {validated} /\ executed = {}
        /\ node' = "emit_sql_failure" /\ status' \in {"error", "validation_failed"}
        /\ UNCHANGED <<inputs, schema, joins, selected, candidate, regenerations, outcome, calls>>
    BY <1>10 DEF ExecutorUnavailable, QueryFails, ExecutionInv
  <2>2. TypeOK' /\ StatusInv' /\ CandidateInv'
    BY <2>1 DEF TypeOK, StatusInv, CandidateInv
  <2>3. RowsInv' /\ CallsInv' /\ ExecutionInv'
    BY <2>1 DEF RowsInv, KeepsContract, CallsInv, MaxAttempts, ExecutionInv
  <2>4. SelectionInv'
    BY <2>1 DEF SelectionInv, SelectionFitsSchema
  <2> QED BY <2>2, <2>3, <2>4
<1>11. CASE ExecuteSql
  <2>1. /\ node = "execute_sql" /\ executed' = {validated} /\ rows = NoRows /\ result = NoResult
        /\ validated \in Candidates /\ validated.kind = "query"
        /\ UNCHANGED <<inputs, schema, joins, selected, candidate, regenerations, validated, result, calls>>
    BY <1>11 DEF ExecuteSql, ExecutionInv, CandidateInv, RowsInv, StatusInv
  <2>2. CASE rows' = NoRows /\ node' = "emit_sql_failure" /\ status' \in {"access_failed", "validation_failed"}
    <3>1. TypeOK' /\ StatusInv' /\ CandidateInv'
      BY <2>1, <2>2 DEF TypeOK, StatusInv, CandidateInv
    <3>2. RowsInv' /\ CallsInv' /\ ExecutionInv'
      BY <2>1, <2>2 DEF RowsInv, KeepsContract, CallsInv, MaxAttempts, ExecutionInv
    <3>3. SelectionInv'
      BY <2>1, <2>2 DEF SelectionInv, SelectionFitsSchema
    <3> QED BY <3>1, <3>2, <3>3
  <2>3. CASE rows' \in Rows /\ node' = "validate_sql_result" /\ UNCHANGED status
    <3>1. rows' # NoRows
      BY <2>3, NoneAssumption
    <3>2. TypeOK' /\ StatusInv' /\ CandidateInv'
      BY <2>1, <2>3, <3>1 DEF TypeOK, StatusInv, CandidateInv
    <3>3. RowsInv' /\ CallsInv' /\ ExecutionInv'
      BY <2>1, <2>3, <3>1 DEF RowsInv, KeepsContract, CallsInv, MaxAttempts, ExecutionInv
    <3>4. SelectionInv'
      BY <2>1, <2>3 DEF SelectionInv, SelectionFitsSchema
    <3> QED BY <3>2, <3>3, <3>4
  <2> QED BY <1>11, <2>1, <2>2, <2>3 DEF ExecuteSql
<1>12. CASE ValidateSqlResult
  BY <1>12, RouteKeepsIInv DEF ValidateSqlResult
<1>13. CASE EmitSqlResult \/ EmitSqlFailure
  <2>1. /\ node \in {"emit_sql_result", "emit_sql_failure"} /\ node' = "END"
        /\ UNCHANGED <<inputs, schema, joins, selected, candidate, regenerations, validated, rows,
                       calls, executed, changes>>
    BY <1>13 DEF EmitSqlResult, EmitSqlFailure
  <2>2. /\ result' \in ChildResults("sql") /\ result' \in ChildResult
        /\ result'.status = "success" <=> rows # NoRows
    <3>1. CASE EmitSqlResult
      <4>1. rows \in Rows
        BY <3>1 DEF EmitSqlResult, RowsInv, TypeOK
      <4> QED BY <3>1, <4>1 DEF EmitSqlResult, RowsInv, Rows, ChildResults, ChildResult, Outputs
    <3>2. CASE EmitSqlFailure
      <4>1. status \in FailureStatuses /\ status # "running" /\ rows = NoRows
        BY <3>2 DEF EmitSqlFailure, StatusInv, RowsInv
      <4> QED BY <3>2, <4>1 DEF EmitSqlFailure, FailureOutput, ChildResults, ChildResult, Outputs
    <3> QED BY <1>13, <3>1, <3>2
  <2>3. TypeOK' /\ StatusInv' /\ CandidateInv'
    BY <2>1, <2>2 DEF TypeOK, StatusInv, CandidateInv
  <2>4. RowsInv' /\ CallsInv' /\ ExecutionInv'
    BY <2>1, <2>2 DEF RowsInv, KeepsContract, CallsInv, MaxAttempts, ExecutionInv
  <2>5. SelectionInv'
    BY <2>1 DEF SelectionInv, SelectionFitsSchema
  <2> QED BY <2>3, <2>4, <2>5
<1>14. CASE DatasetChanges
  <2>1. dataset' \in Datasets /\ approved' \subseteq SUBSET Columns
    BY <1>14 DEF DatasetChanges, JoinsOver, ColumnsIn
  <2>2. TypeOK' /\ StatusInv' /\ CandidateInv'
    BY <1>14, <2>1 DEF DatasetChanges, TypeOK, StatusInv, CandidateInv
  <2>3. RowsInv' /\ CallsInv' /\ ExecutionInv'
    BY <1>14 DEF DatasetChanges, RowsInv, KeepsContract, CallsInv, MaxAttempts, ExecutionInv
  <2>4. SelectionInv'
    BY <1>14 DEF DatasetChanges, SelectionInv, SelectionFitsSchema
  <2> QED BY <2>2, <2>3, <2>4
<1>15. CASE UNCHANGED vars
  <2>1. TypeOK' /\ StatusInv' /\ CandidateInv'
    BY <1>15 DEF vars, TypeOK, StatusInv, CandidateInv
  <2>2. RowsInv' /\ CallsInv' /\ ExecutionInv'
    BY <1>15 DEF vars, RowsInv, KeepsContract, CallsInv, MaxAttempts, ExecutionInv
  <2>3. SelectionInv'
    BY <1>15 DEF vars, SelectionInv, SelectionFitsSchema
  <2> QED BY <2>1, <2>2, <2>3
<1> QED
  BY <1>1, <1>2, <1>3, <1>4, <1>5, <1>6, <1>7, <1>8, <1>9, <1>10, <1>11, <1>12, <1>13,
     <1>14, <1>15 DEF Next, Step, Done

-----------------------------------------------------------------------------

\* What the nodes of a run keep, the type of every variable included, through
\* any number of changes of the dataset.
THEOREM SqlSubgraphInvariance == Spec => []IInv
BY InitIInv, NextIInv, PTL DEF Spec

\* Every result of a run is one that the sql_rag tool counts on, a success
\* exactly when the store has answered a query.
THEOREM SqlContract == Spec => []KeepsContract
<1>1. IInv => KeepsContract BY DEF IInv, RowsInv
<1> QED BY <1>1, SqlSubgraphInvariance, PTL

\* The columns selected for the generation model, those of joins loaded in a
\* later transaction included, are columns of the schema filtered for the user.
THEOREM SelectionWithinSchema == Spec => []SelectionFitsSchema
<1>1. IInv => SelectionFitsSchema BY DEF IInv, SelectionInv
<1> QED BY <1>1, SqlSubgraphInvariance, PTL

\* A run calls the generation model at most four times and hands at most one
\* query to the executor.
THEOREM BoundedGeneration == Spec => []GenerationBounded
<1>1. IInv => GenerationBounded
  <2> SUFFICES ASSUME IInv PROVE GenerationBounded
    OBVIOUS
  <2>1. calls <= 4
    BY DEF IInv, TypeOK, CallsInv, MaxAttempts
  <2>2. Cardinality(executed) <= 1
    <3>1. executed = {} \/ executed = {validated}
      BY DEF IInv, ExecutionInv
    <3>2. Cardinality({}) = 0
      BY FS_EmptySet
    <3>3. Cardinality({validated}) = 1
      BY FS_Singleton
    <3> QED BY <3>1, <3>2, <3>3
  <2> QED BY <2>1, <2>2 DEF GenerationBounded
<1> QED BY <1>1, SqlSubgraphInvariance, PTL

=============================================================================
