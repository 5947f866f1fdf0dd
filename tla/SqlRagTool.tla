----------------------------- MODULE SqlRagTool -----------------------------
(***************************************************************************)
(* The sql_rag tool graph (app/tools/sql_rag/graph.py): one invocation, a  *)
(* graph of nodes that run one after the other over one state.  The        *)
(* planner's output is any plan of Plans; the result of a child workflow   *)
(* is any result its emit nodes produce.                                   *)
(***************************************************************************)
EXTENDS RuntimePlan, ChildContract

CONSTANTS
  Plans,    \* the plans the planner model may return
  NoPlan, NoStep, NoChild, NoBundle, NoResult  \* None in the state's fields

ASSUME PlansAssumption == Plans \subseteq RawPlan

VARIABLES
  node,         \* the node of the graph that runs next
  request,      \* what require_sql_rag_input looks at
  plan,         \* runtime_plan
  planStatus,   \* runtime_plan_status
  currentStep,  \* current_step
  child,        \* current_child_result
  completed,    \* completed_steps, read only as a set
  covered,      \* covered_obligation_ids, read only as a set
  stepResults,  \* step_results
  depContext,   \* the steps with an entry in dependency_context
  bundle,       \* final_result_bundle
  toolResult,   \* tool_result and final_answer_context
  supersteps    \* nodes run so far (history: LangGraph counts them)

vars == <<node, request, plan, planStatus, currentStep, child, completed,
          covered, stepResults, depContext, bundle, toolResult, supersteps>>

progress == <<completed, covered, stepResults, depContext>>

Nodes == {"sql_rag_agent", "runtime_obligation_planner",
          "multi_step_runtime_executor", "perform_rag_sql",
          "normalizer_transformer", "final_result_bundle", "adapter",
          "END", "raised"}

PlanStatuses == {"unset", "not_started", "planned", "planning_failed",
                 "invalid_plan", "running", "complete", "blocked"}

StepResult ==
  [step : StepIds, type : {"rag", "sql"}, status : TerminalResultStatuses,
   output : Outputs]

Bundle == [status : TerminalResultStatuses, material : SUBSET StepIds]

ASSUME NoneAssumption ==
  /\ NoPlan \notin RawPlan /\ NoStep \notin RawStep /\ NoChild \notin ChildResult
  /\ NoBundle \notin Bundle /\ NoResult \notin Bundle

Request == [permitted : BOOLEAN, wellFormed : BOOLEAN]

Init ==
  /\ node = "sql_rag_agent"
  /\ request \in Request
  /\ plan = NoPlan /\ planStatus = "unset"
  /\ currentStep = NoStep /\ child = NoChild
  /\ completed = {} /\ covered = {} /\ stepResults = << >> /\ depContext = {}
  /\ bundle = NoBundle /\ toolResult = NoResult
  /\ supersteps = 0

Runs(n) == node = n /\ supersteps' = supersteps + 1

FailState(status, resultStatus) ==
  /\ planStatus' = status
  /\ bundle' = [status |-> resultStatus, material |-> {}]

-----------------------------------------------------------------------------
(* Routing: the conditional edges. *)

AfterAgent(status) ==
  IF status = "not_started" THEN "runtime_obligation_planner"
                            ELSE "final_result_bundle"

AfterPlanner(status) ==
  IF status = "planned" THEN "multi_step_runtime_executor"
                        ELSE "final_result_bundle"

AfterExecutor(status, step) ==
  IF status = "running" /\ step # NoStep THEN "perform_rag_sql"
                                         ELSE "final_result_bundle"

-----------------------------------------------------------------------------
(* sql_rag_agent and runtime_obligation_planner *)

\* require_sql_rag_input checks the permission context before the request.
SqlRagAgent ==
  /\ Runs("sql_rag_agent")
  /\ \/ /\ ~request.permitted
        /\ FailState("blocked", "access_failed")
        /\ UNCHANGED <<plan, currentStep, child, progress>>
     \/ /\ request.permitted /\ ~request.wellFormed
        /\ FailState("invalid_plan", "validation_failed")
        /\ UNCHANGED <<plan, currentStep, child, progress>>
     \/ /\ request.permitted /\ request.wellFormed
        /\ planStatus' = "not_started"
        /\ plan' = NoPlan /\ currentStep' = NoStep /\ child' = NoChild
        /\ completed' = {} /\ covered' = {} /\ stepResults' = << >> /\ depContext' = {}
        /\ UNCHANGED bundle
  /\ node' = AfterAgent(planStatus')
  /\ UNCHANGED <<request, toolResult>>

\* The model is missing, raises, or returns what is not a JSON object; or the
\* plan is not "planned" or has no obligation list.
PlanningFails ==
  /\ Runs("runtime_obligation_planner")
  /\ FailState("planning_failed", "error")
  /\ node' = AfterPlanner(planStatus')
  /\ UNCHANGED <<request, plan, currentStep, child, progress, toolResult>>

RuntimeObligationPlanner ==
  /\ Runs("runtime_obligation_planner")
  /\ \E p \in Plans :
       /\ p.status = "planned" /\ p.obligations # << >>
       /\ plan' = p
  /\ planStatus' = "planned"
  /\ node' = AfterPlanner(planStatus')
  /\ UNCHANGED <<request, currentStep, child, progress, bundle, toolResult>>

-----------------------------------------------------------------------------
(* multi_step_runtime_executor *)

MutantChildFailed(results) == FALSE

ChildFailed(results) ==
  results # << >> /\ results[Len(results)].status # "success"

LastIsSql(results) ==
  results # << >> /\ results[Len(results)].type = "sql"

MutantSqlOutputPassesGate(output) == TRUE

\* _sql_output_gate_reason: every selected column has a value in some row.
SqlOutputPassesGate(output) == output = "material"

\* What _sql_coverage_patch adds for the last result.
MutantNewlyCovered(p, results) == {}

NewlyCovered(p, results) ==
  IF LastIsSql(results)
  THEN UNION {ToSet(p.steps[i].obls) :
                i \in {j \in ExecutableAt(p) :
                         p.steps[j].id = results[Len(results)].step}}
  ELSE {}

\* Steps not run whose dependencies are all completed.
Ready(p, done) ==
  {i \in ExecutableAt(p) : p.steps[i].id \notin done /\ p.steps[i].deps \subseteq done}

Stopped == planStatus \in {"blocked", "invalid_plan", "error"}

ExecutorPassesThrough ==
  /\ Runs("multi_step_runtime_executor")
  /\ Stopped
  /\ node' = AfterExecutor(planStatus, currentStep)
  /\ UNCHANGED <<request, plan, planStatus, currentStep, child, progress, bundle,
                 toolResult>>

ExecutorRejectsPlan ==
  /\ Runs("multi_step_runtime_executor")
  /\ ~Stopped
  /\ ~ValidPlan(plan)
  /\ FailState("invalid_plan", "validation_failed")
  /\ node' = AfterExecutor(planStatus', currentStep)
  /\ UNCHANGED <<request, plan, currentStep, child, progress, toolResult>>

ExecutorStopsAtFailure ==
  /\ Runs("multi_step_runtime_executor")
  /\ ~Stopped
  /\ ValidPlan(plan)
  /\ ChildFailed(stepResults)
  /\ planStatus' = "blocked" /\ currentStep' = NoStep /\ child' = NoChild
  /\ node' = AfterExecutor(planStatus', currentStep')
  /\ UNCHANGED <<request, plan, progress, bundle, toolResult>>

ExecutorRejectsSqlOutput ==
  /\ Runs("multi_step_runtime_executor")
  /\ ~Stopped
  /\ ValidPlan(plan)
  /\ ~ChildFailed(stepResults)
  /\ LastIsSql(stepResults)
  /\ ~SqlOutputPassesGate(stepResults[Len(stepResults)].output)
  /\ FailState("invalid_plan", "validation_failed")
  /\ node' = AfterExecutor(planStatus', currentStep)
  /\ UNCHANGED <<request, plan, currentStep, child, progress, toolResult>>

\* _next_step_patch: the first ready step in plan order; with steps left and
\* none ready, blocked; with an obligation uncovered, invalid; else complete.
ExecutorSchedules ==
  LET coveredNow == covered \cup NewlyCovered(plan, stepResults)
      ready == Ready(plan, completed)
  IN
  /\ Runs("multi_step_runtime_executor")
  /\ ~Stopped
  /\ ValidPlan(plan)
  /\ ~ChildFailed(stepResults)
  /\ LastIsSql(stepResults) => SqlOutputPassesGate(stepResults[Len(stepResults)].output)
  /\ covered' = coveredNow
  /\ IF ready # {}
     THEN /\ \E i \in ready : /\ \A j \in ready : i <= j
                              /\ currentStep' = plan.steps[i]
          /\ planStatus' = "running"
          /\ UNCHANGED bundle
     ELSE IF ExecutableIds(plan) \subseteq completed /\ coveredNow = ObligationsOf(plan)
     THEN /\ planStatus' = "complete" /\ currentStep' = NoStep
          /\ UNCHANGED bundle
     ELSE /\ FailState(IF ExecutableIds(plan) \subseteq completed
                       THEN "invalid_plan" ELSE "blocked",
                       IF ExecutableIds(plan) \subseteq completed
                       THEN "validation_failed" ELSE "error")
          /\ UNCHANGED currentStep
  /\ node' = AfterExecutor(planStatus', currentStep')
  /\ UNCHANGED <<request, plan, child, completed, stepResults, depContext, toolResult>>

-----------------------------------------------------------------------------
(* perform_rag_sql and normalizer_transformer *)

\* Why perform_rag_sql refuses the current step; "none" if it runs the child.
PerformFault(step) ==
  IF ~Executable(step) \/ step.goal = "blank" THEN "invalid_plan"
  ELSE IF ~(step.deps \subseteq completed \cap depContext) THEN "blocked"
  ELSE "none"

PerformRagSql ==
  /\ Runs("perform_rag_sql")
  /\ node' = "normalizer_transformer"
  /\ IF PerformFault(currentStep) = "none"
     THEN /\ child' \in ChildResults(currentStep.type)
          /\ UNCHANGED <<planStatus, bundle>>
     ELSE /\ FailState(PerformFault(currentStep),
                       IF PerformFault(currentStep) = "blocked"
                       THEN "error" ELSE "validation_failed")
          /\ UNCHANGED child
  /\ UNCHANGED <<request, plan, currentStep, progress, toolResult>>

\* An exception no node of the child catches (a driver error of the store's
\* connection in rag retrieval, say) leaves the whole invocation.
ChildRaises ==
  /\ Runs("perform_rag_sql")
  /\ PerformFault(currentStep) = "none"
  /\ node' = "raised"
  /\ UNCHANGED <<request, plan, planStatus, currentStep, child, progress, bundle,
                 toolResult>>

MutantCompletedAfter(step, status) == completed

CompletedAfter(step, status) ==
  IF status = "success" THEN completed \cup {step.id} ELSE completed

\* With no child result (perform_rag_sql refused) the result is malformed.
NormalizerTransformer ==
  LET result == IF child = NoChild
                THEN [status |-> "validation_failed", output |-> "none"]
                ELSE child
  IN
  /\ Runs("normalizer_transformer")
  /\ stepResults' = Append(stepResults, [step |-> currentStep.id, type |-> currentStep.type,
                                         status |-> result.status, output |-> result.output])
  /\ completed' = CompletedAfter(currentStep, result.status)
  /\ depContext' = IF result.status = "success"
                   THEN depContext \cup {currentStep.id} ELSE depContext
  /\ covered' = IF result.status = "success" /\ currentStep.type = "rag"
                THEN covered \cup ToSet(currentStep.obls) ELSE covered
  /\ currentStep' = NoStep /\ child' = NoChild
  /\ node' = "multi_step_runtime_executor"
  /\ UNCHANGED <<request, plan, planStatus, bundle, toolResult>>

-----------------------------------------------------------------------------
(* final_result_bundle and adapter *)

StatusOrder == <<"access_failed", "validation_failed", "error", "insufficient_evidence">>

MutantStatusFromStepResults(results) ==
  IF \E i \in DOMAIN results : results[i].status = "success" THEN "success" ELSE "error"

\* status_from_step_results: the gravest status among the steps.
StatusFromStepResults(results) ==
  LET statuses == {results[i].status : i \in DOMAIN results}
      present == {k \in DOMAIN StatusOrder : StatusOrder[k] \in statuses}
  IN IF results = << >> THEN "insufficient_evidence"
     ELSE IF present = {} THEN "success"
     ELSE StatusOrder[CHOOSE k \in present : \A l \in present : k <= l]

\* The steps whose validated output the bundle carries.
MaterialOf(results) ==
  {results[i].step : i \in {j \in DOMAIN results : results[j].output # "none"}}

FinalResultBundle ==
  LET status == StatusFromStepResults(stepResults)
      material == MaterialOf(stepResults)
  IN
  /\ Runs("final_result_bundle")
  /\ bundle' = IF bundle # NoBundle THEN bundle
               ELSE [status |-> IF status = "success" /\ material = {}
                                THEN "insufficient_evidence" ELSE status,
                     material |-> material]
  /\ node' = "adapter"
  /\ UNCHANGED <<request, plan, planStatus, currentStep, child, progress, toolResult>>

Adapter ==
  /\ Runs("adapter")
  /\ toolResult' = bundle
  /\ node' = "END"
  /\ UNCHANGED <<request, plan, planStatus, currentStep, child, progress, bundle>>

Done == node \in {"END", "raised"} /\ UNCHANGED vars

Executor ==
  \/ ExecutorPassesThrough
  \/ ExecutorRejectsPlan
  \/ ExecutorStopsAtFailure
  \/ ExecutorRejectsSqlOutput
  \/ ExecutorSchedules

Step ==
  \/ SqlRagAgent
  \/ PlanningFails
  \/ RuntimeObligationPlanner
  \/ Executor
  \/ PerformRagSql
  \/ ChildRaises
  \/ NormalizerTransformer
  \/ FinalResultBundle
  \/ Adapter

Next == Step \/ Done

Spec == Init /\ [][Next]_vars

-----------------------------------------------------------------------------
(* Properties *)

\* Every field holds a value of its kind.
TypeOK ==
  /\ node \in Nodes
  /\ request \in Request
  /\ plan \in RawPlan \cup {NoPlan}
  /\ planStatus \in PlanStatuses
  /\ currentStep \in RawStep \cup {NoStep}
  /\ child \in ChildResult \cup {NoChild}
  /\ completed \subseteq StepIds
  /\ covered \subseteq ObligationIds
  /\ stepResults \in Seq(StepResult)
  /\ depContext \subseteq StepIds
  /\ bundle \in Bundle \cup {NoBundle}
  /\ toolResult \in Bundle \cup {NoResult}
  /\ supersteps \in Nat

Passed(result) ==
  result.status = "success" /\ (result.type = "sql" => result.output = "material")

\* The k-th child workflow run is the k-th step of the plan: although the
\* executor searches for any step whose dependencies are completed, no step
\* is skipped, reordered or run twice.
RunsInPlanOrder ==
  \A k \in DOMAIN stepResults :
    /\ k < Len(plan.steps)
    /\ stepResults[k].step = plan.steps[k].id
    /\ stepResults[k].type = plan.steps[k].type

\* No child runs after one that failed or whose output failed the coverage
\* gate: only the last result may be one that did not pass.
FirstFailureStops ==
  /\ \A k \in DOMAIN stepResults : k < Len(stepResults) => Passed(stepResults[k])
  /\ node = "perform_rag_sql" => \A k \in DOMAIN stepResults : Passed(stepResults[k])

\* The step handed to perform_rag_sql finds all it depends on: each dependency
\* has run, its output passed, and its obligations are covered.
DependenciesSatisfied ==
  node = "perform_rag_sql" =>
    \A i \in ExecutableAt(plan) :
      plan.steps[i].id \in currentStep.deps =>
        /\ i \in DOMAIN stepResults /\ Passed(stepResults[i])
        /\ ToSet(plan.steps[i].obls) \subseteq covered

\* A success is reported only if the plan was valid and, for each obligation,
\* the one step it is assigned to ran and its output passed.
SuccessIsEarned ==
  toolResult # NoResult /\ toolResult.status = "success" =>
    /\ plan # NoPlan /\ ValidPlan(plan)
    /\ \A o \in ObligationsOf(plan) :
         \E i \in ExecutableAt(plan) \cap DOMAIN stepResults :
           o \in ToSet(plan.steps[i].obls) /\ Passed(stepResults[i])

\* The failure of a step is reported with that step's status, whatever the
\* steps before it delivered.
FailureReportedAsIs ==
  toolResult # NoResult /\ ChildFailed(stepResults) =>
    toolResult.status = stepResults[Len(stepResults)].status

\* A run of a valid plan stops early only for something a step did: the
\* branches "Runtime plan could not make progress" and "completed without
\* covering every obligation" are never taken.
StopsForACause ==
  plan # NoPlan /\ Stopped =>
    \/ ~ValidPlan(plan)
    \/ \E k \in DOMAIN stepResults : ~Passed(stepResults[k])
    \/ currentStep # NoStep /\ currentStep.goal = "blank"

\* The tool graph ends within 3 * MaxRuntimeSteps + 2 nodes, the number the
\* recursion limit of its invocation has to admit.
SuperstepsBounded == supersteps <= 3 * MaxRuntimeSteps + 2

\* The tool carries out its plan as PlanExecution says.
Execution == INSTANCE PlanExecution WITH
  Jobs <- StepIds,
  deps <- IF plan # NoPlan /\ ValidPlan(plan)
          THEN [s \in ExecutableIds(plan) |->
                  UNION {plan.steps[i].deps :
                           i \in {j \in ExecutableAt(plan) : plan.steps[j].id = s}}]
          ELSE << >>,
  started <- {stepResults[k].step : k \in DOMAIN stepResults}
             \cup (IF currentStep = NoStep THEN {} ELSE {currentStep.id}),
  finished <- IF plan = NoPlan THEN {}
              ELSE {plan.steps[i].id : i \in
                      {j \in ExecutableAt(plan) : ToSet(plan.steps[j].obls) \cap covered # {}}},
  stopped <- Stopped,
  outcome <- IF toolResult = NoResult THEN "none" ELSE toolResult.status

ImplementsPlanExecution == Execution!Spec

=============================================================================
