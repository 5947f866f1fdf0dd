-------------------------- MODULE SqlRagToolProofs --------------------------
(***************************************************************************)
(* Proofs about SqlRagTool, for every set of plans and every step limit.   *)
(* The argument: a valid plan lists its executable steps first and its     *)
(* final step last, and dependencies point back; so after k passed         *)
(* results the first ready step is step k + 1, and the run is a walk down  *)
(* the list that stops at the first result that does not pass.  Then:      *)
(* which obligations are covered when, that a run stops only for a cause   *)
(* and reports it as it is, and that the tool carries out its plan as      *)
(* PlanExecution says.                                                     *)
(***************************************************************************)
EXTENDS SqlRagTool, TLAPS

Running == node \in {"multi_step_runtime_executor", "perform_rag_sql", "normalizer_transformer"}

AllPassed == \A k \in DOMAIN stepResults : Passed(stepResults[k])

\* Before the first executor visit nothing has happened.
FreshInv ==
  node \in {"sql_rag_agent", "runtime_obligation_planner"} =>
    /\ plan = NoPlan /\ bundle = NoBundle /\ stepResults = << >>
    /\ completed = {} /\ covered = {} /\ depContext = {}
    /\ currentStep = NoStep /\ child = NoChild /\ toolResult = NoResult

\* The results are those of the first steps of a valid plan, all passed but
\* perhaps the last.
ResultsInv ==
  stepResults # << >> =>
    /\ plan # NoPlan /\ ValidPlan(plan)
    /\ Len(stepResults) < Len(plan.steps)
    /\ \A k \in DOMAIN stepResults : /\ stepResults[k].step = plan.steps[k].id
                                     /\ stepResults[k].type = plan.steps[k].type
    /\ \A k \in DOMAIN stepResults : k < Len(stepResults) => Passed(stepResults[k])

ProgressInv ==
  /\ depContext = completed
  /\ completed = {stepResults[k].step :
                    k \in {j \in DOMAIN stepResults : stepResults[j].status = "success"}}

\* What each node may assume of the fields when it runs.
NodeInv ==
  /\ Running => plan # NoPlan /\ toolResult = NoResult
  /\ node = "multi_step_runtime_executor" =>
       /\ currentStep = NoStep \/ Stopped
       /\ child = NoChild
       /\ Stopped => bundle # NoBundle /\ bundle.status # "success"
       /\ ~Stopped => bundle = NoBundle
  /\ node = "perform_rag_sql" =>
       /\ ValidPlan(plan) /\ AllPassed
       /\ Len(stepResults) + 1 < Len(plan.steps)
       /\ currentStep = plan.steps[Len(stepResults) + 1]
       /\ ~Stopped /\ bundle = NoBundle /\ child = NoChild
  /\ node = "normalizer_transformer" =>
       /\ ValidPlan(plan) /\ AllPassed
       /\ Len(stepResults) + 1 < Len(plan.steps)
       /\ currentStep = plan.steps[Len(stepResults) + 1]
       /\ \/ /\ child \in ChildResults(currentStep.type)
             /\ ~Stopped /\ bundle = NoBundle
          \/ /\ child = NoChild
             /\ Stopped /\ bundle # NoBundle /\ bundle.status # "success"
  /\ node = "final_result_bundle" =>
       /\ toolResult = NoResult
       /\ bundle # NoBundle => bundle.status # "success"
       /\ bundle = NoBundle =>
            /\ plan # NoPlan /\ ValidPlan(plan)
            /\ ChildFailed(stepResults) \/ (AllPassed /\ Len(stepResults) + 1 = Len(plan.steps))
  /\ node = "adapter" => bundle # NoBundle /\ toolResult = NoResult
  /\ node = "raised" => toolResult = NoResult

\* A success is the whole walk, every result passed.
SuccessInv ==
  /\ node \in {"adapter", "END"} /\ bundle.status = "success" =>
       /\ plan # NoPlan /\ ValidPlan(plan)
       /\ AllPassed /\ Len(stepResults) + 1 = Len(plan.steps)
  /\ toolResult # NoResult => node = "END" /\ toolResult = bundle

SuperstepsInv ==
  LET k == Len(stepResults) IN
  /\ node = "sql_rag_agent" => supersteps = 0
  /\ node = "runtime_obligation_planner" => supersteps = 1
  /\ node = "multi_step_runtime_executor" => supersteps = 2 + 3 * k
  /\ node = "perform_rag_sql" => supersteps = 3 + 3 * k
  /\ node = "normalizer_transformer" => supersteps = 4 + 3 * k
  /\ node = "final_result_bundle" => supersteps <= 3 + 3 * k
  /\ node = "adapter" => supersteps <= 4 + 3 * k
  /\ node = "END" => supersteps <= 5 + 3 * k
  /\ node = "raised" => supersteps <= 4 + 3 * k

IInv ==
  /\ TypeOK
  /\ FreshInv
  /\ ResultsInv
  /\ ProgressInv
  /\ NodeInv
  /\ SuccessInv
  /\ SuperstepsInv

-----------------------------------------------------------------------------
(* Valid plans. *)

(* In a valid plan the executable steps come first and the final step, which   *)
(* must depend on each of them, is the last (validate_runtime_plan).           *)
LEMMA ValidPlanShape ==
  ASSUME NEW p \in RawPlan, ValidPlan(p)
  PROVE  /\ Len(p.steps) \in 1..MaxRuntimeSteps
         /\ DOMAIN p.steps = 1..Len(p.steps)
         /\ ExecutableAt(p) = 1..(Len(p.steps) - 1)
<1>1. /\ p.steps \in Seq(RawStep) /\ DOMAIN p.steps = 1..Len(p.steps)
      /\ Len(p.steps) \in 1..MaxRuntimeSteps
  BY MaxRuntimeStepsAssumption DEF RawPlan, ValidPlan, StepsWellFormed
<1>2. PICK f \in DOMAIN p.steps : FinalAt(p) = {f} /\ p.steps[f].deps = ExecutableIds(p)
  BY DEF ValidPlan, FinalClosesPlan
<1>3. \A i \in DOMAIN p.steps : i # f => i \in ExecutableAt(p)
  BY <1>2 DEF ValidPlan, StepsWellFormed, AllowedStepTypes, FinalAt, ExecutableAt, Executable
<1>4. f \notin ExecutableAt(p)
  BY <1>2 DEF FinalAt, ExecutableAt, Executable
<1>5. ASSUME NEW i \in ExecutableAt(p)
      PROVE  i < f
  <2>1. p.steps[i].id \in p.steps[f].deps
    BY <1>2 DEF ExecutableIds
  <2>2. PICK j \in 1..(f - 1) : p.steps[j].id = p.steps[i].id
    BY <2>1, <1>2 DEF ValidPlan, DependenciesPointBack
  <2>3. j = i
    BY <2>2, <1>1, <1>2 DEF ValidPlan, StepsWellFormed, ExecutableAt
  <2> QED BY <2>2, <2>3, <1>1
<1>6. f = Len(p.steps)
  <2>1. SUFFICES ASSUME f # Len(p.steps) PROVE FALSE
    OBVIOUS
  <2>2. Len(p.steps) \in ExecutableAt(p)
    BY <1>1, <1>3, <2>1, MaxRuntimeStepsAssumption
  <2> QED BY <1>1, <1>2, <1>5, <2>2, MaxRuntimeStepsAssumption
<1> QED BY <1>1, <1>2, <1>3, <1>4, <1>6 DEF ExecutableAt

(* The ids of the first k steps: what is completed after k passed results.     *)
FirstIds(p, k) == {p.steps[j].id : j \in 1..k}

(* After k < Len - 1 steps the first ready step in plan order is step k + 1.   *)
LEMMA NextStepReady ==
  ASSUME NEW p \in RawPlan, ValidPlan(p),
         NEW k \in Nat, k + 1 < Len(p.steps)
  PROVE  /\ k + 1 \in Ready(p, FirstIds(p, k))
         /\ \A j \in Ready(p, FirstIds(p, k)) : k + 1 <= j
<1>1. /\ Len(p.steps) \in Nat /\ DOMAIN p.steps = 1..Len(p.steps)
      /\ ExecutableAt(p) = 1..(Len(p.steps) - 1)
  BY ValidPlanShape, MaxRuntimeStepsAssumption
<1>2. k + 1 \in ExecutableAt(p)
  BY <1>1
<1>3. p.steps[k + 1].id \notin FirstIds(p, k)
  BY <1>1 DEF ValidPlan, StepsWellFormed, FirstIds
<1>4. p.steps[k + 1].deps \subseteq FirstIds(p, k)
  <2>1. ASSUME NEW d \in p.steps[k + 1].deps
        PROVE  \E j \in 1..k : p.steps[j].id = d
    BY <1>1 DEF ValidPlan, DependenciesPointBack
  <2> QED BY <2>1 DEF FirstIds
<1>5. \A j \in Ready(p, FirstIds(p, k)) : k + 1 <= j
  BY <1>1 DEF Ready, FirstIds
<1> QED BY <1>2, <1>3, <1>4, <1>5 DEF Ready

(* After all executable steps none is ready and none is missing.               *)
LEMMA NoStepLeft ==
  ASSUME NEW p \in RawPlan, ValidPlan(p),
         NEW k \in Nat, k + 1 = Len(p.steps)
  PROVE  /\ Ready(p, FirstIds(p, k)) = {}
         /\ ExecutableIds(p) = FirstIds(p, k)
<1>1. ExecutableAt(p) = 1..k
  BY ValidPlanShape, MaxRuntimeStepsAssumption
<1> QED BY <1>1 DEF Ready, ExecutableIds, FirstIds

-----------------------------------------------------------------------------
(* The inductive invariant. *)

LEMMA InitIInv == Init => IInv
<1> SUFFICES ASSUME Init PROVE IInv
  OBVIOUS
<1>1. TypeOK
  BY DEF Init, TypeOK, Nodes, PlanStatuses
<1>2. FreshInv /\ ResultsInv /\ ProgressInv
  BY DEF Init, FreshInv, ResultsInv, ProgressInv
<1>3. NodeInv /\ SuccessInv /\ SuperstepsInv
  BY DEF Init, NodeInv, Running, SuccessInv, SuperstepsInv
<1> QED BY <1>1, <1>2, <1>3 DEF IInv

LEMMA AgentIInv == IInv /\ SqlRagAgent => IInv'
<1> SUFFICES ASSUME IInv, SqlRagAgent PROVE IInv'
  OBVIOUS
<1> USE DEF IInv, SqlRagAgent, Runs, progress, AfterAgent, FailState
<1>1. TypeOK'
  <2>1. bundle' \in Bundle \cup {NoBundle}
    BY DEF TypeOK, Bundle, TerminalResultStatuses
  <2>2. UNCHANGED <<plan, currentStep, child, completed, covered, stepResults, depContext>>
    BY DEF FreshInv
  <2> QED BY <2>1, <2>2 DEF TypeOK, Nodes, PlanStatuses
<1>2. FreshInv' /\ ResultsInv' /\ ProgressInv'
  BY DEF FreshInv, ResultsInv, ProgressInv
<1>3. bundle' # NoBundle => bundle'.status # "success"
  BY DEF FreshInv
<1>4. stepResults' = << >> /\ toolResult' = NoResult
  BY DEF FreshInv
<1>5. node' = "final_result_bundle" => bundle' # NoBundle
  BY NoneAssumption DEF FreshInv, Bundle, TerminalResultStatuses
<1>6. node' \in {"runtime_obligation_planner", "final_result_bundle"}
  OBVIOUS
<1>7. NodeInv'
  BY <1>3, <1>4, <1>5, <1>6 DEF NodeInv, Running
<1>8. SuccessInv'
  BY <1>4, <1>6 DEF SuccessInv
<1>9. SuperstepsInv'
  BY <1>4, <1>6 DEF SuperstepsInv, TypeOK
<1> QED BY <1>1, <1>2, <1>7, <1>8, <1>9

LEMMA PlanningFailsIInv == IInv /\ PlanningFails => IInv'
<1> SUFFICES ASSUME IInv, PlanningFails PROVE IInv'
  OBVIOUS
<1> USE DEF IInv, PlanningFails, Runs, progress, AfterPlanner, FailState
<1>1. TypeOK'
  BY DEF TypeOK, Nodes, PlanStatuses, Bundle, TerminalResultStatuses
<1>2. FreshInv' /\ ResultsInv' /\ ProgressInv'
  BY DEF FreshInv, ResultsInv, ProgressInv
<1>3. bundle' \in Bundle /\ bundle'.status = "error"
  BY DEF Bundle, TerminalResultStatuses
<1>4. node' = "final_result_bundle" /\ stepResults' = << >> /\ toolResult' = NoResult
  BY DEF FreshInv
<1>5. NodeInv' /\ SuccessInv'
  BY <1>3, <1>4, NoneAssumption DEF NodeInv, Running, SuccessInv
<1>6. SuperstepsInv'
  BY <1>4 DEF SuperstepsInv, TypeOK
<1> QED BY <1>1, <1>2, <1>5, <1>6

LEMMA PlannerIInv == IInv /\ RuntimeObligationPlanner => IInv'
<1> SUFFICES ASSUME IInv, RuntimeObligationPlanner PROVE IInv'
  OBVIOUS
<1> USE DEF IInv, RuntimeObligationPlanner, Runs, progress, AfterPlanner
<1>1. plan' \in RawPlan /\ plan' # NoPlan
  BY PlansAssumption, NoneAssumption
<1>2. TypeOK'
  BY <1>1 DEF TypeOK, Nodes, PlanStatuses
<1>3. FreshInv' /\ ResultsInv' /\ ProgressInv'
  BY DEF FreshInv, ResultsInv, ProgressInv
<1>4. node' = "multi_step_runtime_executor" /\ ~Stopped'
  BY DEF Stopped
<1>5. NodeInv'
  BY <1>1, <1>4 DEF NodeInv, FreshInv, Running
<1>6. SuccessInv'
  BY <1>4 DEF SuccessInv, FreshInv
<1>7. SuperstepsInv'
  BY <1>4 DEF SuperstepsInv, FreshInv
<1> QED BY <1>2, <1>3, <1>5, <1>6, <1>7

\* Executor visits that end the run: the routing is to the bundle, the
\* results stay as they are.
LEMMA ExecutorEndsIInv ==
  IInv /\ (ExecutorPassesThrough \/ ExecutorRejectsPlan \/ ExecutorStopsAtFailure
           \/ ExecutorRejectsSqlOutput) => IInv'
<1> SUFFICES ASSUME IInv,
                    ExecutorPassesThrough \/ ExecutorRejectsPlan \/ ExecutorStopsAtFailure
                      \/ ExecutorRejectsSqlOutput
             PROVE  IInv'
  OBVIOUS
<1> USE DEF IInv, ExecutorPassesThrough, ExecutorRejectsPlan, ExecutorStopsAtFailure,
            ExecutorRejectsSqlOutput, Runs, progress, AfterExecutor, FailState
<1>1. /\ node = "multi_step_runtime_executor" /\ node' = "final_result_bundle"
      /\ UNCHANGED <<request, plan, progress, toolResult>>
      /\ supersteps' = supersteps + 1
  BY DEF Stopped
<1>2. TypeOK'
  <2>1. /\ currentStep' \in RawStep \cup {NoStep} /\ child' \in ChildResult \cup {NoChild}
        /\ planStatus' \in PlanStatuses
    BY DEF TypeOK, PlanStatuses
  <2>2. bundle' \in Bundle \cup {NoBundle}
    BY DEF TypeOK, Bundle, TerminalResultStatuses
  <2> QED BY <1>1, <2>1, <2>2 DEF TypeOK, Nodes
<1>3. FreshInv' /\ ResultsInv' /\ ProgressInv'
  BY <1>1 DEF FreshInv, ResultsInv, ProgressInv, Passed
<1>4. plan # NoPlan /\ toolResult = NoResult
  BY <1>1 DEF NodeInv, Running
<1>5. bundle' # NoBundle => bundle'.status # "success"
  BY <1>1 DEF NodeInv
<1>6. bundle' = NoBundle => ValidPlan(plan) /\ ChildFailed(stepResults)
  <2>1. CASE ExecutorPassesThrough
    BY <2>1 DEF NodeInv
  <2>2. CASE ExecutorRejectsPlan \/ ExecutorRejectsSqlOutput
    <3>1. bundle' \in Bundle
      BY <2>2 DEF Bundle, TerminalResultStatuses
    <3> QED BY <3>1, NoneAssumption
  <2>3. CASE ExecutorStopsAtFailure
    BY <2>3
  <2> QED BY <2>1, <2>2, <2>3
<1>7. NodeInv'
  BY <1>1, <1>4, <1>5, <1>6 DEF NodeInv, Running, ChildFailed
<1>8. SuccessInv'
  BY <1>1, <1>4 DEF SuccessInv
<1>9. SuperstepsInv'
  BY <1>1 DEF SuperstepsInv, TypeOK
<1> QED BY <1>2, <1>3, <1>7, <1>8, <1>9

\* The visits that schedule: after k passed results step k + 1 is handed out,
\* and after the last executable step the run is complete or refused.
LEMMA SchedulesIInv == IInv /\ ExecutorSchedules => IInv'
<1> SUFFICES ASSUME IInv, ExecutorSchedules PROVE IInv'
  OBVIOUS
<1> DEFINE k == Len(stepResults)
           n == Len(plan.steps)
<1> USE DEF IInv, ExecutorSchedules, Runs
<1>1. /\ node = "multi_step_runtime_executor" /\ ~Stopped
      /\ bundle = NoBundle /\ child = NoChild /\ currentStep = NoStep
      /\ plan # NoPlan /\ plan \in RawPlan /\ ValidPlan(plan) /\ toolResult = NoResult
  BY DEF NodeInv, Running, TypeOK
<1>2. /\ n \in 1..MaxRuntimeSteps /\ DOMAIN plan.steps = 1..n
      /\ ExecutableAt(plan) = 1..(n - 1) /\ plan.steps \in Seq(RawStep)
  BY <1>1, ValidPlanShape DEF RawPlan
<1>3. /\ stepResults \in Seq(StepResult) /\ k \in Nat /\ DOMAIN stepResults = 1..k
  BY DEF TypeOK
<1>4. k < n
  BY <1>2, <1>3 DEF ResultsInv
<1>5. AllPassed
  <2>1. ASSUME NEW j \in DOMAIN stepResults
        PROVE  Passed(stepResults[j])
    <3>1. CASE j < k
      BY <3>1, <1>3, <2>1 DEF ResultsInv
    <3>2. CASE j = k
      <4>1. stepResults[j].status = "success"
        BY <3>2, <2>1 DEF ChildFailed
      <4>2. stepResults[j].type = "sql" => stepResults[j].output = "material"
        BY <3>2, <2>1 DEF LastIsSql, SqlOutputPassesGate
      <4> QED BY <4>1, <4>2 DEF Passed
    <3> QED BY <3>1, <3>2, <2>1, <1>3
  <2> QED BY <2>1 DEF AllPassed
<1>6. completed = FirstIds(plan, k)
  <2>1. \A j \in 1..k : stepResults[j].status = "success" /\ stepResults[j].step = plan.steps[j].id
    BY <1>3, <1>5 DEF AllPassed, Passed, ResultsInv
  <2> QED BY <2>1, <1>3 DEF ProgressInv, FirstIds
<1>7. covered' \subseteq ObligationIds
  <2>1. NewlyCovered(plan, stepResults) \subseteq ObligationsOf(plan)
    BY <1>1 DEF NewlyCovered, ValidPlan, AssignmentsExact
  <2>2. ObligationsOf(plan) \subseteq ObligationIds
    BY <1>1 DEF ValidPlan, ObligationsWellFormed
  <2> QED BY <2>1, <2>2 DEF TypeOK
<1>8. CASE k + 1 < n
  <2>1. /\ k + 1 \in Ready(plan, completed)
        /\ \A j \in Ready(plan, completed) : k + 1 <= j
    BY <1>1, <1>3, <1>6, <1>8, NextStepReady
  <2>2. \A i \in Ready(plan, completed) : (\A j \in Ready(plan, completed) : i <= j) => i = k + 1
    BY <2>1, <1>2, <1>3 DEF Ready
  <2>3. currentStep' = plan.steps[k + 1] /\ planStatus' = "running" /\ bundle' = NoBundle
    BY <2>1, <2>2, <1>1
  <2>4. plan.steps[k + 1] \in RawStep /\ plan.steps[k + 1] # NoStep
    BY <1>2, <1>3, <1>8, NoneAssumption
  <2>5. node' = "perform_rag_sql" /\ ~Stopped'
    BY <2>3, <2>4 DEF AfterExecutor, Stopped
  <2>6. TypeOK'
    BY <1>7, <2>3, <2>4, <2>5, <1>1 DEF TypeOK, Nodes, PlanStatuses
  <2>7. FreshInv' /\ ResultsInv' /\ ProgressInv'
    BY <2>5 DEF FreshInv, ResultsInv, ProgressInv, Passed
  <2>8. NodeInv'
    BY <2>3, <2>5, <1>1, <1>5, <1>8 DEF NodeInv, Running, AllPassed, Passed
  <2>9. SuccessInv' /\ SuperstepsInv'
    BY <2>5, <1>1, <1>3 DEF SuccessInv, SuperstepsInv
  <2> QED BY <2>6, <2>7, <2>8, <2>9
<1>9. CASE k + 1 = n
  <2>1. Ready(plan, completed) = {} /\ ExecutableIds(plan) \subseteq completed
    BY <1>1, <1>3, <1>6, <1>9, NoStepLeft
  <2>2. /\ currentStep' = NoStep
        /\ \/ planStatus' = "complete" /\ bundle' = NoBundle
           \/ planStatus' = "invalid_plan" /\ bundle' = [status |-> "validation_failed", material |-> {}]
    BY <2>1, <1>1 DEF FailState
  <2>3. node' = "final_result_bundle"
    BY <2>2 DEF AfterExecutor
  <2>4. TypeOK'
    BY <1>7, <2>2, <2>3, <1>1 DEF TypeOK, Nodes, PlanStatuses, Bundle, TerminalResultStatuses
  <2>5. FreshInv' /\ ResultsInv' /\ ProgressInv'
    BY <2>3 DEF FreshInv, ResultsInv, ProgressInv, Passed
  <2>6. NodeInv'
    BY <2>2, <2>3, <1>1, <1>5, <1>9 DEF NodeInv, Running, AllPassed, Passed
  <2>7. SuccessInv' /\ SuperstepsInv'
    BY <2>3, <1>1, <1>3 DEF SuccessInv, SuperstepsInv
  <2> QED BY <2>4, <2>5, <2>6, <2>7
<1> QED BY <1>2, <1>3, <1>4, <1>8, <1>9

LEMMA PerformIInv == IInv /\ PerformRagSql => IInv'
<1> SUFFICES ASSUME IInv, PerformRagSql PROVE IInv'
  OBVIOUS
<1> USE DEF IInv, PerformRagSql, Runs, progress, FailState
<1>1. /\ node = "perform_rag_sql" /\ node' = "normalizer_transformer"
      /\ plan # NoPlan /\ ValidPlan(plan) /\ plan \in RawPlan /\ toolResult = NoResult
      /\ bundle = NoBundle /\ child = NoChild /\ ~Stopped /\ AllPassed
      /\ currentStep = plan.steps[Len(stepResults) + 1]
      /\ Len(stepResults) + 1 < Len(plan.steps)
  BY DEF NodeInv, Running, TypeOK
<1>2. currentStep.type \in {"rag", "sql"}
  BY <1>1, ValidPlanShape, MaxRuntimeStepsAssumption DEF TypeOK, ExecutableAt, Executable
<1>3. PerformFault(currentStep) \in {"none", "invalid_plan", "blocked"}
  BY DEF PerformFault
<1>4. \/ /\ child' \in ChildResults(currentStep.type) /\ child' \in ChildResult
         /\ ~Stopped' /\ bundle' = NoBundle /\ planStatus' = planStatus
      \/ /\ child' = NoChild /\ Stopped' /\ bundle' \in Bundle /\ bundle'.status # "success"
         /\ planStatus' \in PlanStatuses
  <2>1. CASE PerformFault(currentStep) = "none"
    BY <2>1, <1>1 DEF ChildResults, ChildResult, Outputs, TerminalResultStatuses, Stopped
  <2>2. CASE PerformFault(currentStep) # "none"
    BY <2>2, <1>1, <1>3 DEF Bundle, TerminalResultStatuses, Stopped, PlanStatuses
  <2> QED BY <2>1, <2>2
<1>5. TypeOK'
  BY <1>1, <1>4 DEF TypeOK, Nodes
<1>6. FreshInv' /\ ResultsInv' /\ ProgressInv'
  BY <1>1 DEF FreshInv, ResultsInv, ProgressInv, Passed
<1>7. NodeInv'
  BY <1>1, <1>4, NoneAssumption DEF NodeInv, Running, AllPassed, Passed
<1>8. SuccessInv' /\ SuperstepsInv'
  BY <1>1 DEF SuccessInv, SuperstepsInv, TypeOK
<1> QED BY <1>5, <1>6, <1>7, <1>8

LEMMA ChildRaisesIInv == IInv /\ ChildRaises => IInv'
<1> SUFFICES ASSUME IInv, ChildRaises PROVE IInv'
  OBVIOUS
<1> USE DEF IInv, ChildRaises, Runs, progress
<1>1. TypeOK'
  BY DEF TypeOK, Nodes
<1>2. FreshInv' /\ ResultsInv' /\ ProgressInv'
  BY DEF FreshInv, ResultsInv, ProgressInv, Passed
<1>3. NodeInv' /\ SuccessInv' /\ SuperstepsInv'
  BY DEF NodeInv, Running, SuccessInv, SuperstepsInv, TypeOK
<1> QED BY <1>1, <1>2, <1>3

LEMMA NormalizerIInv == IInv /\ NormalizerTransformer => IInv'
<1> SUFFICES ASSUME IInv, NormalizerTransformer PROVE IInv'
  OBVIOUS
<1> DEFINE k == Len(stepResults)
           outcome == IF child = NoChild
                      THEN [status |-> "validation_failed", output |-> "none"] ELSE child
           result == [step |-> currentStep.id, type |-> currentStep.type,
                      status |-> outcome.status, output |-> outcome.output]
<1> USE DEF IInv, NormalizerTransformer, Runs
<1>1. /\ node = "normalizer_transformer" /\ node' = "multi_step_runtime_executor"
      /\ plan # NoPlan /\ ValidPlan(plan) /\ plan \in RawPlan /\ toolResult = NoResult
      /\ AllPassed /\ currentStep = plan.steps[k + 1] /\ k + 1 < Len(plan.steps)
      /\ stepResults \in Seq(StepResult) /\ k \in Nat /\ DOMAIN stepResults = 1..k
  BY DEF NodeInv, Running, TypeOK
<1>2. /\ currentStep.type \in {"rag", "sql"} /\ currentStep.id \in StepIds
      /\ ToSet(currentStep.obls) \subseteq ObligationIds
  <2>1. k + 1 \in ExecutableAt(plan) /\ k + 1 \in DOMAIN plan.steps
    BY <1>1, ValidPlanShape, MaxRuntimeStepsAssumption
  <2> QED BY <1>1, <2>1 DEF ExecutableAt, Executable, ValidPlan, StepsWellFormed,
                            AssignmentsExact, ObligationsWellFormed
<1>3. outcome \in ChildResult
  BY DEF TypeOK, ChildResult, TerminalResultStatuses, Outputs
<1>4. result \in StepResult /\ stepResults' = Append(stepResults, result)
  BY <1>2, <1>3 DEF StepResult, ChildResult
<1>5. /\ stepResults' \in Seq(StepResult) /\ Len(stepResults') = k + 1
      /\ DOMAIN stepResults' = 1..(k + 1)
      /\ stepResults'[k + 1] = result
      /\ \A j \in 1..k : stepResults'[j] = stepResults[j]
  BY <1>1, <1>4
<1>6. TypeOK'
  <2>1. completed' \subseteq StepIds /\ depContext' \subseteq StepIds
    BY <1>2 DEF TypeOK, CompletedAfter
  <2>2. covered' \subseteq ObligationIds
    BY <1>2 DEF TypeOK
  <2> QED BY <1>1, <1>5, <2>1, <2>2 DEF TypeOK, Nodes
<1>7. FreshInv'
  BY <1>1 DEF FreshInv
<1>8. ResultsInv'
  <2>1. \A j \in DOMAIN stepResults' : j < k + 1 => Passed(stepResults'[j])
    BY <1>1, <1>5 DEF AllPassed
  <2>2. \A j \in DOMAIN stepResults' : /\ stepResults'[j].step = plan.steps[j].id
                                       /\ stepResults'[j].type = plan.steps[j].type
    <3>1. \A j \in 1..k : /\ stepResults[j].step = plan.steps[j].id
                          /\ stepResults[j].type = plan.steps[j].type
      BY <1>1 DEF ResultsInv
    <3> QED BY <3>1, <1>1, <1>5
  <2> QED BY <2>1, <2>2, <1>1, <1>5 DEF ResultsInv, Passed
<1>9. ProgressInv'
  <2>1. depContext' = completed'
    BY DEF ProgressInv, CompletedAfter
  <2>2. completed' = completed \cup (IF result.status = "success" THEN {result.step} ELSE {})
    BY DEF CompletedAfter
  <2>3. {stepResults'[j].step : j \in {l \in DOMAIN stepResults' : stepResults'[l].status = "success"}}
          = completed \cup (IF result.status = "success" THEN {result.step} ELSE {})
    BY <1>1, <1>5 DEF ProgressInv
  <2> QED BY <2>1, <2>2, <2>3 DEF ProgressInv
<1>10. NodeInv'
  BY <1>1 DEF NodeInv, Running, Stopped
<1>11. SuccessInv' /\ SuperstepsInv'
  BY <1>1, <1>5 DEF SuccessInv, SuperstepsInv
<1> QED BY <1>6, <1>7, <1>8, <1>9, <1>10, <1>11

\* With the first results passed and only the last perhaps not, the bundle's
\* status is success only when every result is.
LEMMA BundleIInv == IInv /\ FinalResultBundle => IInv'
<1> SUFFICES ASSUME IInv, FinalResultBundle PROVE IInv'
  OBVIOUS
<1> USE DEF IInv, FinalResultBundle, Runs, progress
<1>1. /\ node = "final_result_bundle" /\ node' = "adapter" /\ toolResult = NoResult
      /\ stepResults \in Seq(StepResult) /\ DOMAIN stepResults = 1..Len(stepResults)
      /\ UNCHANGED <<request, plan, planStatus, currentStep, child, progress, toolResult>>
  BY DEF NodeInv, TypeOK
<1>2. /\ StatusFromStepResults(stepResults) \in TerminalResultStatuses
      /\ ChildFailed(stepResults) => StatusFromStepResults(stepResults) # "success"
  <2> DEFINE statuses == {stepResults[i].status : i \in DOMAIN stepResults}
             present == {j \in DOMAIN StatusOrder : StatusOrder[j] \in statuses}
             least == CHOOSE j \in present : \A l \in present : j <= l
  <2>1. DOMAIN StatusOrder = 1..4 /\ present \subseteq 1..4
    BY DEF StatusOrder
  <2>2. present # {} => least \in 1..4
    <3>1. present # {} => \E j \in present : \A l \in present : j <= l
      <4>1. CASE 1 \in present
        BY <4>1, <2>1
      <4>2. CASE 1 \notin present /\ 2 \in present
        BY <4>2, <2>1
      <4>3. CASE 1 \notin present /\ 2 \notin present /\ 3 \in present
        BY <4>3, <2>1
      <4>4. CASE 1 \notin present /\ 2 \notin present /\ 3 \notin present
        BY <4>4, <2>1
      <4> QED BY <4>1, <4>2, <4>3, <4>4
    <3> QED BY <3>1, <2>1
  <2>3. present # {} => StatusOrder[least] \in TerminalResultStatuses \ {"success"}
    BY <2>2 DEF StatusOrder, TerminalResultStatuses
  <2>4. ChildFailed(stepResults) => present # {}
    <3>1. SUFFICES ASSUME ChildFailed(stepResults) PROVE present # {}
      OBVIOUS
    <3>2. /\ stepResults[Len(stepResults)].status \in statuses
          /\ stepResults[Len(stepResults)].status \in TerminalResultStatuses \ {"success"}
      <4>1. stepResults # << >> /\ stepResults[Len(stepResults)].status # "success"
        BY <3>1 DEF ChildFailed
      <4>2. Len(stepResults) \in DOMAIN stepResults
        BY <4>1, <1>1
      <4>3. stepResults[Len(stepResults)] \in StepResult
        BY <4>2, <1>1
      <4> QED BY <4>1, <4>2, <4>3 DEF StepResult
    <3> QED BY <3>2, <2>1 DEF StatusOrder, TerminalResultStatuses
  <2>5. StatusFromStepResults(stepResults) =
          IF stepResults = << >> THEN "insufficient_evidence"
          ELSE IF present = {} THEN "success" ELSE StatusOrder[least]
    BY DEF StatusFromStepResults
  <2>6. ChildFailed(stepResults) => stepResults # << >>
    BY DEF ChildFailed
  <2> HIDE DEF present, least
  <2> QED BY <2>3, <2>4, <2>5, <2>6 DEF TerminalResultStatuses
<1>3. MaterialOf(stepResults) \subseteq StepIds
  <2>1. \A j \in DOMAIN stepResults : stepResults[j].step \in StepIds
    <3>1. \A j \in DOMAIN stepResults : stepResults[j] \in StepResult
      BY <1>1
    <3> QED BY <3>1 DEF StepResult
  <2> QED BY <2>1 DEF MaterialOf
<1>4. /\ bundle' \in Bundle
      /\ bundle'.status = "success" =>
           /\ plan # NoPlan /\ ValidPlan(plan) /\ AllPassed
           /\ Len(stepResults) + 1 = Len(plan.steps)
  <2>1. CASE bundle = NoBundle
    <3>1. bundle' = [status |-> IF StatusFromStepResults(stepResults) = "success"
                                   /\ MaterialOf(stepResults) = {}
                                THEN "insufficient_evidence"
                                ELSE StatusFromStepResults(stepResults),
                     material |-> MaterialOf(stepResults)]
      BY <2>1
    <3>2. bundle' \in Bundle
      BY <3>1, <1>2, <1>3 DEF Bundle, TerminalResultStatuses
    <3>3. bundle'.status = "success" => StatusFromStepResults(stepResults) = "success"
      BY <3>1
    <3> QED BY <2>1, <3>2, <3>3, <1>1, <1>2 DEF NodeInv
  <2>2. CASE bundle # NoBundle
    BY <2>2, <1>1 DEF NodeInv, TypeOK
  <2> QED BY <2>1, <2>2
<1>5. TypeOK'
  BY <1>1, <1>4 DEF TypeOK, Nodes
<1>6. FreshInv' /\ ResultsInv' /\ ProgressInv'
  BY <1>1 DEF FreshInv, ResultsInv, ProgressInv, Passed
<1>7. NodeInv'
  BY <1>1, <1>4, NoneAssumption DEF NodeInv, Running
<1>8. SuccessInv'
  BY <1>1, <1>4 DEF SuccessInv, AllPassed, Passed
<1>9. SuperstepsInv'
  BY <1>1 DEF SuperstepsInv, TypeOK
<1> QED BY <1>5, <1>6, <1>7, <1>8, <1>9

LEMMA AdapterIInv == IInv /\ Adapter => IInv'
<1> SUFFICES ASSUME IInv, Adapter PROVE IInv'
  OBVIOUS
<1> USE DEF IInv, Adapter, Runs, progress
<1>1. node = "adapter" /\ node' = "END" /\ bundle \in Bundle /\ bundle' = bundle
  BY DEF NodeInv, TypeOK
<1>2. TypeOK'
  BY <1>1 DEF TypeOK, Nodes
<1>3. FreshInv' /\ ResultsInv' /\ ProgressInv'
  BY <1>1 DEF FreshInv, ResultsInv, ProgressInv, Passed
<1>4. NodeInv'
  BY <1>1 DEF NodeInv, Running
<1>5. SuccessInv'
  BY <1>1 DEF SuccessInv, AllPassed, Passed
<1>6. SuperstepsInv'
  BY <1>1 DEF SuperstepsInv, TypeOK
<1> QED BY <1>2, <1>3, <1>4, <1>5, <1>6

LEMMA StutterIInv == IInv /\ UNCHANGED vars => IInv'
<1> SUFFICES ASSUME IInv, UNCHANGED vars PROVE IInv'
  OBVIOUS
<1> USE DEF IInv, vars
<1>1. TypeOK'
  BY DEF TypeOK
<1>2. FreshInv' /\ ResultsInv' /\ ProgressInv'
  BY DEF FreshInv, ResultsInv, ProgressInv, Passed
<1>3. NodeInv'
  BY DEF NodeInv, Running, Stopped, AllPassed, Passed
<1>4. SuccessInv' /\ SuperstepsInv'
  BY DEF SuccessInv, SuperstepsInv, AllPassed, Passed
<1> QED BY <1>1, <1>2, <1>3, <1>4

\* The inductive invariant of the sql_rag tool graph.
THEOREM Invariance == Spec => []IInv
<1>1. IInv /\ [Next]_vars => IInv'
  BY AgentIInv, PlanningFailsIInv, PlannerIInv, ExecutorEndsIInv, SchedulesIInv, PerformIInv,
     ChildRaisesIInv, NormalizerIInv, BundleIInv, AdapterIInv, StutterIInv
  DEF Next, Step, Executor, Done
<1> QED BY InitIInv, <1>1, PTL DEF Spec

-----------------------------------------------------------------------------
(* What follows. *)

\* Every field of the tool's state keeps its type through every node.
THEOREM TypeCorrect == Spec => []TypeOK
<1>1. IInv => TypeOK
  BY DEF IInv
<1> QED BY Invariance, <1>1, PTL

\* The k-th child workflow run is the k-th step of the plan: the executor's
\* search for a ready step never skips, reorders or repeats one.
THEOREM PlanOrder == Spec => []RunsInPlanOrder
<1>1. IInv => RunsInPlanOrder
  <2> SUFFICES ASSUME IInv, stepResults # << >> PROVE RunsInPlanOrder
    BY DEF IInv, TypeOK, RunsInPlanOrder
  <2>1. /\ Len(plan.steps) \in Nat /\ stepResults \in Seq(StepResult)
        /\ Len(stepResults) < Len(plan.steps)
    BY ValidPlanShape, MaxRuntimeStepsAssumption DEF IInv, ResultsInv, TypeOK
  <2> QED BY <2>1 DEF IInv, ResultsInv, RunsInPlanOrder
<1> QED BY Invariance, <1>1, PTL

\* After a child failed, or its sql output failed the coverage gate, no other
\* child workflow is run.
THEOREM FailureStops == Spec => []FirstFailureStops
<1>1. IInv => FirstFailureStops
  BY DEF IInv, ResultsInv, NodeInv, AllPassed, FirstFailureStops
<1> QED BY Invariance, <1>1, PTL

\* A reported success is earned: each obligation of the plan was discharged by
\* the step it is assigned to, with an output that passed.
THEOREM EarnedSuccess == Spec => []SuccessIsEarned
<1>1. IInv => SuccessIsEarned
  <2> SUFFICES ASSUME IInv, toolResult # NoResult, toolResult.status = "success"
               PROVE  SuccessIsEarned
    BY DEF SuccessIsEarned
  <2>1. /\ plan # NoPlan /\ plan \in RawPlan /\ ValidPlan(plan) /\ AllPassed
        /\ Len(stepResults) + 1 = Len(plan.steps)
        /\ stepResults \in Seq(StepResult)
    BY DEF IInv, SuccessInv, TypeOK
  <2>2. ExecutableAt(plan) = DOMAIN stepResults
    BY <2>1, ValidPlanShape, MaxRuntimeStepsAssumption
  <2>3. \A o \in ObligationsOf(plan) : \E i \in ExecutableAt(plan) : o \in ToSet(plan.steps[i].obls)
    BY <2>1 DEF ValidPlan, AssignmentsExact
  <2> QED BY <2>1, <2>2, <2>3 DEF SuccessIsEarned, AllPassed
<1> QED BY Invariance, <1>1, PTL

\* The tool graph runs at most 3 * MaxRuntimeSteps + 2 nodes, so it ends.
THEOREM BoundedSupersteps == Spec => []SuperstepsBounded
<1>1. IInv => SuperstepsBounded
  <2> SUFFICES ASSUME IInv PROVE SuperstepsBounded
    OBVIOUS
  <2>1. Len(stepResults) \in Nat /\ Len(stepResults) <= MaxRuntimeSteps - 1
    <3>1. CASE stepResults = << >>
      BY <3>1, MaxRuntimeStepsAssumption
    <3>2. CASE stepResults # << >>
      BY <3>2, ValidPlanShape, MaxRuntimeStepsAssumption DEF IInv, ResultsInv, TypeOK
    <3> QED BY <3>1, <3>2
  <2>2. supersteps <= 5 + 3 * Len(stepResults)
    BY <2>1 DEF IInv, SuperstepsInv, TypeOK, Nodes
  <2> QED BY <2>1, <2>2, MaxRuntimeStepsAssumption DEF SuperstepsBounded, IInv, TypeOK
<1> QED BY Invariance, <1>1, PTL

-----------------------------------------------------------------------------
(* Coverage, causes and the plan *)

\* The results whose obligations are covered.  A rag result is at once, an sql
\* result only at the executor's next visit, which looks at its output.
CoveredResults ==
  {k \in DOMAIN stepResults :
     /\ Passed(stepResults[k])
     /\ \/ k < Len(stepResults)
        \/ stepResults[k].type = "rag"
        \/ node # "multi_step_runtime_executor"}

\* Covered is what these results earned, neither less nor more.
CoverageInv ==
  /\ \A k \in CoveredResults : ToSet(plan.steps[k].obls) \subseteq covered
  /\ \A o \in covered : \E k \in CoveredResults : o \in ToSet(plan.steps[k].obls)

\* No step is current but between the executor and the normaliser, and what
\* was stopped when the executor is visited was stopped by the last step.
CurrentInv ==
  /\ node \in {"multi_step_runtime_executor", "final_result_bundle", "adapter", "END"} =>
       currentStep = NoStep
  /\ node = "multi_step_runtime_executor" /\ Stopped => ChildFailed(stepResults)
  /\ node = "raised" =>
       /\ ValidPlan(plan) /\ plan # NoPlan /\ ~Stopped
       /\ Len(stepResults) + 1 < Len(plan.steps)
       /\ currentStep = plan.steps[Len(stepResults) + 1]
  /\ node = "sql_rag_agent" => planStatus = "unset"
  /\ node = "runtime_obligation_planner" => planStatus = "not_started"

\* A failure bundle that a failed step has brought about has its status.
ReportInv ==
  /\ bundle # NoBundle /\ ChildFailed(stepResults) =>
       bundle.status = stepResults[Len(stepResults)].status
  /\ node = "normalizer_transformer" /\ child = NoChild => bundle.status = "validation_failed"

CauseInv ==
  /\ CoverageInv
  /\ CurrentInv
  /\ ReportInv
  /\ StopsForACause

LEMMA InitCauseInv == Init => CauseInv
  BY DEF Init, CauseInv, CoverageInv, CoveredResults, CurrentInv, ReportInv, ChildFailed,
         StopsForACause

\* What the fields are while steps are run.
LEMMA ResultsAndPlan ==
  ASSUME IInv
  PROVE  /\ stepResults \in Seq(StepResult) /\ Len(stepResults) \in Nat
         /\ DOMAIN stepResults = 1..Len(stepResults)
         /\ plan # NoPlan => plan \in RawPlan
         /\ plan # NoPlan /\ ValidPlan(plan) =>
              /\ Len(plan.steps) \in 1..MaxRuntimeSteps
              /\ DOMAIN plan.steps = 1..Len(plan.steps)
              /\ ExecutableAt(plan) = 1..(Len(plan.steps) - 1)
  BY ValidPlanShape DEF IInv, TypeOK

\* An executable step of a valid plan: its fields are well formed.
LEMMA PlanStep ==
  ASSUME NEW p \in RawPlan, ValidPlan(p), NEW i \in 1..(Len(p.steps) - 1)
  PROVE  /\ p.steps[i] \in RawStep /\ p.steps[i] # NoStep
         /\ p.steps[i].id \in StepIds
         /\ p.steps[i].type \in {"rag", "sql"}
         /\ ToSet(p.steps[i].obls) # {}
         /\ \A j \in 1..(Len(p.steps) - 1) :
              j # i => /\ p.steps[j].id # p.steps[i].id
                       /\ ToSet(p.steps[i].obls) \cap ToSet(p.steps[j].obls) = {}
<1>1. /\ i \in ExecutableAt(p) /\ i \in DOMAIN p.steps /\ p.steps \in Seq(RawStep)
      /\ ExecutableAt(p) = 1..(Len(p.steps) - 1) /\ ExecutableAt(p) \subseteq DOMAIN p.steps
  BY ValidPlanShape DEF RawPlan, ExecutableAt
<1>2. p.steps[i] \in RawStep /\ p.steps[i] # NoStep
  BY <1>1, NoneAssumption
<1>3. p.steps[i].id \in StepIds /\ p.steps[i].type \in {"rag", "sql"}
  BY <1>1 DEF ValidPlan, StepsWellFormed, ExecutableAt, Executable
<1>4. ToSet(p.steps[i].obls) # {}
  <2>1. p.steps[i].obls \in Seq(ObligationIds \cup {"bad_id"}) /\ p.steps[i].obls # << >>
    BY <1>1, <1>2 DEF RawStep, ValidPlan, AssignmentsExact
  <2>2. p.steps[i].obls[1] \in ToSet(p.steps[i].obls)
    BY <2>1 DEF ToSet
  <2> QED BY <2>2
<1>5. \A j \in 1..(Len(p.steps) - 1) :
        j # i => /\ p.steps[j].id # p.steps[i].id
                 /\ ToSet(p.steps[i].obls) \cap ToSet(p.steps[j].obls) = {}
  BY <1>1 DEF ValidPlan, StepsWellFormed, AssignmentsExact
<1> QED BY <1>2, <1>3, <1>4, <1>5

\* Before the first visit there is nothing to cover or to report.
LEMMA BeforeExecutorCause ==
  IInv /\ CauseInv /\ (SqlRagAgent \/ PlanningFails \/ RuntimeObligationPlanner) => CauseInv'
<1> SUFFICES ASSUME IInv, CauseInv, SqlRagAgent \/ PlanningFails \/ RuntimeObligationPlanner
             PROVE  CauseInv'
  OBVIOUS
<1> USE DEF SqlRagAgent, PlanningFails, RuntimeObligationPlanner, Runs, progress, FailState
<1>1. /\ stepResults' = << >> /\ covered' = {} /\ currentStep' = NoStep
      /\ node' \in {"runtime_obligation_planner", "multi_step_runtime_executor",
                    "final_result_bundle"}
      /\ node' = "multi_step_runtime_executor" => planStatus' = "planned"
      /\ node' = "runtime_obligation_planner" => planStatus' = "not_started"
      /\ plan' = NoPlan \/ planStatus' = "planned"
  BY DEF IInv, FreshInv, AfterAgent, AfterPlanner
<1>2. CoverageInv'
  BY <1>1 DEF CoverageInv, CoveredResults
<1>3. CurrentInv' /\ ReportInv' /\ StopsForACause'
  BY <1>1 DEF CurrentInv, ReportInv, ChildFailed, Stopped, StopsForACause
<1> QED BY <1>2, <1>3 DEF CauseInv

\* A visit that ends the run: for a plan that is not valid nothing has run, else
\* the last result did not pass.
LEMMA ExecutorEndsCause ==
  IInv /\ CauseInv
    /\ (ExecutorPassesThrough \/ ExecutorRejectsPlan \/ ExecutorStopsAtFailure
        \/ ExecutorRejectsSqlOutput) => CauseInv'
<1> SUFFICES ASSUME IInv, CauseInv,
                    ExecutorPassesThrough \/ ExecutorRejectsPlan \/ ExecutorStopsAtFailure
                      \/ ExecutorRejectsSqlOutput
             PROVE  CauseInv'
  OBVIOUS
<1> DEFINE k == Len(stepResults)
<1> USE DEF ExecutorPassesThrough, ExecutorRejectsPlan, ExecutorStopsAtFailure,
            ExecutorRejectsSqlOutput, Runs, progress, FailState
<1>1. /\ node = "multi_step_runtime_executor" /\ node' = "final_result_bundle"
      /\ currentStep = NoStep /\ currentStep' = NoStep
      /\ UNCHANGED <<plan, stepResults, covered>>
      /\ k \in Nat /\ DOMAIN stepResults = 1..k
  BY ResultsAndPlan DEF CauseInv, CurrentInv, AfterExecutor, Stopped
<1>2. CASE ~ValidPlan(plan)
  <2>1. stepResults = << >> /\ covered = {}
    BY <1>2 DEF IInv, ResultsInv, CauseInv, CoverageInv, CoveredResults
  <2> QED BY <1>1, <1>2, <2>1
          DEF CauseInv, CoverageInv, CoveredResults, CurrentInv, ReportInv, ChildFailed,
              StopsForACause
<1>3. CASE ValidPlan(plan)
  <2>1. k \in DOMAIN stepResults /\ ~Passed(stepResults[k])
    <3>1. stepResults # << >>
      BY <1>1, <1>3 DEF ChildFailed, LastIsSql, CauseInv, CurrentInv
    <3>2. ~Passed(stepResults[k])
      BY <1>1, <1>3 DEF CauseInv, CurrentInv, ChildFailed, LastIsSql, SqlOutputPassesGate, Passed
    <3>3. stepResults \in Seq(StepResult)
      BY ResultsAndPlan
    <3> QED BY <1>1, <3>1, <3>2, <3>3
  <2>2. CoveredResults' = CoveredResults
    BY <1>1, <2>1 DEF CoveredResults, Passed
  <2>3. CoverageInv'
    BY <1>1, <2>2 DEF CauseInv, CoverageInv
  <2>4. bundle' # bundle => ~ChildFailed(stepResults)
    BY <1>3
  <2>5. CurrentInv' /\ ReportInv'
    BY <1>1, <2>4 DEF CauseInv, CurrentInv, ReportInv, ChildFailed
  <2>6. StopsForACause'
    BY <1>1, <2>1 DEF StopsForACause, Passed
  <2> QED BY <2>3, <2>5, <2>6 DEF CauseInv
<1> QED BY <1>2, <1>3

\* A visit that schedules finds every result passed, covers the last of them,
\* and so either hands out step k + 1 or finds every obligation covered.
LEMMA SchedulingVisit ==
  ASSUME IInv, CauseInv, ExecutorSchedules
  PROVE  /\ plan # NoPlan /\ plan \in RawPlan /\ ValidPlan(plan) /\ AllPassed
         /\ Len(stepResults) < Len(plan.steps)
         /\ completed = FirstIds(plan, Len(stepResults))
         /\ CoveredResults' = DOMAIN stepResults
         /\ CoverageInv'
         /\ \/ /\ Len(stepResults) + 1 < Len(plan.steps)
               /\ currentStep' = plan.steps[Len(stepResults) + 1]
               /\ node' = "perform_rag_sql" /\ planStatus' = "running"
            \/ /\ Len(stepResults) + 1 = Len(plan.steps)
               /\ currentStep' = NoStep
               /\ node' = "final_result_bundle" /\ planStatus' = "complete"
         /\ bundle' = bundle
<1> DEFINE k == Len(stepResults)
           n == Len(plan.steps)
<1> USE DEF ExecutorSchedules, Runs
<1>1. /\ node = "multi_step_runtime_executor" /\ ~Stopped
      /\ plan # NoPlan /\ plan \in RawPlan /\ ValidPlan(plan)
  BY ResultsAndPlan DEF IInv, NodeInv, Running
<1>2. /\ n \in Nat /\ DOMAIN plan.steps = 1..n /\ ExecutableAt(plan) = 1..(n - 1)
      /\ k \in Nat /\ DOMAIN stepResults = 1..k /\ stepResults \in Seq(StepResult)
  BY <1>1, ResultsAndPlan, MaxRuntimeStepsAssumption
<1>3. k < n
  <2>1. n # 0
    BY <1>1, ResultsAndPlan, MaxRuntimeStepsAssumption
  <2> QED BY <1>2, <2>1 DEF IInv, ResultsInv
<1>4. AllPassed
  <2>1. ASSUME NEW j \in DOMAIN stepResults
        PROVE  Passed(stepResults[j])
    <3>1. CASE j < k
      BY <3>1 DEF IInv, ResultsInv
    <3>2. CASE j = k
      BY <3>2, <2>1 DEF ChildFailed, LastIsSql, SqlOutputPassesGate, Passed
    <3> QED BY <3>1, <3>2, <1>2
  <2> QED BY <2>1 DEF AllPassed
<1>5. completed = FirstIds(plan, k)
  <2>1. \A j \in 1..k : stepResults[j].status = "success" /\ stepResults[j].step = plan.steps[j].id
    BY <1>2, <1>4 DEF AllPassed, Passed, IInv, ResultsInv
  <2> QED BY <2>1, <1>2 DEF IInv, ProgressInv, FirstIds
<1>6. NewlyCovered(plan, stepResults) =
        IF LastIsSql(stepResults) THEN ToSet(plan.steps[k].obls) ELSE {}
  <2>1. CASE LastIsSql(stepResults)
    <3>1. k \in 1..(n - 1) /\ stepResults[k].step = plan.steps[k].id
      <4>1. k # 0
        BY <2>1, <1>2 DEF LastIsSql
      <4> QED BY <4>1, <1>2, <1>3 DEF IInv, ResultsInv
    <3>2. \A i \in 1..(n - 1) : plan.steps[i].id = plan.steps[k].id => i = k
      BY <3>1, <1>1, PlanStep
    <3>3. {i \in ExecutableAt(plan) : plan.steps[i].id = stepResults[k].step} = {k}
      BY <3>1, <3>2, <1>2
    <3>4. NewlyCovered(plan, stepResults) =
            UNION {ToSet(plan.steps[i].obls) : i \in {k}}
      BY <2>1, <3>3 DEF NewlyCovered
    <3> QED BY <2>1, <3>4
  <2>2. CASE ~LastIsSql(stepResults)
    BY <2>2 DEF NewlyCovered
  <2> QED BY <2>1, <2>2
<1>7. /\ \A j \in 1..k : ToSet(plan.steps[j].obls) \subseteq covered'
      /\ \A o \in covered' : \E j \in 1..k : o \in ToSet(plan.steps[j].obls)
  <2>1. /\ covered' = covered \cup (IF LastIsSql(stepResults)
                                    THEN ToSet(plan.steps[k].obls) ELSE {})
        /\ CoveredResults \subseteq 1..k
    BY <1>2, <1>6 DEF CoveredResults
  <2>2. ASSUME NEW j \in 1..k, j \notin CoveredResults
        PROVE  j = k /\ LastIsSql(stepResults)
    <3>1. stepResults[j] \in StepResult /\ Passed(stepResults[j]) /\ stepResults # << >>
      BY <1>2, <1>4 DEF AllPassed
    <3> HIDE DEF ExecutorSchedules
    <3>2. ~(j < k) /\ stepResults[j].type # "rag"
      BY <3>1, <1>2, <2>2 DEF CoveredResults
    <3>3. j = k
      <4>1. j \in 1..k /\ k \in Nat /\ ~(j < k)
        BY <3>2, <1>2
      <4> HIDE DEF k
      <4> QED BY <4>1
    <3> QED BY <3>1, <3>2, <3>3 DEF StepResult, LastIsSql
  <2>3. LastIsSql(stepResults) => k \in 1..k
    BY <1>2 DEF LastIsSql
  <2> QED BY <2>1, <2>2, <2>3 DEF CauseInv, CoverageInv
<1>8. ASSUME k + 1 < n
      PROVE  /\ currentStep' = plan.steps[k + 1] /\ node' = "perform_rag_sql"
             /\ planStatus' = "running" /\ bundle' = bundle
  <2>1. /\ k + 1 \in Ready(plan, completed)
        /\ \A j \in Ready(plan, completed) : k + 1 <= j
    BY <1>1, <1>2, <1>5, <1>8, NextStepReady
  <2>2. \A i \in Ready(plan, completed) : (\A j \in Ready(plan, completed) : i <= j) => i = k + 1
    BY <2>1, <1>2 DEF Ready
  <2>3. currentStep' = plan.steps[k + 1] /\ planStatus' = "running" /\ bundle' = bundle
    BY <2>1, <2>2
  <2>4. node' = "perform_rag_sql"
    <3>1. plan.steps[k + 1] # NoStep
      BY <1>1, <1>2, <1>8, PlanStep
    <3> QED BY <2>3, <3>1 DEF AfterExecutor
  <2> QED BY <2>3, <2>4
<1>9. ASSUME k + 1 = n
      PROVE  /\ currentStep' = NoStep /\ node' = "final_result_bundle"
             /\ planStatus' = "complete" /\ bundle' = bundle
  <2>1. Ready(plan, completed) = {} /\ ExecutableIds(plan) \subseteq completed
    BY <1>1, <1>2, <1>5, <1>9, NoStepLeft
  <2>2. covered' = ObligationsOf(plan)
    <3>1. ExecutableAt(plan) = 1..k
      BY <1>2, <1>9
    <3> QED BY <1>1, <1>7, <3>1 DEF ValidPlan, AssignmentsExact
  <2>3. currentStep' = NoStep /\ planStatus' = "complete" /\ bundle' = bundle
    BY <2>1, <2>2
  <2>4. node' = "final_result_bundle"
    BY <2>3 DEF AfterExecutor
  <2> QED BY <2>3, <2>4
<1>10. /\ node' # "multi_step_runtime_executor" /\ bundle' = bundle
       /\ UNCHANGED <<plan, stepResults>>
  BY <1>2, <1>3, <1>8, <1>9
<1>11. CoveredResults' = DOMAIN stepResults
  BY <1>4, <1>10 DEF CoveredResults, AllPassed, Passed
<1>12. CoverageInv'
  BY <1>2, <1>7, <1>10, <1>11 DEF CoverageInv
<1> QED BY <1>1, <1>2, <1>3, <1>4, <1>5, <1>8, <1>9, <1>10, <1>11, <1>12

LEMMA SchedulesCause == IInv /\ CauseInv /\ ExecutorSchedules => CauseInv'
<1> SUFFICES ASSUME IInv, CauseInv, ExecutorSchedules PROVE CauseInv'
  OBVIOUS
<1>1. /\ AllPassed /\ stepResults' = stepResults
      /\ stepResults \in Seq(StepResult) /\ DOMAIN stepResults = 1..Len(stepResults)
  BY SchedulingVisit, ResultsAndPlan DEF ExecutorSchedules
<1>2. ~ChildFailed(stepResults)
  BY DEF ExecutorSchedules
<1>3. CurrentInv'
  BY SchedulingVisit DEF CurrentInv
<1>4. ReportInv'
  BY <1>1, <1>2, SchedulingVisit DEF ReportInv, ChildFailed
<1>5. StopsForACause'
  BY SchedulingVisit DEF StopsForACause, Stopped
<1> QED BY <1>3, <1>4, <1>5, SchedulingVisit DEF CauseInv

\* At perform_rag_sql only a blank goal can be refused: the step is executable,
\* and all it depends on is among the steps completed.
LEMMA OnlyBlankRefused ==
  ASSUME IInv, node = "perform_rag_sql"
  PROVE  /\ plan # NoPlan /\ plan \in RawPlan /\ ValidPlan(plan)
         /\ Len(stepResults) + 1 \in 1..(Len(plan.steps) - 1)
         /\ currentStep = plan.steps[Len(stepResults) + 1] /\ currentStep # NoStep
         /\ PerformFault(currentStep) # "none" => currentStep.goal = "blank"
<1> DEFINE k == Len(stepResults)
<1>1. /\ plan # NoPlan /\ plan \in RawPlan /\ ValidPlan(plan) /\ AllPassed
      /\ k + 1 < Len(plan.steps) /\ currentStep = plan.steps[k + 1]
  BY ResultsAndPlan DEF IInv, NodeInv, Running
<1>2. /\ Len(plan.steps) \in Nat /\ k \in Nat /\ DOMAIN stepResults = 1..k
      /\ DOMAIN plan.steps = 1..Len(plan.steps)
  BY <1>1, ResultsAndPlan, MaxRuntimeStepsAssumption
<1>3. k + 1 \in 1..(Len(plan.steps) - 1)
  BY <1>1, <1>2
<1>4. currentStep # NoStep /\ Executable(currentStep)
  BY <1>1, <1>3, PlanStep DEF Executable
<1>5. completed = FirstIds(plan, k) /\ depContext = completed
  <2>1. \A j \in 1..k : stepResults[j].status = "success" /\ stepResults[j].step = plan.steps[j].id
    BY <1>1, <1>2 DEF AllPassed, Passed, IInv, ResultsInv
  <2> QED BY <2>1, <1>2 DEF IInv, ProgressInv, FirstIds
<1>6. currentStep.deps \subseteq FirstIds(plan, k)
  <2>1. k + 1 \in Ready(plan, FirstIds(plan, k))
    BY <1>1, <1>2, NextStepReady
  <2> QED BY <2>1, <1>1 DEF Ready
<1> QED BY <1>1, <1>3, <1>4, <1>5, <1>6 DEF PerformFault

LEMMA PerformCause == IInv /\ CauseInv /\ PerformRagSql => CauseInv'
<1> SUFFICES ASSUME IInv, CauseInv, PerformRagSql PROVE CauseInv'
  OBVIOUS
<1> USE DEF PerformRagSql, Runs, progress, FailState
<1>1. /\ node = "perform_rag_sql" /\ node' = "normalizer_transformer"
      /\ UNCHANGED <<plan, currentStep, stepResults, covered>>
      /\ DOMAIN stepResults = 1..Len(stepResults) /\ stepResults \in Seq(StepResult)
  BY ResultsAndPlan
<1>2. AllPassed /\ ~Stopped /\ child = NoChild
  BY <1>1 DEF IInv, NodeInv
<1>3. ~ChildFailed(stepResults)
  <2>1. SUFFICES ASSUME stepResults # << >> PROVE stepResults[Len(stepResults)].status = "success"
    BY DEF ChildFailed
  <2>2. Len(stepResults) \in DOMAIN stepResults
    BY <1>1, <2>1
  <2> QED BY <2>2, <1>2 DEF AllPassed, Passed
<1>4. CoverageInv'
  BY <1>1 DEF CauseInv, CoverageInv, CoveredResults, Passed
<1>5. CurrentInv'
  BY <1>1 DEF CurrentInv
<1>6. child' = NoChild => bundle'.status = "validation_failed"
  <2>1. CASE PerformFault(currentStep) = "none"
    BY <2>1, NoneAssumption DEF ChildResults, ChildResult, TerminalResultStatuses, Outputs
  <2>2. CASE PerformFault(currentStep) # "none"
    <3>1. PerformFault(currentStep) = "invalid_plan"
      BY <1>1, <2>2, OnlyBlankRefused DEF PerformFault
    <3> QED BY <2>2, <3>1
  <2> QED BY <2>1, <2>2
<1>7. ReportInv'
  BY <1>1, <1>3, <1>6 DEF ReportInv, ChildFailed
<1>8. StopsForACause'
  BY <1>1, <1>2, OnlyBlankRefused DEF StopsForACause, Stopped
<1> QED BY <1>4, <1>5, <1>7, <1>8 DEF CauseInv

LEMMA ChildRaisesCause == IInv /\ CauseInv /\ ChildRaises => CauseInv'
<1> SUFFICES ASSUME IInv, CauseInv, ChildRaises PROVE CauseInv'
  OBVIOUS
<1> USE DEF ChildRaises, Runs, progress
<1>1. CoverageInv'
  BY DEF CauseInv, CoverageInv, CoveredResults, Passed
<1>2. CurrentInv'
  BY DEF CurrentInv, IInv, NodeInv, Running, Stopped
<1>3. ReportInv' /\ StopsForACause'
  BY DEF CauseInv, ReportInv, ChildFailed, StopsForACause, Stopped, Passed
<1> QED BY <1>1, <1>2, <1>3 DEF CauseInv

\* The step the normaliser files is step k + 1; a refused one counts as failed
\* validation, like the bundle that perform_rag_sql left.
LEMMA NormalizedResult ==
  ASSUME IInv, NormalizerTransformer
  PROVE  LET k == Len(stepResults) IN
         /\ plan # NoPlan /\ plan \in RawPlan /\ ValidPlan(plan) /\ AllPassed
         /\ k \in Nat /\ DOMAIN stepResults = 1..k
         /\ k + 1 \in 1..(Len(plan.steps) - 1)
         /\ currentStep = plan.steps[k + 1] /\ currentStep # NoStep
         /\ Len(stepResults') = k + 1 /\ DOMAIN stepResults' = 1..(k + 1)
         /\ \A j \in 1..k : stepResults'[j] = stepResults[j]
         /\ stepResults'[k + 1].step = currentStep.id
         /\ stepResults'[k + 1].type = currentStep.type
         /\ stepResults'[k + 1].status =
              IF child = NoChild THEN "validation_failed" ELSE child.status
         /\ stepResults'[k + 1].output = IF child = NoChild THEN "none" ELSE child.output
         /\ stepResults' # << >>
         /\ IF child = NoChild
            THEN Stopped /\ bundle # NoBundle
            ELSE ~Stopped /\ bundle = NoBundle /\ child \in ChildResults(currentStep.type)
<1> DEFINE k == Len(stepResults)
           result == [step |-> currentStep.id, type |-> currentStep.type,
                      status |-> IF child = NoChild THEN "validation_failed" ELSE child.status,
                      output |-> IF child = NoChild THEN "none" ELSE child.output]
<1>1. /\ node = "normalizer_transformer"
      /\ plan # NoPlan /\ plan \in RawPlan /\ ValidPlan(plan) /\ AllPassed
      /\ k + 1 < Len(plan.steps) /\ currentStep = plan.steps[k + 1]
      /\ \/ /\ child \in ChildResults(currentStep.type) /\ ~Stopped /\ bundle = NoBundle
         \/ /\ child = NoChild /\ Stopped /\ bundle # NoBundle
  BY ResultsAndPlan DEF NormalizerTransformer, Runs, IInv, NodeInv, Running
<1>2. /\ Len(plan.steps) \in Nat /\ k \in Nat /\ DOMAIN stepResults = 1..k
      /\ stepResults \in Seq(StepResult)
  BY <1>1, ResultsAndPlan, MaxRuntimeStepsAssumption
<1>3. k + 1 \in 1..(Len(plan.steps) - 1)
  BY <1>1, <1>2
<1>4. currentStep # NoStep /\ currentStep.id \in StepIds /\ currentStep.type \in {"rag", "sql"}
  BY <1>1, <1>3, PlanStep
<1>5. child \in ChildResults(currentStep.type) => child \in ChildResult /\ child # NoChild
  BY NoneAssumption DEF ChildResults, ChildResult, TerminalResultStatuses, Outputs
<1>6. result \in StepResult
  BY <1>1, <1>4, <1>5 DEF StepResult, ChildResult, TerminalResultStatuses, Outputs
<1>7. stepResults' = Append(stepResults, result)
  BY DEF NormalizerTransformer
<1>8. /\ Len(stepResults') = k + 1 /\ DOMAIN stepResults' = 1..(k + 1)
      /\ \A j \in 1..k : stepResults'[j] = stepResults[j]
      /\ stepResults'[k + 1] = result
  <2> HIDE DEF result
  <2> QED BY <1>2, <1>6, <1>7
<1>9. stepResults' # << >>
  BY <1>2, <1>8
<1> QED BY <1>1, <1>2, <1>3, <1>4, <1>5, <1>8, <1>9

\* The step filed is a rag step that passed: its obligations are covered at once.
RagPassed ==
  stepResults'[Len(stepResults) + 1].status = "success" /\ currentStep.type = "rag"

LEMMA NormalizerCovers ==
  ASSUME IInv, NormalizerTransformer
  PROVE  LET k == Len(stepResults) IN
         /\ CoveredResults = 1..k
         /\ CoveredResults' = IF RagPassed THEN 1..(k + 1) ELSE 1..k
<1> DEFINE k == Len(stepResults)
<1>1. /\ node = "normalizer_transformer" /\ node' = "multi_step_runtime_executor"
      /\ UNCHANGED <<plan, planStatus, bundle>> /\ currentStep' = NoStep
  BY DEF NormalizerTransformer, Runs
<1>2. /\ k \in Nat /\ DOMAIN stepResults = 1..k
      /\ Len(stepResults') = k + 1 /\ DOMAIN stepResults' = 1..(k + 1)
      /\ \A j \in 1..k : stepResults'[j] = stepResults[j]
      /\ currentStep = plan.steps[k + 1]
      /\ stepResults'[k + 1].type = currentStep.type
  BY NormalizedResult
<1>3. CoveredResults = 1..k
  BY <1>1, <1>2, NormalizedResult DEF CoveredResults, AllPassed
<1>4. Passed(stepResults'[k + 1]) <=>
        /\ stepResults'[k + 1].status = "success"
        /\ currentStep.type = "sql" => stepResults'[k + 1].output = "material"
  BY <1>2 DEF Passed
<1>5. CoveredResults' = IF RagPassed THEN 1..(k + 1) ELSE 1..k
  <2>1. ASSUME NEW j \in 1..k
        PROVE  j \in CoveredResults'
    <3>1. Passed(stepResults'[j])
      BY <1>2, NormalizedResult DEF AllPassed
    <3>2. j \in 1..(k + 1) /\ j < k + 1
      BY <1>2
    <3> QED BY <3>1, <3>2, <1>2 DEF CoveredResults, Passed
  <2>2. k + 1 \in CoveredResults' <=> RagPassed
    BY <1>1, <1>2, <1>4 DEF CoveredResults, Passed, RagPassed
  <2>3. CoveredResults' \subseteq 1..(k + 1)
    BY <1>2 DEF CoveredResults
  <2>4. CASE RagPassed
    <3>1. \A j \in 1..(k + 1) : j \in 1..k \/ j = k + 1
      BY <1>2
    <3> QED BY <2>1, <2>2, <2>3, <2>4, <3>1
  <2>5. CASE ~RagPassed
    <3>1. \A j \in CoveredResults' : j \in 1..k
      BY <2>2, <2>3, <2>5, <1>2
    <3> QED BY <2>1, <2>5, <3>1
  <2> QED BY <2>4, <2>5
<1> QED BY <1>3, <1>5

LEMMA NormalizerCause == IInv /\ CauseInv /\ NormalizerTransformer => CauseInv'
<1> SUFFICES ASSUME IInv, CauseInv, NormalizerTransformer PROVE CauseInv'
  OBVIOUS
<1> DEFINE k == Len(stepResults)
<1>1. /\ node = "normalizer_transformer" /\ node' = "multi_step_runtime_executor"
      /\ UNCHANGED <<plan, planStatus, bundle>> /\ currentStep' = NoStep
  BY DEF NormalizerTransformer, Runs
<1>2. /\ k \in Nat /\ DOMAIN stepResults = 1..k
      /\ Len(stepResults') = k + 1 /\ DOMAIN stepResults' = 1..(k + 1)
      /\ currentStep = plan.steps[k + 1]
  BY NormalizedResult
<1>3. /\ CoveredResults = 1..k
      /\ CoveredResults' = IF RagPassed THEN 1..(k + 1) ELSE 1..k
  BY NormalizerCovers
<1>4. covered' = covered \cup (IF RagPassed THEN ToSet(plan.steps[k + 1].obls) ELSE {})
  <2>1. stepResults'[k + 1].status =
          (IF child = NoChild THEN [status |-> "validation_failed", output |-> "none"]
                              ELSE child).status
    BY NormalizedResult
  <2> QED BY <2>1, <1>2 DEF NormalizerTransformer, RagPassed
<1>5. CoverageInv'
  <2>1. CASE RagPassed
    <3>1. \A j \in 1..(k + 1) : j \in 1..k \/ j = k + 1
      BY <1>2
    <3> QED BY <1>1, <1>2, <1>3, <1>4, <2>1, <3>1 DEF CauseInv, CoverageInv
  <2>2. CASE ~RagPassed
    BY <1>1, <1>3, <1>4, <2>2 DEF CauseInv, CoverageInv
  <2> QED BY <2>1, <2>2
<1>6. ChildFailed(stepResults)' <=> stepResults'[k + 1].status # "success"
  BY <1>2, NormalizedResult DEF ChildFailed
<1>7. CurrentInv'
  BY <1>1, <1>6, NormalizedResult DEF CurrentInv, Stopped
<1>8. ReportInv'
  BY <1>1, <1>2, NormalizedResult DEF CauseInv, ReportInv
<1>9. StopsForACause'
  <2>1. SUFFICES ASSUME Stopped' PROVE \E j \in DOMAIN stepResults' : ~Passed(stepResults'[j])
    BY DEF StopsForACause, Passed
  <2>2. child = NoChild /\ k + 1 \in DOMAIN stepResults'
    BY <2>1, <1>1, <1>2, NormalizedResult DEF Stopped
  <2> QED BY <2>2, NormalizedResult DEF Passed
<1> QED BY <1>5, <1>7, <1>8, <1>9 DEF CauseInv

\* With all results but the last passed, the gravest status is the last one's.
LEMMA GravestIsLast ==
  ASSUME NEW results \in Seq(StepResult), ChildFailed(results),
         \A k \in DOMAIN results : k < Len(results) => Passed(results[k])
  PROVE  StatusFromStepResults(results) = results[Len(results)].status
<1> DEFINE n == Len(results)
           statuses == {results[i].status : i \in DOMAIN results}
           present == {j \in DOMAIN StatusOrder : StatusOrder[j] \in statuses}
<1>1. /\ results # << >> /\ n \in Nat /\ DOMAIN results = 1..n /\ n \in DOMAIN results
      /\ results[n].status \in TerminalResultStatuses \ {"success"}
  <2>1. results # << >> /\ n \in Nat /\ DOMAIN results = 1..n /\ n \in DOMAIN results
    BY DEF ChildFailed
  <2>2. results[n] \in StepResult
    BY <2>1
  <2> QED BY <2>1, <2>2 DEF ChildFailed, StepResult
<1>2. DOMAIN StatusOrder = 1..4
  BY DEF StatusOrder
<1>3. PICK m \in 1..4 : StatusOrder[m] = results[n].status
  <2>1. \/ results[n].status = StatusOrder[1] \/ results[n].status = StatusOrder[2]
        \/ results[n].status = StatusOrder[3] \/ results[n].status = StatusOrder[4]
    BY <1>1 DEF StatusOrder, TerminalResultStatuses
  <2> QED BY <2>1
<1>4. \A j \in 1..4 : StatusOrder[j] # "success" /\ (StatusOrder[j] = StatusOrder[m] => j = m)
  BY DEF StatusOrder
<1>5. \A i \in DOMAIN results : results[i].status = "success" \/ i = n
  BY <1>1 DEF Passed
<1>6. present = {m}
  BY <1>1, <1>2, <1>3, <1>4, <1>5
<1>7. (CHOOSE j \in present : \A l \in present : j <= l) = m
  BY <1>6
<1> QED BY <1>1, <1>3, <1>6, <1>7 DEF StatusFromStepResults

LEMMA BundleCause == IInv /\ CauseInv /\ FinalResultBundle => CauseInv'
<1> SUFFICES ASSUME IInv, CauseInv, FinalResultBundle PROVE CauseInv'
  OBVIOUS
<1> USE DEF FinalResultBundle, Runs, progress
<1>1. CoverageInv'
  BY DEF CauseInv, CoverageInv, CoveredResults, Passed
<1>2. CurrentInv' /\ StopsForACause'
  BY DEF CauseInv, CurrentInv, StopsForACause, Stopped, Passed
<1>3. ReportInv'
  <2>1. SUFFICES ASSUME ChildFailed(stepResults)
                 PROVE  bundle'.status = stepResults[Len(stepResults)].status
    BY DEF ReportInv, ChildFailed
  <2>2. CASE bundle # NoBundle
    BY <2>1, <2>2 DEF CauseInv, ReportInv
  <2>3. CASE bundle = NoBundle
    <3>1. StatusFromStepResults(stepResults) = stepResults[Len(stepResults)].status
      BY <2>1, GravestIsLast, ResultsAndPlan DEF IInv, ResultsInv, ChildFailed
    <3>2. StatusFromStepResults(stepResults) # "success"
      BY <2>1, <3>1 DEF ChildFailed
    <3> QED BY <2>3, <3>1, <3>2
  <2> QED BY <2>2, <2>3
<1> QED BY <1>1, <1>2, <1>3 DEF CauseInv

LEMMA AdapterCause == IInv /\ CauseInv /\ (Adapter \/ UNCHANGED vars) => CauseInv'
<1> SUFFICES ASSUME IInv, CauseInv, Adapter \/ UNCHANGED vars PROVE CauseInv'
  OBVIOUS
<1> USE DEF Adapter, Runs, progress, vars
<1>1. CoverageInv'
  BY DEF CauseInv, CoverageInv, CoveredResults, Passed
<1>2. CurrentInv' /\ StopsForACause'
  BY DEF CauseInv, CurrentInv, StopsForACause, Stopped, ChildFailed, Passed
<1>3. ReportInv'
  BY DEF CauseInv, ReportInv, ChildFailed
<1> QED BY <1>1, <1>2, <1>3 DEF CauseInv

\* What the executor covers, when it stops and what is reported, in every
\* reachable state.
THEOREM CauseInvariance == Spec => []CauseInv
<1>1. IInv /\ CauseInv /\ [Next]_vars => CauseInv'
  BY BeforeExecutorCause, ExecutorEndsCause, SchedulesCause, PerformCause, ChildRaisesCause,
     NormalizerCause, BundleCause, AdapterCause
  DEF Next, Step, Executor, Done
<1> QED BY Invariance, InitCauseInv, <1>1, PTL DEF Spec

-----------------------------------------------------------------------------
(* What follows. *)

\* Every step is handed to perform_rag_sql with what it depends on run, passed
\* and covered.
THEOREM SatisfiedDependencies == Spec => []DependenciesSatisfied
<1>1. IInv /\ CauseInv => DependenciesSatisfied
  <2> SUFFICES ASSUME IInv, CauseInv, node = "perform_rag_sql",
                      NEW i \in ExecutableAt(plan), plan.steps[i].id \in currentStep.deps
               PROVE  /\ i \in DOMAIN stepResults /\ Passed(stepResults[i])
                      /\ ToSet(plan.steps[i].obls) \subseteq covered
    BY DEF DependenciesSatisfied
  <2> DEFINE k == Len(stepResults)
             n == Len(plan.steps)
  <2>1. /\ plan \in RawPlan /\ ValidPlan(plan) /\ k + 1 \in 1..(n - 1)
        /\ currentStep = plan.steps[k + 1]
        /\ n \in Nat /\ DOMAIN plan.steps = 1..n /\ ExecutableAt(plan) = 1..(n - 1)
        /\ k \in Nat /\ DOMAIN stepResults = 1..k
        /\ AllPassed
    BY OnlyBlankRefused, ResultsAndPlan, MaxRuntimeStepsAssumption DEF IInv, NodeInv
  <2>2. PICK j \in 1..k : plan.steps[j].id = plan.steps[i].id
    <3>1. k + 1 \in DOMAIN plan.steps /\ plan.steps[i].id \in plan.steps[k + 1].deps
      BY <2>1
    <3>2. \E j \in 1..((k + 1) - 1) : plan.steps[j].id = plan.steps[i].id
      BY <2>1, <3>1 DEF ValidPlan, DependenciesPointBack
    <3> QED BY <2>1, <3>2
  <2>3. i = j
    <3>1. i \in 1..(n - 1) /\ j \in 1..(n - 1)
      BY <2>1, <2>2
    <3> QED BY <2>1, <2>2, <3>1, PlanStep
  <2>4. i \in CoveredResults
    BY <2>1, <2>2, <2>3 DEF CoveredResults, AllPassed
  <2> QED BY <2>1, <2>2, <2>3, <2>4 DEF AllPassed, CauseInv, CoverageInv
<1> QED BY Invariance, CauseInvariance, <1>1, PTL

\* A run of a valid plan stops early only for what a step did: the executor's
\* "could not make progress" and "without covering every obligation" are dead.
THEOREM StopsOnlyForACause == Spec => []StopsForACause
<1>1. CauseInv => StopsForACause
  BY DEF CauseInv
<1> QED BY CauseInvariance, <1>1, PTL

\* A failed step is reported with its own status, through whichever of the ways
\* the bundle came about.
THEOREM HonestFailure == Spec => []FailureReportedAsIs
<1>1. IInv /\ CauseInv => FailureReportedAsIs
  <2> SUFFICES ASSUME IInv, CauseInv, toolResult # NoResult, ChildFailed(stepResults)
               PROVE  toolResult.status = stepResults[Len(stepResults)].status
    BY DEF FailureReportedAsIs
  <2>1. toolResult = bundle /\ toolResult \in Bundle
    BY DEF IInv, SuccessInv, TypeOK
  <2> QED BY <2>1, NoneAssumption DEF CauseInv, ReportInv
<1> QED BY Invariance, CauseInvariance, <1>1, PTL

-----------------------------------------------------------------------------
(* The tool implements PlanExecution.  The abstract state, by name: *)

GraphOf(p) ==
  [s \in ExecutableIds(p) |->
     UNION {p.steps[i].deps : i \in {j \in ExecutableAt(p) : p.steps[j].id = s}}]

Graph == IF plan # NoPlan /\ ValidPlan(plan) THEN GraphOf(plan) ELSE << >>

Started ==
  {stepResults[k].step : k \in DOMAIN stepResults}
  \cup (IF currentStep = NoStep THEN {} ELSE {currentStep.id})

Finished ==
  IF plan = NoPlan THEN {}
  ELSE {plan.steps[i].id : i \in
          {j \in ExecutableAt(plan) : ToSet(plan.steps[j].obls) \cap covered # {}}}

Outcome == IF toolResult = NoResult THEN "none" ELSE toolResult.status

\* PlanExecution's definitions, over this state.
LEMMA AbstractInit ==
  Graph = << >> /\ Started = {} /\ Finished = {} /\ Stopped = FALSE /\ Outcome = "none"
    => Execution!Init
  BY DEF Execution!Init, Graph, GraphOf, Started, Finished, Outcome

LEMMA AbstractStutter ==
  UNCHANGED <<Graph, Started, Finished, Stopped, Outcome>> => UNCHANGED Execution!execVars
  BY DEF Execution!execVars, Graph, GraphOf, Started, Finished, Outcome

LEMMA AbstractAccept ==
  ASSUME Outcome = "none", ~Stopped, Graph = << >>,
         NEW J \in SUBSET StepIds, J # {}, Graph' \in [J -> SUBSET J],
         UNCHANGED <<Started, Finished, Stopped, Outcome>>
  PROVE  Execution!Next
<1>1. J \in (SUBSET StepIds) \ {{}}
  OBVIOUS
<1>2. \E K \in (SUBSET StepIds) \ {{}} : Graph' \in [K -> SUBSET K]
  BY <1>1
<1>3. Execution!Accept
  BY <1>2, Zenon DEF Execution!Accept, Graph, GraphOf, Started, Finished, Outcome
<1> QED BY <1>3 DEF Execution!Next

LEMMA AbstractFinish ==
  ASSUME Outcome = "none", ~Stopped, Finished' \in {Finished, Started},
         UNCHANGED <<Graph, Started, Stopped, Outcome>>
  PROVE  Execution!Next
  BY DEF Execution!Next, Execution!Advance, Graph, GraphOf, Started, Finished, Outcome

LEMMA AbstractStart ==
  ASSUME Outcome = "none", ~Stopped, Finished' = Started,
         NEW j \in DOMAIN Graph \ Started,
         Graph[j] \subseteq Finished', Started' = Started \cup {j},
         UNCHANGED <<Graph, Stopped, Outcome>>
  PROVE  Execution!Next
  BY DEF Execution!Next, Execution!Advance, Graph, GraphOf, Started, Finished, Outcome

LEMMA AbstractStop ==
  ASSUME Outcome = "none", Stopped', UNCHANGED <<Graph, Started, Finished, Outcome>>
  PROVE  Execution!Next
  BY DEF Execution!Next, Execution!Stop, Graph, GraphOf, Started, Finished, Outcome

LEMMA AbstractDeliver ==
  ASSUME Outcome = "none", Outcome' \in TerminalResultStatuses,
         Outcome' = "success" => ~Stopped /\ Graph # << >> /\ Finished = DOMAIN Graph,
         UNCHANGED <<Graph, Started, Finished, Stopped>>
  PROVE  Execution!Next
<1>1. Outcome' \in Execution!Outcomes
  BY DEF Execution!Outcomes, TerminalResultStatuses
<1> QED BY <1>1 DEF Execution!Next, Execution!Deliver, Graph, GraphOf, Started, Finished, Outcome

(* The graph of a valid plan is one PlanExecution accepts.                     *)
LEMMA GraphOfValidPlan ==
  ASSUME NEW p \in RawPlan, ValidPlan(p)
  PROVE  LET ids == ExecutableIds(p)
             n == Len(p.steps) IN
         /\ ids = {p.steps[i].id : i \in 1..(n - 1)}
         /\ ids \in SUBSET StepIds /\ ids # {}
         /\ GraphOf(p) \in [ids -> SUBSET ids]
         /\ GraphOf(p) # << >>
         /\ \A i \in 1..(n - 1) : GraphOf(p)[p.steps[i].id] = p.steps[i].deps
<1> DEFINE ids == ExecutableIds(p)
           n == Len(p.steps)
<1>1. /\ n \in Nat /\ DOMAIN p.steps = 1..n /\ ExecutableAt(p) = 1..(n - 1)
  BY ValidPlanShape, MaxRuntimeStepsAssumption
<1>2. ids = {p.steps[i].id : i \in 1..(n - 1)}
  BY <1>1 DEF ExecutableIds
<1>3. ids \in SUBSET StepIds
  BY <1>2, PlanStep
<1>4. ids # {}
  <2>1. ExecutableAt(p) # {}
    <3>1. p.obligations \in Seq(ObligationIds \cup {"bad_id"}) /\ p.obligations # << >>
      BY DEF RawPlan, ValidPlan, ObligationsWellFormed
    <3>2. p.obligations[1] \in ObligationsOf(p)
      BY <3>1 DEF ObligationsOf, ToSet
    <3> QED BY <3>2 DEF ValidPlan, AssignmentsExact
  <2> QED BY <2>1 DEF ExecutableIds
<1>5. ASSUME NEW i \in 1..(n - 1)
      PROVE  /\ GraphOf(p)[p.steps[i].id] = p.steps[i].deps
             /\ p.steps[i].deps \subseteq ids
  <2>1. {j \in ExecutableAt(p) : p.steps[j].id = p.steps[i].id} = {i}
    BY <1>1, PlanStep
  <2>2. p.steps[i].id \in ids
    BY <1>2
  <2>3. GraphOf(p)[p.steps[i].id] = UNION {p.steps[j].deps : j \in {i}}
    BY <2>1, <2>2 DEF GraphOf
  <2>4. ASSUME NEW d \in p.steps[i].deps
        PROVE  d \in ids
    <3>1. i \in DOMAIN p.steps
      BY <1>1
    <3>2. PICK j \in 1..(i - 1) : p.steps[j].id = d
      BY <3>1 DEF ValidPlan, DependenciesPointBack
    <3>3. j \in 1..(n - 1)
      BY <1>1, <3>2
    <3> QED BY <1>2, <3>2, <3>3
  <2> QED BY <2>3, <2>4
<1>6. GraphOf(p) \in [ids -> SUBSET ids]
  <2>1. \A s \in ids : GraphOf(p)[s] \subseteq ids
    BY <1>2, <1>5
  <2>2. GraphOf(p) = [s \in ids |-> GraphOf(p)[s]]
    BY DEF GraphOf
  <2> QED BY <2>1, <2>2
<1>7. GraphOf(p) # << >>
  <2>1. DOMAIN GraphOf(p) = ids
    BY DEF GraphOf
  <2>2. DOMAIN << >> = {}
    OBVIOUS
  <2> QED BY <2>1, <2>2, <1>4
<1> QED BY <1>2, <1>3, <1>4, <1>5, <1>6, <1>7

\* What of the abstract state each field of the tool's state decides.
LEMMA SameView ==
  ASSUME UNCHANGED <<plan, currentStep, stepResults, covered, toolResult>>
  PROVE  UNCHANGED <<Graph, Started, Finished, Outcome>>
  BY DEF Graph, Started, Finished, Outcome

LEMMA NothingDelivered ==
  ASSUME IInv, node # "END"
  PROVE  Outcome = "none"
  BY DEF IInv, SuccessInv, Outcome

\* The results of a valid plan by their place in it: what has started, and what
\* has finished.
WalkView ==
  plan # NoPlan /\ ValidPlan(plan) =>
    /\ Graph = GraphOf(plan) /\ plan \in RawPlan
    /\ Len(stepResults) \in Nat /\ DOMAIN stepResults = 1..Len(stepResults)
    /\ Len(stepResults) < Len(plan.steps)
    /\ CoveredResults \subseteq 1..Len(stepResults)
    /\ Started = FirstIds(plan, Len(stepResults))
                 \cup (IF currentStep = NoStep THEN {} ELSE {currentStep.id})
    /\ Finished = {plan.steps[i].id : i \in CoveredResults}

LEMMA WalkViewHolds == IInv /\ CauseInv => WalkView
<1> SUFFICES ASSUME IInv, CauseInv, plan # NoPlan, ValidPlan(plan) PROVE WalkView
  BY DEF WalkView
<1> DEFINE k == Len(stepResults)
           n == Len(plan.steps)
<1>1. /\ plan \in RawPlan /\ k \in Nat /\ DOMAIN stepResults = 1..k
      /\ n \in Nat /\ n # 0 /\ ExecutableAt(plan) = 1..(n - 1)
  BY ResultsAndPlan, MaxRuntimeStepsAssumption
<1>2. k < n
  BY <1>1 DEF IInv, ResultsInv
<1>3. \A j \in 1..k : stepResults[j].step = plan.steps[j].id
  BY <1>1 DEF IInv, ResultsInv
<1>4. Started = FirstIds(plan, k) \cup (IF currentStep = NoStep THEN {} ELSE {currentStep.id})
  <2>1. {stepResults[j].step : j \in DOMAIN stepResults} = FirstIds(plan, k)
    BY <1>1, <1>3 DEF FirstIds
  <2> QED BY <2>1 DEF Started
<1>5. CoveredResults \subseteq 1..k
  BY <1>1 DEF CoveredResults
<1>6. {j \in ExecutableAt(plan) : ToSet(plan.steps[j].obls) \cap covered # {}} = CoveredResults
  <2>1. ASSUME NEW j \in CoveredResults
        PROVE  j \in ExecutableAt(plan) /\ ToSet(plan.steps[j].obls) \cap covered # {}
    <3>1. j \in 1..(n - 1)
      BY <1>1, <1>2, <1>5
    <3>2. ToSet(plan.steps[j].obls) # {} /\ ToSet(plan.steps[j].obls) \subseteq covered
      BY <1>1, <3>1, PlanStep DEF CauseInv, CoverageInv
    <3> QED BY <1>1, <3>1, <3>2
  <2>2. ASSUME NEW j \in ExecutableAt(plan), NEW o \in ToSet(plan.steps[j].obls) \cap covered
        PROVE  j \in CoveredResults
    <3>1. PICK i \in CoveredResults : o \in ToSet(plan.steps[i].obls)
      BY DEF CauseInv, CoverageInv
    <3>2. i \in 1..(n - 1) /\ j \in 1..(n - 1)
      BY <1>1, <1>2, <1>5
    <3>3. i = j
      BY <1>1, <3>1, <3>2, PlanStep
    <3> QED BY <3>3
  <2> QED BY <2>1, <2>2
<1>7. Finished = {plan.steps[i].id : i \in CoveredResults}
  BY <1>6 DEF Finished
<1> QED BY <1>1, <1>2, <1>4, <1>5, <1>7 DEF WalkView, Graph

LEMMA WalkViewNext == (IInv /\ CauseInv)' => WalkView'
  BY WalkViewHolds, PTL

-----------------------------------------------------------------------------
(* Each step of the tool is a step of PlanExecution, or none.                  *)

AbstractStep == [Execution!Next]_(Execution!execVars)

\* Nodes that leave the walk where it is, and stop it at most.
LEMMA StopOrStutter ==
  ASSUME IInv, UNCHANGED <<plan, currentStep, stepResults, covered, toolResult>>,
         (Stopped' <=> Stopped) \/ (Stopped' /\ node # "END")
  PROVE  AbstractStep
<1>1. UNCHANGED <<Graph, Started, Finished, Outcome>>
  BY SameView
<1>2. CASE Stopped' <=> Stopped
  <2>1. Stopped' = Stopped
    BY <1>2 DEF Stopped
  <2> QED BY <1>1, <2>1, AbstractStutter DEF AbstractStep
<1>3. CASE Stopped' /\ node # "END"
  BY <1>1, <1>3, NothingDelivered, AbstractStop DEF AbstractStep
<1> QED BY <1>2, <1>3

LEMMA QuietSteps ==
  IInv /\ CauseInv
    /\ (SqlRagAgent \/ PlanningFails \/ ExecutorPassesThrough \/ ExecutorRejectsPlan
        \/ ExecutorStopsAtFailure \/ ExecutorRejectsSqlOutput \/ PerformRagSql
        \/ ChildRaises \/ FinalResultBundle \/ UNCHANGED vars) => AbstractStep
<1> SUFFICES ASSUME IInv, CauseInv PROVE
    (SqlRagAgent \/ PlanningFails \/ ExecutorPassesThrough \/ ExecutorRejectsPlan
        \/ ExecutorStopsAtFailure \/ ExecutorRejectsSqlOutput \/ PerformRagSql
        \/ ChildRaises \/ FinalResultBundle \/ UNCHANGED vars) => AbstractStep
  OBVIOUS
<1> USE DEF Runs, progress, FailState
<1>1. ASSUME SqlRagAgent PROVE AbstractStep
  <2>1. UNCHANGED <<plan, currentStep, stepResults, covered, toolResult>> /\ node # "END"
    BY <1>1 DEF SqlRagAgent, IInv, FreshInv
  <2>2. ~Stopped
    BY <1>1 DEF SqlRagAgent, CauseInv, CurrentInv, Stopped
  <2> QED BY <2>1, <2>2, StopOrStutter
<1>2. ASSUME PlanningFails PROVE AbstractStep
  <2>1. /\ UNCHANGED <<plan, currentStep, stepResults, covered, toolResult>>
        /\ Stopped' <=> Stopped
    BY <1>2 DEF PlanningFails, CauseInv, CurrentInv, Stopped
  <2> QED BY <2>1, StopOrStutter
<1>3. ASSUME ExecutorPassesThrough \/ ChildRaises \/ FinalResultBundle \/ UNCHANGED vars
      PROVE  AbstractStep
  <2>1. /\ UNCHANGED <<plan, currentStep, stepResults, covered, toolResult>>
        /\ Stopped' <=> Stopped
    BY <1>3 DEF ExecutorPassesThrough, ChildRaises, FinalResultBundle, vars, Stopped
  <2> QED BY <2>1, StopOrStutter
<1>4. ASSUME ExecutorRejectsPlan \/ ExecutorStopsAtFailure \/ ExecutorRejectsSqlOutput
      PROVE  AbstractStep
  <2>1. /\ UNCHANGED <<plan, currentStep, stepResults, covered, toolResult>>
        /\ Stopped' /\ node # "END"
    BY <1>4 DEF ExecutorRejectsPlan, ExecutorStopsAtFailure, ExecutorRejectsSqlOutput, Stopped,
                CauseInv, CurrentInv
  <2> QED BY <2>1, StopOrStutter
<1>5. ASSUME PerformRagSql PROVE AbstractStep
  <2>1. UNCHANGED <<plan, currentStep, stepResults, covered, toolResult>> /\ node # "END"
    BY <1>5 DEF PerformRagSql
  <2>2. (Stopped' <=> Stopped) \/ Stopped'
    <3>1. PerformFault(currentStep) \in {"none", "invalid_plan", "blocked"}
      BY DEF PerformFault
    <3> QED BY <3>1, <1>5 DEF PerformRagSql, Stopped
  <2> QED BY <2>1, <2>2, StopOrStutter
<1> QED BY <1>1, <1>2, <1>3, <1>4, <1>5

\* A valid plan is accepted; one that is not leaves the abstract state as it is.
LEMMA PlannerAccepts == IInv /\ CauseInv /\ RuntimeObligationPlanner => AbstractStep
<1> SUFFICES ASSUME IInv, CauseInv, RuntimeObligationPlanner PROVE AbstractStep
  OBVIOUS
<1>1. /\ plan = NoPlan /\ covered = {} /\ stepResults = << >> /\ currentStep = NoStep
      /\ UNCHANGED <<covered, stepResults, currentStep, toolResult>> /\ node # "END"
      /\ plan' \in RawPlan /\ plan' # NoPlan
      /\ ~Stopped /\ ~Stopped'
  BY PlansAssumption, NoneAssumption
  DEF RuntimeObligationPlanner, Runs, progress, IInv, FreshInv, CauseInv, CurrentInv, Stopped
<1>2. Graph = << >> /\ Started = {} /\ Finished = {} /\ Started' = {} /\ Finished' = {}
  BY <1>1 DEF Graph, Started, Finished
<1>3. Outcome = "none" /\ Outcome' = "none" /\ Stopped' = Stopped
  BY <1>1, NothingDelivered DEF Outcome, Stopped
<1>4. CASE ValidPlan(plan')
  <2>1. Graph' = GraphOf(plan')
    BY <1>1, <1>4 DEF Graph
  <2>2. Graph' \in [ExecutableIds(plan') -> SUBSET ExecutableIds(plan')]
    BY <1>1, <1>4, <2>1, GraphOfValidPlan
  <2>3. ExecutableIds(plan') \in SUBSET StepIds /\ ExecutableIds(plan') # {}
    BY <1>1, <1>4, GraphOfValidPlan
  <2> QED BY <1>1, <1>2, <1>3, <2>2, <2>3, AbstractAccept DEF AbstractStep
<1>5. CASE ~ValidPlan(plan')
  <2>1. Graph' = << >>
    BY <1>5 DEF Graph
  <2> QED BY <1>2, <1>3, <2>1, AbstractStutter DEF AbstractStep
<1> QED BY <1>4, <1>5

\* The visit that schedules finds all that started finished: it starts the next
\* job, whose dependencies are among them, or none.
LEMMA SchedulingAdvances ==
  IInv /\ CauseInv /\ (IInv /\ CauseInv)' /\ ExecutorSchedules => AbstractStep
<1> SUFFICES ASSUME IInv, CauseInv, IInv', CauseInv', ExecutorSchedules PROVE AbstractStep
  OBVIOUS
<1> DEFINE k == Len(stepResults)
           n == Len(plan.steps)
<1>1. /\ node = "multi_step_runtime_executor" /\ ~Stopped /\ currentStep = NoStep
      /\ UNCHANGED <<plan, stepResults, toolResult>>
  BY DEF ExecutorSchedules, Runs, CauseInv, CurrentInv
<1>2. /\ plan # NoPlan /\ plan \in RawPlan /\ ValidPlan(plan) /\ k < n
      /\ completed = FirstIds(plan, k) /\ CoveredResults' = DOMAIN stepResults
      /\ ~Stopped'
  BY SchedulingVisit DEF Stopped
<1>3. WalkView /\ WalkView'
  BY WalkViewHolds, WalkViewNext
<1>4. /\ k \in Nat /\ DOMAIN stepResults = 1..k /\ n \in Nat
      /\ Graph = GraphOf(plan) /\ Graph' = Graph
      /\ Started = FirstIds(plan, k)
      /\ Started' = FirstIds(plan, k)
                    \cup (IF currentStep' = NoStep THEN {} ELSE {currentStep'.id})
      /\ Finished' = {plan.steps[i].id : i \in CoveredResults'}
  BY <1>1, <1>2, <1>3, ResultsAndPlan, MaxRuntimeStepsAssumption DEF WalkView
<1>5. Finished' = Started
  BY <1>2, <1>4 DEF FirstIds
<1>6. Outcome = "none" /\ Outcome' = Outcome /\ Stopped' = Stopped
  BY <1>1, <1>2, NothingDelivered DEF Outcome, Stopped
<1>7. CASE k + 1 < n
  <2>1. /\ currentStep' = plan.steps[k + 1] /\ k + 1 \in 1..(n - 1)
    BY <1>4, <1>7, SchedulingVisit
  <2>2. currentStep' # NoStep
    BY <1>2, <2>1, PlanStep
  <2>3. Started' = Started \cup {plan.steps[k + 1].id}
    BY <1>4, <2>1, <2>2
  <2>4. k + 1 \in Ready(plan, FirstIds(plan, k))
    BY <1>2, <1>4, <1>7, NextStepReady
  <2>5. plan.steps[k + 1].id \in DOMAIN Graph \ Started
    <3>1. DOMAIN Graph = {plan.steps[i].id : i \in 1..(n - 1)}
      BY <1>2, <1>4, GraphOfValidPlan
    <3> QED BY <3>1, <1>4, <2>1, <2>4 DEF Ready
  <2>6. Graph[plan.steps[k + 1].id] = plan.steps[k + 1].deps
    BY <1>2, <1>4, <2>1, GraphOfValidPlan
  <2>7. Graph[plan.steps[k + 1].id] \subseteq Finished'
    BY <1>4, <1>5, <2>4, <2>6 DEF Ready
  <2> QED BY <1>1, <1>4, <1>5, <1>6, <2>3, <2>5, <2>7, AbstractStart DEF AbstractStep
<1>8. CASE k + 1 = n
  <2>1. currentStep' = NoStep
    BY <1>8, SchedulingVisit
  <2>2. Started' = Started
    BY <1>4, <2>1
  <2> QED BY <1>1, <1>4, <1>5, <1>6, <2>2, AbstractFinish DEF AbstractStep
<1> QED BY <1>2, <1>4, <1>7, <1>8

\* A rag step that passed is finished as soon as it is filed.
LEMMA NormalizerFinishes ==
  IInv /\ CauseInv /\ (IInv /\ CauseInv)' /\ NormalizerTransformer => AbstractStep
<1> SUFFICES ASSUME IInv, CauseInv, IInv', CauseInv', NormalizerTransformer PROVE AbstractStep
  OBVIOUS
<1> DEFINE k == Len(stepResults)
<1>1. /\ node = "normalizer_transformer" /\ currentStep' = NoStep
      /\ UNCHANGED <<plan, planStatus, toolResult>>
  BY DEF NormalizerTransformer, Runs
<1>2. /\ plan # NoPlan /\ ValidPlan(plan) /\ k \in Nat
      /\ currentStep = plan.steps[k + 1] /\ currentStep # NoStep
      /\ Len(stepResults') = k + 1
  BY NormalizedResult
<1>3. WalkView /\ WalkView'
  BY WalkViewHolds, WalkViewNext
<1>4. Graph' = Graph /\ Outcome = "none" /\ Outcome' = Outcome /\ Stopped' = Stopped
  BY <1>1, NothingDelivered DEF Graph, Outcome, Stopped
<1>5. Started = FirstIds(plan, k + 1) /\ Started' = Started
  <2>1. Started = FirstIds(plan, k) \cup {plan.steps[k + 1].id}
    BY <1>2, <1>3 DEF WalkView
  <2>2. Started' = FirstIds(plan, k + 1)
    BY <1>1, <1>2, <1>3 DEF WalkView
  <2>3. FirstIds(plan, k + 1) = FirstIds(plan, k) \cup {plan.steps[k + 1].id}
    <3>1. \A j \in 1..(k + 1) : j \in 1..k \/ j = k + 1
      BY <1>2
    <3>2. 1..k \subseteq 1..(k + 1) /\ k + 1 \in 1..(k + 1)
      BY <1>2
    <3> QED BY <3>1, <3>2 DEF FirstIds
  <2> QED BY <2>1, <2>2, <2>3
<1>6. /\ Finished = {plan.steps[i].id : i \in CoveredResults}
      /\ Finished' = {plan.steps[i].id : i \in CoveredResults'}
  BY <1>1, <1>2, <1>3 DEF WalkView
<1>7. CASE RagPassed
  <2>1. Finished' = Started
    BY <1>5, <1>6, <1>7, NormalizerCovers DEF FirstIds
  <2>2. ~Stopped
    BY <1>7, NormalizedResult DEF RagPassed
  <2> QED BY <1>4, <1>5, <2>1, <2>2, AbstractFinish DEF AbstractStep
<1>8. CASE ~RagPassed
  <2>1. Finished' = Finished
    BY <1>6, <1>8, NormalizerCovers
  <2> QED BY <1>4, <1>5, <2>1, AbstractStutter DEF AbstractStep
<1> QED BY <1>7, <1>8

\* A success is delivered with every job finished and nothing stopped.
LEMMA AdapterDelivers == IInv /\ CauseInv /\ Adapter => AbstractStep
<1> SUFFICES ASSUME IInv, CauseInv, Adapter PROVE AbstractStep
  OBVIOUS
<1>1. /\ node = "adapter" /\ bundle \in Bundle /\ toolResult' = bundle
      /\ UNCHANGED <<plan, planStatus, currentStep, stepResults, covered>>
      /\ currentStep = NoStep
  BY DEF Adapter, Runs, progress, IInv, NodeInv, TypeOK, CauseInv, CurrentInv
<1>2. UNCHANGED <<Graph, Started, Finished, Stopped>>
  BY <1>1 DEF Graph, Started, Finished, Stopped
<1>3. Outcome = "none" /\ Outcome' = bundle.status /\ Outcome' \in TerminalResultStatuses
  BY <1>1, NothingDelivered, NoneAssumption DEF Outcome, Bundle
<1>4. ASSUME bundle.status = "success"
      PROVE  ~Stopped /\ Graph # << >> /\ Finished = DOMAIN Graph
  <2> DEFINE k == Len(stepResults)
  <2>1. plan # NoPlan /\ ValidPlan(plan) /\ AllPassed /\ k + 1 = Len(plan.steps)
    BY <1>1, <1>4 DEF IInv, SuccessInv
  <2>2. WalkView
    BY WalkViewHolds
  <2>3. ~Stopped
    BY <1>1, <2>1 DEF CauseInv, StopsForACause, AllPassed
  <2>4. CoveredResults = 1..k
    BY <1>1, <2>1, <2>2 DEF WalkView, CoveredResults, AllPassed
  <2>5. Finished = {plan.steps[i].id : i \in 1..(Len(plan.steps) - 1)}
    <3>1. k = Len(plan.steps) - 1
      BY <2>1, <2>2 DEF WalkView
    <3> QED BY <2>1, <2>2, <2>4, <3>1 DEF WalkView
  <2>6. /\ Graph # << >> /\ Graph \in [ExecutableIds(plan) -> SUBSET ExecutableIds(plan)]
        /\ ExecutableIds(plan) = {plan.steps[i].id : i \in 1..(Len(plan.steps) - 1)}
    BY <2>1, <2>2, GraphOfValidPlan DEF WalkView
  <2> QED BY <2>3, <2>5, <2>6
<1> QED BY <1>2, <1>3, <1>4, AbstractDeliver DEF AbstractStep

\* The tool carries out its plan as PlanExecution says.
THEOREM Implementation == Spec => ImplementsPlanExecution
<1>1. Init => Execution!Init
  BY AbstractInit DEF Init, Graph, Started, Finished, Stopped, Outcome
<1>2. IInv /\ CauseInv /\ (IInv /\ CauseInv)' /\ [Next]_vars => AbstractStep
  BY QuietSteps, PlannerAccepts, SchedulingAdvances, NormalizerFinishes, AdapterDelivers
  DEF Next, Step, Executor, Done
<1> QED BY <1>1, <1>2, Invariance, CauseInvariance, PTL
        DEF Spec, AbstractStep, ImplementsPlanExecution, Execution!Spec

=============================================================================
