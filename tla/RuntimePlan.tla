---------------------------- MODULE RuntimePlan ----------------------------
(***************************************************************************)
(* Runtime plans of the sql_rag tool and their deterministic validation    *)
(* (app/tools/sql_rag/contracts.py).  A plan is what the planner model     *)
(* returned, reduced to what validation and execution look at: the ids     *)
(* and types of its steps, their dependencies and the obligations they     *)
(* are assigned.  An id, a type or a goal the code rejects is one member   *)
(* outside StepIds, ObligationIds, AllowedStepTypes or Goals.              *)
(***************************************************************************)
EXTENDS Naturals, Sequences, FiniteSets, SequencesExt

CONSTANTS
  StepIds,         \* the well-formed step ids
  ObligationIds,   \* the well-formed obligation ids
  MaxRuntimeSteps  \* MAX_RUNTIME_STEPS

ASSUME MaxRuntimeStepsAssumption == MaxRuntimeSteps \in Nat \ {0}

AllowedStepTypes == {"rag", "sql", "final_result"}

\* A goal that is only whitespace is truthy: validation lets it through and
\* perform_rag_sql, which strips it, does not.
Goals == {"text", "blank"}

RawStep ==
  [id : StepIds \cup {"bad_id"}, type : AllowedStepTypes \cup {"bad_type"},
   goal : Goals \cup {"missing"}, deps : SUBSET (StepIds \cup {"bad_id"}),
   obls : Seq(ObligationIds \cup {"bad_id"})]

\* "clean": no tool-internal field, no limitation and no error in the plan.
RawPlan ==
  [status : {"planned", "other"}, clean : BOOLEAN,
   obligations : Seq(ObligationIds \cup {"bad_id"}), steps : Seq(RawStep)]

Executable(step) == step.type \in {"rag", "sql"}

ExecutableAt(p) == {i \in DOMAIN p.steps : Executable(p.steps[i])}

FinalAt(p) == {i \in DOMAIN p.steps : p.steps[i].type = "final_result"}

ExecutableIds(p) == {p.steps[i].id : i \in ExecutableAt(p)}

ObligationsOf(p) == ToSet(p.obligations)

ObligationsWellFormed(p) ==
  /\ p.obligations # << >>
  /\ ObligationsOf(p) \subseteq ObligationIds
  /\ IsInjective(p.obligations)

MutantStepsWellFormed(p) ==
  /\ Len(p.steps) \in 1..MaxRuntimeSteps
  /\ \A i \in DOMAIN p.steps :
       p.steps[i].type \in AllowedStepTypes /\ p.steps[i].goal # "missing"
  /\ \A i, j \in DOMAIN p.steps : p.steps[i].id = p.steps[j].id => i = j

StepsWellFormed(p) ==
  /\ Len(p.steps) \in 1..MaxRuntimeSteps
  /\ \A i \in DOMAIN p.steps :
       /\ p.steps[i].id \in StepIds
       /\ p.steps[i].type \in AllowedStepTypes
       /\ p.steps[i].goal # "missing"
  /\ \A i, j \in DOMAIN p.steps : p.steps[i].id = p.steps[j].id => i = j

DependenciesPointBack(p) ==
  \A i \in DOMAIN p.steps : \A d \in p.steps[i].deps :
    \E j \in 1..(i - 1) : p.steps[j].id = d

\* Every obligation is assigned, to one executable step and once.
AssignmentsExact(p) ==
  /\ \A i \in ExecutableAt(p) :
       /\ p.steps[i].obls # << >>
       /\ ToSet(p.steps[i].obls) \subseteq ObligationsOf(p)
       /\ IsInjective(p.steps[i].obls)
  /\ \A i, j \in ExecutableAt(p) :
       i # j => ToSet(p.steps[i].obls) \cap ToSet(p.steps[j].obls) = {}
  /\ \A o \in ObligationsOf(p) :
       \E i \in ExecutableAt(p) : o \in ToSet(p.steps[i].obls)

MutantFinalClosesPlan(p) ==
  \E f \in DOMAIN p.steps : FinalAt(p) = {f} /\ p.steps[f].obls = << >>

FinalClosesPlan(p) ==
  \E f \in DOMAIN p.steps :
    /\ FinalAt(p) = {f}
    /\ p.steps[f].obls = << >>
    /\ p.steps[f].deps = ExecutableIds(p)

ValidPlan(p) ==
  /\ p.status = "planned" /\ p.clean
  /\ ObligationsWellFormed(p)
  /\ StepsWellFormed(p)
  /\ DependenciesPointBack(p)
  /\ AssignmentsExact(p)
  /\ FinalClosesPlan(p)

=============================================================================
