------------------------------ MODULE MainGraph ------------------------------
(***************************************************************************)
(* The main graph (app/graphs/main): a request of Open WebUI is one run of *)
(* it on a worker thread.  The permission stage, where requests meet, runs *)
(* node by node (PermissionSchema); the planner, the tool and the composer *)
(* work on the state of their own request, a step each.  The tool's result *)
(* is any that SqlRagTool ends with; the models may answer anything.       *)
(***************************************************************************)
EXTENDS PermissionSchema, Sequences, SequencesExt, ChildContract

CONSTANTS
  CitationCounts   \* for each rag step of a run, how many chunks it cites

\* Python's None is no status of a tool.
ASSUME NoneAssumption == None \notin TerminalResultStatuses

ASSUME CountsAssumption == CitationCounts \subseteq Seq(Nat)

VARIABLES
  tool,      \* status of tool_results, None before tool_dispatch
  context,   \* final_answer_context
  answer     \* final_status, public_citations and, history, those the model's ids meant

vars == <<permissionVars, tool, context, answer>>

tail == <<tool, context, answer>>

Init ==
  /\ PermissionInit
  /\ tool = [w \in Workers |-> None] /\ context = [w \in Workers |-> None]
  /\ answer = [w \in Workers |-> None]

-----------------------------------------------------------------------------

\* openwebui_ask and request_intake: a run starts from an empty state.
Ask(w) == \E u \in Users :
  /\ node[w] \in {"idle", "END", "raised"}
  /\ Goes(w, "request_intake")
  /\ user' = [user EXCEPT ![w] = u]
  /\ access' = [access EXCEPT ![w] = "in_progress"]
  /\ found' = [found EXCEPT ![w] = None] /\ groups' = [groups EXCEPT ![w] = FALSE]
  /\ schema' = [schema EXCEPT ![w] = None]
  /\ readAt' = [readAt EXCEPT ![w] = 0] /\ decidedAt' = [decidedAt EXCEPT ![w] = 0]
  /\ tool' = [tool EXCEPT ![w] = None] /\ context' = [context EXCEPT ![w] = None]
  /\ answer' = [answer EXCEPT ![w] = None]
  /\ UNCHANGED <<cache, directory, clock, changes, groupsUntil, scopeUntil>>

Keep == UNCHANGED <<found, groups, cache, readAt, decidedAt>>

\* What the permission stage leaves behind and no later node reads.
Forget(w) ==
  /\ groups' = [groups EXCEPT ![w] = FALSE]
  /\ readAt' = [readAt EXCEPT ![w] = 0] /\ decidedAt' = [decidedAt EXCEPT ![w] = 0]
  /\ UNCHANGED <<found, cache>>

\* safe_terminal_context
Ends(w, status) ==
  /\ context' = [context EXCEPT ![w] = [status |-> status, citations |-> << >>]]
  /\ Goes(w, "final_answer_composer")

AfterPermission(status) == IF status = "ok" THEN "planner" ELSE "composer"

\* emit_permission_schema and what the main graph makes of it.
EmitPermissionSchema(w) ==
  /\ At(w, "emit_permission_schema")
  /\ schema' = [schema EXCEPT ![w] = IF access[w] = "ok" THEN @ ELSE None]
  /\ IF AfterPermission(access[w]) = "planner"
     THEN Goes(w, "tool_selection_planner") /\ UNCHANGED context
     ELSE Ends(w, IF access[w] = "denied" THEN "denied" ELSE "access_failed")
  /\ Forget(w) /\ UNCHANGED <<access, tool, answer>>

\* The one card is there with a schema; whether it is enabled is not looked at.
Cards(w) == IF schema[w] = None THEN {} ELSE {"sql_rag"}

\* parse_tool_selection_output.  "unreadable" is also a model that is missing or
\* raises, and output with tool-internal fields or malformed tools.
ParseSelection(status, tools, cards) ==
  IF status = "unreadable" \/ (status = "selected" /\ (tools = {} \/ ~(tools \subseteq cards)))
  THEN "error" ELSE status

ToolSelectionPlanner(w) ==
  /\ At(w, "tool_selection_planner")
  /\ \E status \in {"selected", "clarification", "unsupported", "error", "unreadable"},
        tools \in SUBSET {"sql_rag", "other"} :
       IF ParseSelection(status, tools, Cards(w)) = "selected"
       THEN Goes(w, "tool_dispatch") /\ UNCHANGED context
       ELSE Ends(w, ParseSelection(status, tools, Cards(w)))
  /\ Keep /\ UNCHANGED <<access, schema, tool, answer>>

\* The citations of the rag steps in the order they ran.  validate_chunks numbers
\* the citations of each step from one.
CitationsOf(counts) ==
  FlattenSeq([k \in DOMAIN counts |-> [i \in 1..counts[k] |-> [id |-> i, step |-> k]]])

\* What the tool's input check (require_sql_rag_input) leaves a status to choose
\* from.  Steps that ran before a failure keep their citations.
ToolStatuses(w) ==
  IF access[w] = "ok" /\ schema[w] # None THEN TerminalResultStatuses ELSE {"access_failed"}

ToolDispatch(w) ==
  /\ At(w, "tool_dispatch")
  /\ \/ \E status \in ToolStatuses(w), counts \in CitationCounts :
          /\ tool' = [tool EXCEPT ![w] = status]
          /\ context' = [context EXCEPT ![w] = [status |-> status, citations |-> CitationsOf(counts)]]
          /\ Goes(w, "final_answer_composer")
     \/ Goes(w, "raised") /\ UNCHANGED <<tool, context>>
  /\ Keep /\ UNCHANGED <<access, schema, answer>>

-----------------------------------------------------------------------------
(* final_answer_composer *)

MutantFinalStatusByContext(status) == "answered"

FinalStatusByContext(status) == IF status = "success" THEN "answered" ELSE status

\* The question is blank, or the model is missing, raises or answers what
\* parse_llm_json rejects: whatever the context was, the status is error.
ComposerFails(w) ==
  /\ At(w, "final_answer_composer")
  /\ answer' = [answer EXCEPT ![w] = [status |-> "error", citations |-> << >>, meant |-> << >>]]
  /\ Goes(w, "END")
  /\ Keep /\ UNCHANGED <<access, schema, tool, context>>

MutantById(citations, id) ==
  citations[Min({k \in DOMAIN citations : citations[k].id = id})]

\* attach_citations: of citations with one id, the dictionary keeps the last.
ById(citations, id) ==
  citations[Max({k \in DOMAIN citations : citations[k].id = id})]

\* The model names the ids of some citations; an id it made up is dropped.
FinalAnswerComposer(w) ==
  /\ At(w, "final_answer_composer")
  /\ \E meant \in {<< >>} \cup {<<c>> : c \in ToSet(context[w].citations)} :
       answer' = [answer EXCEPT ![w] =
         [status |-> FinalStatusByContext(context[w].status),
          citations |-> [k \in DOMAIN meant |-> ById(context[w].citations, meant[k].id)],
          meant |-> meant]]
  /\ Goes(w, "END")
  /\ Keep /\ UNCHANGED <<access, schema, tool, context>>

Next ==
  \/ ChangeDirectory /\ UNCHANGED tail
  \/ Tick /\ UNCHANGED tail
  \/ \E w \in Workers :
       \/ PermissionStep(w) /\ UNCHANGED tail
       \/ Ask(w) \/ EmitPermissionSchema(w) \/ ToolSelectionPlanner(w) \/ ToolDispatch(w)
       \/ ComposerFails(w) \/ FinalAnswerComposer(w)

Spec == Init /\ [][Next]_vars

-----------------------------------------------------------------------------
(* Properties *)

\* A request is reported as answered only if the tool succeeded for it, the tool
\* runs only with the schema of the request's own user, and nothing but the tool
\* puts a citation before the composer.
AnswersAreEarned ==
  \A w \in Workers :
    /\ answer[w] # None /\ answer[w].status = "answered" => tool[w] = "success"
    /\ tool[w] # None => access[w] = "ok" /\ schema[w].user = user[w]
    /\ context[w] # None /\ context[w].citations # << >> => tool[w] # None

\* A citation shown to the user is the one the model meant, unless a later rag
\* step numbered a citation of its own alike: then it is that one.
CitationsMeantOrShadowed ==
  \A w \in Workers : answer[w] # None =>
    \A k \in DOMAIN answer[w].citations :
      LET shown == answer[w].citations[k]
          meant == answer[w].meant[k]
      IN shown # meant => shown.step > meant.step /\ shown.id = meant.id

=============================================================================
