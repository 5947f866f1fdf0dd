---------------------------- MODULE ChildContract ----------------------------
(***************************************************************************)
(* What a child workflow hands back to the sql_rag tool: the result of     *)
(* public_rag_result or public_sql_result, reduced to what the tool looks  *)
(* at.  SqlRagTool takes any such result; SqlSubgraph and RagSubgraph show *)
(* that they produce no other.                                             *)
(***************************************************************************)

TerminalResultStatuses == {"success", "insufficient_evidence",
                           "validation_failed", "access_failed", "error"}

\* "material" is evidence of a rag step or rows of an sql step that pass the
\* coverage gate; "nulls" is an sql result with rows and a column that is null in
\* all of them; "none" is the empty validated output.
Outputs == {"material", "nulls", "none"}

ChildResult == [status : TerminalResultStatuses, output : Outputs]

\* emit_rag_result, emit_rag_failure; emit_sql_result, emit_sql_failure.
ChildResults(type) ==
  [status : {"success"}, output : IF type = "sql" THEN {"material", "nulls"}
                                                  ELSE {"material"}]
  \cup [status : IF type = "sql" THEN TerminalResultStatuses \ {"success"}
                 ELSE {"insufficient_evidence", "error"},
        output : {"none"}]

=============================================================================
