---------------------------- MODULE MCSqlRagTool ----------------------------
(***************************************************************************)
(* An instance of SqlRagTool: every plan of one to three executable steps  *)
(* with a well-formed final step, and every plan one edit away from one of *)
(* two steps.                                                              *)
(***************************************************************************)
EXTENDS SqlRagTool

CONSTANTS s1, s2, s3, s4, o1, o2, o3

MCStepIds == {s1, s2, s3, s4}
MCObligationIds == {o1, o2, o3}

Sids == <<s1, s2, s3, s4>>
Oids == <<o1, o2, o3>>

StepOf(id, type, deps, obls) ==
  [id |-> id, type |-> type, goal |-> "text", deps |-> deps, obls |-> obls]

\* n executable steps of the given types and dependencies, and the final one.
PlanOf(n, types, deps) ==
  [status |-> "planned", clean |-> TRUE,
   obligations |-> [i \in 1..n |-> Oids[i]],
   steps |-> [i \in 1..(n + 1) |->
                IF i <= n THEN StepOf(Sids[i], types[i], deps[i], <<Oids[i]>>)
                ELSE StepOf(s4, "final_result", {Sids[k] : k \in 1..n}, << >>)]]

DepChoices(n) ==
  {d \in [1..n -> SUBSET {s1, s2}] : \A i \in 1..n : d[i] \subseteq {Sids[k] : k \in 1..(i - 1)}}

WellFormedPlans ==
  UNION {{PlanOf(n, t, d) : t \in [1..n -> {"rag", "sql"}], d \in DepChoices(n)} : n \in 1..3}

Bases == {p \in WellFormedPlans : Len(p.steps) = 3}

StepEdits(p, i) ==
  {[p EXCEPT !.steps[i].id = v] : v \in {s1, s4, "bad_id"}}
  \cup {[p EXCEPT !.steps[i].type = v] : v \in {"rag", "final_result", "bad_type"}}
  \cup {[p EXCEPT !.steps[i].goal = v] : v \in {"blank", "missing"}}
  \cup {[p EXCEPT !.steps[i].deps = v] : v \in SUBSET {s1, s2, s4}}
  \cup {[p EXCEPT !.steps[i].obls = v] :
           v \in {<< >>, <<o1>>, <<o1, o2>>, <<o2, o2>>, <<o3>>, <<"bad_id">>}}

\* The final step moved forward, last but for one dependency on itself.
FinalInTheMiddle(p) ==
  [p EXCEPT !.steps = <<p.steps[1], [p.steps[3] EXCEPT !.deps = {s1}],
                        [p.steps[2] EXCEPT !.deps = {s4}]>>]

\* The second step under an id the code rejects, wherever the plan names it.
Misnamed(p) ==
  [p EXCEPT !.steps[2].id = "bad_id", !.steps[3].deps = {s1, "bad_id"}]

PlanEdits(p) ==
  {[p EXCEPT !.status = "other"], [p EXCEPT !.clean = FALSE]}
  \cup {[p EXCEPT !.obligations = v] :
          v \in {<< >>, <<o1>>, <<o1, o1>>, <<o1, o2, o3>>, <<o1, "bad_id">>}}
  \cup {[p EXCEPT !.steps = v] :
          v \in {<< >>, <<p.steps[1], p.steps[2]>>, <<p.steps[2], p.steps[1], p.steps[3]>>,
                 p.steps \o p.steps}}
  \cup {FinalInTheMiddle(p), Misnamed(p)}

MCPlans ==
  WellFormedPlans
  \cup UNION {PlanEdits(p) \cup UNION {StepEdits(p, i) : i \in 1..3} : p \in Bases}

=============================================================================
