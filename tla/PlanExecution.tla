--------------------------- MODULE PlanExecution ---------------------------
(***************************************************************************)
(* What the sql_rag tool promises of a plan, whatever its nodes: the jobs  *)
(* of an accepted dependency graph are started one at a time, each once    *)
(* and after all it depends on has finished; a stop is final; success is   *)
(* delivered only when every job has finished.                             *)
(***************************************************************************)
CONSTANT Jobs

VARIABLES deps, started, finished, stopped, outcome

execVars == <<deps, started, finished, stopped, outcome>>

Outcomes == {"success", "insufficient_evidence", "validation_failed",
             "access_failed", "error"}

Init ==
  /\ deps = << >>
  /\ started = {} /\ finished = {} /\ stopped = FALSE
  /\ outcome = "none"

Accept ==
  /\ outcome = "none" /\ ~stopped /\ deps = << >>
  /\ \E J \in (SUBSET Jobs) \ {{}} : deps' \in [J -> SUBSET J]
  /\ UNCHANGED <<started, finished, stopped, outcome>>

\* The running job, if any, finishes, and the next may start.
Advance ==
  /\ outcome = "none" /\ ~stopped
  /\ finished' \in {finished, started}
  /\ \/ started' = started
     \/ /\ finished' = started
        /\ \E j \in DOMAIN deps \ started :
             deps[j] \subseteq finished' /\ started' = started \cup {j}
  /\ UNCHANGED <<deps, stopped, outcome>>

Stop ==
  /\ outcome = "none" /\ stopped' = TRUE
  /\ UNCHANGED <<deps, started, finished, outcome>>

Deliver ==
  /\ outcome = "none"
  /\ outcome' \in Outcomes
  /\ outcome' = "success" => ~stopped /\ deps # << >> /\ finished = DOMAIN deps
  /\ UNCHANGED <<deps, started, finished, stopped>>

Next == Accept \/ Advance \/ Stop \/ Deliver

Spec == Init /\ [][Next]_execVars

=============================================================================
