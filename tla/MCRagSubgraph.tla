---------------------------- MODULE MCRagSubgraph ----------------------------
(***************************************************************************)
(* An instance of RagSubgraph: three paths in two scopes, up to two files  *)
(* at the start, and users with one scope, one entry, or nothing.          *)
(***************************************************************************)
EXTENDS RagSubgraph

CONSTANTS policy, handbook, salaries

MCScopeOf == [p \in Paths |-> IF p = salaries THEN "hr" ELSE "policies"]

MCUsers ==
  {[scopes |-> {"policies"}, refs |-> {}], [scopes |-> {}, refs |-> {1}],
   [scopes |-> {}, refs |-> {}]}

=============================================================================
