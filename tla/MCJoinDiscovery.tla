--------------------------- MODULE MCJoinDiscovery ---------------------------
(***************************************************************************)
(* An instance of JoinDiscovery: three tables, of which a discovery takes  *)
(* at most two, with a column each.                                        *)
(***************************************************************************)
EXTENDS JoinDiscovery, TLC

CONSTANTS customers, orders, regions, earlier, refresh, rebuild, batch

MCColumnsOf == [k \in Keys |-> {"id"}]

\* The tables are alike.
TableSymmetry == Permutations(Keys)

=============================================================================
