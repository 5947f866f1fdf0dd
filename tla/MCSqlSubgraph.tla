---------------------------- MODULE MCSqlSubgraph ----------------------------
(***************************************************************************)
(* An instance of SqlSubgraph: two resources in two scopes; a resource may *)
(* be absent or have lost a column; the users may read one scope, one      *)
(* resource by its key, or nothing.                                        *)
(***************************************************************************)
EXTENDS SqlSubgraph

CONSTANTS orders, staff, id, name

MCScopeOf == [k \in Keys |-> IF k = orders THEN "finance" ELSE "hr"]

Dataset(ordersColumns, staffColumns) ==
  [k \in Keys |-> IF k = orders THEN ordersColumns ELSE staffColumns]

MCDatasets ==
  {Dataset({id, name}, {id}), Dataset({name}, {id}), Dataset({id}, {}), Dataset({}, {id, name})}

MCUsers ==
  {[scopes |-> {"finance"}, keys |-> {}], [scopes |-> {"finance"}, keys |-> {staff}],
   [scopes |-> {}, keys |-> {}]}

=============================================================================
