--------------------------- MODULE MCWatchdogSync ---------------------------
(***************************************************************************)
(* Instances of WatchdogSync.  doc, note (a temporary name) and memo (in   *)
(* another scope) are text documents; tab and tab2 are csv files of one    *)
(* scope with the same stem in two folders, so with one resource_key.      *)
(***************************************************************************)
EXTENDS WatchdogSync

CONSTANTS doc, note, memo, tab, tab2, v1, v2

AllDocuments == {doc, note, memo}
AllTables == {tab, tab2}
OneOfEach == {doc, tab}

MCKind == [p \in Paths |-> IF p \in AllTables THEN "structured_table" ELSE "rag_document"]
MCScope == [p \in Paths |-> IF p = memo THEN "hr" ELSE "finance"]
MCKey == [p \in Paths |-> "structured:finance:orders"]

Symmetry == Permutations({v1, v2})

=============================================================================
