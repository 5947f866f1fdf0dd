------------------------- MODULE MCStoreTransactions -------------------------
(***************************************************************************)
(* Instances of StoreTransactions: a workbook with two sheets and a csv    *)
(* file, the names of whose tables are in one instance cut so that the     *)
(* workbook's second sheet and the csv file have one relation; and two csv *)
(* files.                                                                  *)
(***************************************************************************)
EXTENDS StoreTransactions

CONSTANTS rebuild, refresh, refresh2, reader, query, discovery

Sheet(f, k) == [file |-> f, key |-> k]

Book == <<Sheet("book", "book_b"), Sheet("book", "book_a")>>

BookAndCsv == Append(Book, Sheet("csv", "csv"))

TwoFiles == <<Sheet("bill", "bill"), Sheet("csv", "csv")>>

TwoKeys == <<"bill", "csv">>

BookAndCsvKeys == <<"book_a", "book_b", "csv">>

OwnRelations == [k \in Keys |-> k]

CutRelations == [k \in Keys |-> IF k = "csv" THEN "book_b" ELSE k]

MCFileOf == [a \in Refreshers |-> IF a = refresh THEN "book" ELSE "csv"]
MCSchemaOf == [a \in Queries \cup Discoverers |-> reader]

=============================================================================
