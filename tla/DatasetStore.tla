---------------------------- MODULE DatasetStore ----------------------------
(***************************************************************************)
(* The runtime dataset in PostgreSQL and the write methods of              *)
(* PostgresRuntimeStore (app/db/runtime_store.py), each one transaction:   *)
(* an operator maps the committed dataset to the next one, or says that    *)
(* the transaction fails.  A source stands for its source_catalog row, the *)
(* catalog entry inserted, renamed and deleted with it and, for a          *)
(* document, the chunks of the entry; a resource stands for the structured *)
(* resources of one file, one for each sheet of a workbook, their columns  *)
(* and their runtime tables: these methods write them all or none.         *)
(* Approved joins and single tables are in StoreTransactions.              *)
(***************************************************************************)
EXTENDS Naturals, SequencesExt

CONSTANTS
  Paths,          \* relative paths under the dataset root
  Kind,           \* Kind[p]: what file_kind_for_extension makes of p
  Scope,          \* Scope[p]: the permission scope of p's top-level folder
  Key,            \* Key[p]: what the tables in p are called: alike for files with
                  \* one resource_key or with relation names cut to one name
  Versions,       \* file contents that parse
  NoRows,         \* a source without chunks
  NoSource        \* catalog_entry_id NULL

ASSUME PathsAssumption ==
  /\ IsFiniteSet(Paths)
  /\ Kind \in [Paths -> {"rag_document", "structured_table", "unsupported"}]

ASSUME NullsAssumption == NoRows \notin Versions /\ NoSource \notin Nat

Documents == {p \in Paths : Kind[p] = "rag_document"}
Tables == {p \in Paths : Kind[p] = "structured_table"}
Supported == Documents \cup Tables

\* uuids are never used twice: "fresh" is the next one.
EmptyDataset == [fresh |-> 0, sources |-> {}, resources |-> {}]

SourcesAt(db, p) == {s \in db.sources : s.path = p}
ResourcesFrom(db, p) == {r \in db.resources : r.origin = p}

\* ON DELETE CASCADE to entry and chunks, SET NULL in structured_resources.
WithoutSources(db, gone) ==
  LET ids == {s.id : s \in gone}
  IN [db EXCEPT !.sources = @ \ gone,
                !.resources = {IF r.source \in ids THEN [r EXCEPT !.source = NoSource] ELSE r :
                                 r \in @}]

WithoutResources(db, gone) == [db EXCEPT !.resources = @ \ gone]

WithSource(db, p, rows) ==
  [db EXCEPT !.fresh = @ + 1,
             !.sources = @ \cup {[id |-> db.fresh, path |-> p, rows |-> rows]}]

\* The resource hangs on the source inserted just before it.
WithResource(db, p, rows) ==
  [db EXCEPT !.fresh = @ + 1,
             !.resources = @ \cup {[id |-> db.fresh, source |-> db.fresh - 1, key |-> Key[p],
                                    origin |-> p, scope |-> Scope[p], rows |-> rows]}]

-----------------------------------------------------------------------------
(* The write methods *)

DeleteDocument(db, p) == WithoutSources(db, SourcesAt(db, p))

MutantRefreshDocument(db, p, rows) == WithSource(db, p, rows)

RefreshDocument(db, p, rows) == WithSource(DeleteDocument(db, p), p, rows)

MutantDeleteStructured(db, p) == WithoutSources(db, SourcesAt(db, p))

\* Resources are found by the path they were imported from, the source by the
\* path it has now.
DeleteStructured(db, p) ==
  WithoutSources(WithoutResources(db, ResourcesFrom(db, p)), SourcesAt(db, p))

\* resource_key is UNIQUE: with the key taken the transaction fails.
KeyIsFree(db, p) == \A r \in DeleteStructured(db, p).resources : r.key # Key[p]

RefreshStructured(db, p, rows) ==
  WithResource(WithSource(DeleteStructured(db, p), p, NoRows), p, rows)

\* source_uri and safe_path change; a resource keeps its origin and key.
RenamePath(db, from, to) ==
  [db EXCEPT !.sources = {IF s.path = from THEN [s EXCEPT !.path = to] ELSE s : s \in @}]

\* Two tables with one resource key make replace_dataset fail and roll back.
ScanFits(scan) ==
  \A p, q \in {t \in DOMAIN scan \cap Tables : scan[t] \in Versions} :
    Key[p] = Key[q] => p = q

\* What replace_dataset inserts for the scanned files, one after the other: a
\* record for each, its chunks or its resource only if the file parsed.
ScannedSources(db, scan) ==
  LET files == SetToSeq(DOMAIN scan)
  IN {[id |-> db.fresh + i, path |-> files[i],
       rows |-> IF files[i] \notin Tables /\ scan[files[i]] \in Versions
                THEN scan[files[i]] ELSE NoRows] : i \in DOMAIN files}

ScannedResources(db, scan) ==
  {[id |-> s.id, source |-> s.id, key |-> Key[s.path], origin |-> s.path,
    scope |-> Scope[s.path], rows |-> scan[s.path]] :
      s \in {t \in ScannedSources(db, scan) : t.path \in Tables /\ scan[t.path] \in Versions}}

MutantReplaceDataset(db, scan) ==
  [fresh |-> db.fresh + Cardinality(DOMAIN scan) + 1,
   sources |-> db.sources \cup ScannedSources(db, scan),
   resources |-> db.resources \cup ScannedResources(db, scan)]

\* The dataset after replace_dataset(scan): everything there was is deleted.
ReplaceDataset(db, scan) ==
  [fresh |-> db.fresh + Cardinality(DOMAIN scan) + 1,
   sources |-> ScannedSources(db, scan),
   resources |-> ScannedResources(db, scan)]

=============================================================================
