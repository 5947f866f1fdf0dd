----------------------------- MODULE RagSubgraph -----------------------------
(***************************************************************************)
(* The rag child workflow (app/tools/sql_rag/rag/graph.py): one run of its *)
(* nodes over documents that rebuilds and the watchdog replace, rename and *)
(* delete meanwhile.  The run lists the documents twice: to filter them by *)
(* permission and, when some are selected, to take their chunks.           *)
(***************************************************************************)
EXTENDS Naturals, FiniteSets, ChildContract

CONSTANTS
  Paths, ScopeOf,  \* relative paths, and the scope of each one's top folder
  Users,           \* permission schemas: [scopes, refs]
  MaxChanges,      \* bound: changes of the documents during the run
  NoResult

VARIABLES
  node, status,  \* the next node; rag_status
  user, intake,
  documents,     \* the store: an entry and its chunks
  filtered,      \* filtered_rag_schema: entries as they were listed
  selected,      \* selected_documents
  chunks,        \* retrieved_chunks
  evidence,      \* validated_evidence with its citations
  result,        \* rag_result
  fresh,         \* the next entry id
  changes,       \* history: changes of the documents
  listed         \* history: the documents when the chunks were taken

vars == <<node, status, user, intake, documents, filtered, selected, chunks,
          evidence, result, fresh, changes, listed>>

\* "unsafe": text UNSAFE_TEXT_RE finds something in.
Texts == {"plain", "unsafe"}

\* The citation stored with a chunk keeps the path it was imported from.
Document(id, p, text) == [ref |-> id, path |-> p, scope |-> ScopeOf[p], imported |-> p, text |-> text]

Init ==
  /\ node = "rag_intake" /\ status = "unset"
  /\ user \in Users /\ intake \in {"ok", "malformed"}
  /\ \E loaded \in SUBSET Paths : \E text \in [loaded -> Texts], id \in [loaded -> 0..1] :
       /\ \A p, q \in loaded : id[p] = id[q] => p = q
       /\ documents = {Document(id[p], p, text[p]) : p \in loaded}
  /\ filtered = {} /\ selected = {} /\ chunks = {} /\ evidence = {}
  /\ result = NoResult
  /\ fresh = 2 /\ changes = 0 /\ listed = {}

-----------------------------------------------------------------------------
(* The other writers of the store *)

Change(docs) ==
  /\ changes < MaxChanges /\ changes' = changes + 1
  /\ documents' = docs
  /\ UNCHANGED <<node, status, user, intake, filtered, selected, chunks, evidence, result, listed>>

DeleteDocument == \E d \in documents : Change(documents \ {d}) /\ UNCHANGED fresh

\* Also the import of a new file.
RefreshDocument == \E p \in Paths, text \in Texts :
  /\ Change({d \in documents : d.path # p} \cup {Document(fresh, p, text)})
  /\ fresh' = fresh + 1

\* Moves to another scope are left to a rebuild.
RenamePath == \E d \in documents, p \in Paths :
  /\ ScopeOf[p] = d.scope /\ \A e \in documents : e.path # p
  /\ Change((documents \ {d}) \cup {[d EXCEPT !.path = p]})
  /\ UNCHANGED fresh

-----------------------------------------------------------------------------
(* The nodes *)

At(n) == node = n /\ UNCHANGED <<user, intake, documents, fresh, changes>>

Fail(as) == status' = as /\ node' = "emit_rag_failure"

Goes(n) == node' = n /\ UNCHANGED status

\* A driver error while the store is read; find_document_chunks catches none.
StoreRaises ==
  /\ \/ At("build_permission_filtered_rag_schema")
     \/ At("retrieve_relevant_chunks")
  /\ Goes("raised")
  /\ UNCHANGED <<filtered, selected, chunks, evidence, result, listed>>

RagIntake ==
  /\ At("rag_intake")
  /\ IF intake = "ok" THEN status' = "running" /\ node' = "build_permission_filtered_rag_schema"
                      ELSE Fail("error")
  /\ UNCHANGED <<filtered, selected, chunks, evidence, result, listed>>

\* By entry, scope or namespace, which is the scope for documents of the store.
DocumentIsAllowed(d) == d.ref \in user.refs \/ d.scope \in user.scopes

BuildPermissionFilteredRagSchema ==
  /\ At("build_permission_filtered_rag_schema")
  /\ \/ Fail("error") /\ UNCHANGED filtered
     \/ /\ filtered' = {d \in documents : DocumentIsAllowed(d)}
        /\ IF filtered' = {} THEN Fail("insufficient_evidence")
                             ELSE Goes("build_rag_search_plan")
  /\ UNCHANGED <<selected, chunks, evidence, result, listed>>

\* After read_filtered_rag_schema.  The plan names any documents.
BuildRagSearchPlan ==
  /\ At("build_rag_search_plan")
  /\ \/ Fail("error") /\ UNCHANGED selected
     \/ /\ selected' \in SUBSET filtered
        /\ Goes("select_relevant_documents")
  /\ UNCHANGED <<filtered, chunks, evidence, result, listed>>

SelectRelevantDocuments ==
  /\ At("select_relevant_documents")
  /\ IF selected = {} THEN Fail("insufficient_evidence") ELSE Goes("retrieve_relevant_chunks")
  /\ UNCHANGED <<filtered, selected, chunks, evidence, result, listed>>

\* find_document_chunks: of the documents as they are now, those selected, if
\* their text matches the query terms.
RetrieveRelevantChunks ==
  /\ At("retrieve_relevant_chunks")
  /\ listed' = documents
  /\ \E matching \in SUBSET {d \in documents : \E s \in selected : s.ref = d.ref} :
       /\ chunks' = matching
       /\ IF matching = {} THEN Fail("insufficient_evidence") ELSE Goes("validate_rag_evidence")
  /\ UNCHANGED <<filtered, selected, evidence, result>>

MutantCitationPath(chunk) == chunk.imported

\* The stored citation has its path under another key than the one read here:
\* the path of the document counts.
CitationPath(chunk) == chunk.path

\* validate_chunks
EvidenceFrom(retrieved) ==
  {[ref |-> c.ref, text |-> c.text, cited |-> CitationPath(c)] :
     c \in {d \in retrieved : d.text = "plain"}}

MutantSufficient(found) == TRUE

Sufficient(found) == found # {}

ValidateRagEvidence ==
  /\ At("validate_rag_evidence")
  /\ evidence' = EvidenceFrom(chunks)
  /\ IF Sufficient(evidence') THEN Goes("emit_rag_result") ELSE Fail("insufficient_evidence")
  /\ UNCHANGED <<filtered, selected, chunks, result, listed>>

EmitRagResult ==
  /\ At("emit_rag_result")
  /\ status' = "success" /\ node' = "END"
  /\ result' = [status |-> "success", output |-> "material"]
  /\ UNCHANGED <<filtered, selected, chunks, evidence, listed>>

EmitRagFailure ==
  /\ At("emit_rag_failure")
  /\ Goes("END")
  /\ result' = [status |-> status, output |-> "none"]
  /\ UNCHANGED <<filtered, selected, chunks, evidence, listed>>

Done == node \in {"END", "raised"} /\ UNCHANGED vars

Next ==
  \/ DeleteDocument \/ RefreshDocument \/ RenamePath
  \/ StoreRaises \/ RagIntake \/ BuildPermissionFilteredRagSchema
  \/ BuildRagSearchPlan \/ SelectRelevantDocuments \/ RetrieveRelevantChunks
  \/ ValidateRagEvidence \/ EmitRagResult \/ EmitRagFailure
  \/ Done

Spec == Init /\ [][Next]_vars

-----------------------------------------------------------------------------
(* Properties *)

\* A result is one the tool counts on: a success with evidence, or an empty
\* output with one of the two statuses of a rag failure.
KeepsContract ==
  result # NoResult =>
    /\ result \in ChildResults("rag")
    /\ result.status = "success" <=> evidence # {}

\* All evidence was, when its text was read, in a document the user may read,
\* and is cited at the path the document then had: not the one it was imported
\* from, filtered by or selected at.  No part of it is unsafe.
EvidenceIsCurrent ==
  \A e \in evidence : \E d \in listed :
    /\ d.ref = e.ref /\ d.text = e.text /\ d.path = e.cited
    /\ d.scope \in user.scopes \/ d.ref \in user.refs
    /\ e.text # "unsafe"

=============================================================================
