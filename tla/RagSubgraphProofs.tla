------------------------- MODULE RagSubgraphProofs -------------------------
(***************************************************************************)
(* Proofs about RagSubgraph, for every set of paths, scopes and users, and *)
(* any number of changes to the documents while a run is on.  The          *)
(* argument: an entry id is given out once, and a document that keeps its  *)
(* entry, renamed as it may be, keeps its scope.  So what was allowed when *)
(* the run filtered the documents is allowed when it reads their chunks,   *)
(* and a document replaced in between is not found again.                  *)
(***************************************************************************)
EXTENDS RagSubgraph, TLAPS

Documents ==
  [ref : Nat, path : Paths, scope : {ScopeOf[p] : p \in Paths}, imported : Paths, text : Texts]

\* The nodes before evidence is validated, and all of them.
UntilEvidence ==
  {"rag_intake", "build_permission_filtered_rag_schema", "build_rag_search_plan",
   "select_relevant_documents", "retrieve_relevant_chunks", "validate_rag_evidence"}

Nodes == UntilEvidence \cup {"emit_rag_result", "emit_rag_failure", "END", "raised"}

RagFailures == {"insufficient_evidence", "error"}

TypeOK ==
  /\ node \in Nodes /\ status \in {"unset", "running", "success"} \cup RagFailures
  /\ user \in Users /\ intake \in {"ok", "malformed"}
  /\ documents \subseteq Documents /\ filtered \subseteq Documents
  /\ selected \subseteq filtered /\ chunks \subseteq listed /\ listed \subseteq Documents
  /\ fresh \in Nat /\ changes \in Nat

\* An entry is one document, under one path; its id says in which scope it is,
\* now and when it was filtered.
EntryInv ==
  /\ \A d, e \in documents : d.ref = e.ref \/ d.path = e.path => d = e
  /\ \A d \in documents \cup filtered : d.ref < fresh
  /\ \A d \in documents, s \in filtered : d.ref = s.ref => d.scope = s.scope

AllowedInv == \A d \in filtered \cup chunks : DocumentIsAllowed(d)

\* Nothing is selected before it is filtered, nothing is evidence before its
\* validation, and no failure has any.
StatusInv ==
  /\ node \in {"rag_intake", "build_permission_filtered_rag_schema"} => selected = {}
  /\ node # "END" => result = NoResult
  /\ node \in UntilEvidence => evidence = {}
  /\ node = "emit_rag_failure" => status \in RagFailures /\ evidence = {}
  /\ node = "emit_rag_result" => evidence # {}

IInv == TypeOK /\ EntryInv /\ AllowedInv /\ StatusInv /\ KeepsContract /\ EvidenceIsCurrent

-----------------------------------------------------------------------------

LEMMA DocumentFields ==
  ASSUME NEW id \in Nat, NEW p \in Paths, NEW text \in Texts
  PROVE  /\ Document(id, p, text) \in Documents
         /\ Document(id, p, text).ref = id /\ Document(id, p, text).path = p
BY DEF Document, Documents

\* The invariant holds at the start.
LEMMA InitIInv == Init => IInv
<1> SUFFICES ASSUME Init PROVE IInv
  OBVIOUS
<1>1. PICK loaded \in SUBSET Paths : \E text \in [loaded -> Texts], id \in [loaded -> 0..1] :
        /\ \A p, q \in loaded : id[p] = id[q] => p = q
        /\ documents = {Document(id[p], p, text[p]) : p \in loaded}
  BY DEF Init
<1>2. PICK text \in [loaded -> Texts], id \in [loaded -> 0..1] :
        /\ \A p, q \in loaded : id[p] = id[q] => p = q
        /\ documents = {Document(id[p], p, text[p]) : p \in loaded}
  BY <1>1
<1>3. \A p \in loaded : /\ Document(id[p], p, text[p]) \in Documents
                        /\ Document(id[p], p, text[p]).ref = id[p]
                        /\ Document(id[p], p, text[p]).path = p
                        /\ id[p] < 2
  BY <1>1, DocumentFields
<1>4. TypeOK
  BY <1>2, <1>3 DEF Init, TypeOK, Nodes, UntilEvidence
<1>5. EntryInv
  BY <1>2, <1>3 DEF Init, EntryInv
<1>6. AllowedInv /\ StatusInv /\ KeepsContract /\ EvidenceIsCurrent
  BY DEF Init, AllowedInv, StatusInv, KeepsContract, EvidenceIsCurrent
<1> QED BY <1>4, <1>5, <1>6 DEF IInv

\* The other writers cannot bring an entry back or carry one into another scope.
LEMMA ChangesKeepEntries ==
  ASSUME IInv, DeleteDocument \/ RefreshDocument \/ RenamePath
  PROVE  /\ documents' \subseteq Documents /\ fresh' \in Nat /\ changes' \in Nat /\ EntryInv'
         /\ UNCHANGED <<node, status, user, intake, filtered, selected, chunks, evidence, result, listed>>
<1> USE DEF IInv, TypeOK
<1>1. CASE DeleteDocument
  BY <1>1 DEF DeleteDocument, Change, EntryInv
<1>2. CASE RefreshDocument
  <2>1. PICK p \in Paths, text \in Texts :
          /\ Change({d \in documents : d.path # p} \cup {Document(fresh, p, text)})
          /\ fresh' = fresh + 1
    BY <1>2 DEF RefreshDocument
  <2> DEFINE new == Document(fresh, p, text)
  <2>2. new \in Documents /\ new.ref = fresh /\ new.path = p
    BY DocumentFields
  <2> HIDE DEF new
  <2>3. documents' = {d \in documents : d.path # p} \cup {new}
    BY <2>1 DEF Change, new
  <2>4. /\ changes' \in Nat
        /\ UNCHANGED <<node, status, user, intake, filtered, selected, chunks, evidence, result, listed>>
    BY <2>1 DEF Change
  <2>5. \A d \in documents \cup filtered : d.ref \in Nat /\ d.ref < fresh /\ d.ref < fresh + 1
    BY DEF EntryInv, Documents
  <2>6. EntryInv'
    BY <2>1, <2>2, <2>3, <2>4, <2>5 DEF EntryInv
  <2> QED BY <2>1, <2>2, <2>3, <2>4, <2>6
<1>3. CASE RenamePath
  <2>1. PICK d \in documents, p \in Paths :
          /\ \A e \in documents : e.path # p
          /\ Change((documents \ {d}) \cup {[d EXCEPT !.path = p]})
          /\ fresh' = fresh
    BY <1>3 DEF RenamePath
  <2> DEFINE new == [d EXCEPT !.path = p]
  <2>2. new \in Documents /\ new.ref = d.ref /\ new.path = p /\ new.scope = d.scope
    BY DEF Documents
  <2> HIDE DEF new
  <2>3. documents' = (documents \ {d}) \cup {new}
    BY <2>1 DEF Change, new
  <2>4. /\ changes' \in Nat
        /\ UNCHANGED <<node, status, user, intake, filtered, selected, chunks, evidence, result, listed>>
    BY <2>1 DEF Change
  <2>5. EntryInv'
    BY <2>1, <2>2, <2>3, <2>4 DEF EntryInv
  <2> QED BY <2>1, <2>2, <2>3, <2>4, <2>5
<1> QED BY <1>1, <1>2, <1>3

\* What a node finds in the fields that its predecessors wrote.
LEMMA NodeStepIInv ==
  ASSUME IInv,
         \/ StoreRaises \/ RagIntake \/ BuildPermissionFilteredRagSchema
         \/ BuildRagSearchPlan \/ SelectRelevantDocuments \/ RetrieveRelevantChunks
         \/ ValidateRagEvidence \/ EmitRagResult \/ EmitRagFailure
  PROVE  IInv'
<1> USE DEF IInv, At, Goes, Fail, RagFailures
<1>1. CASE StoreRaises \/ RagIntake \/ SelectRelevantDocuments
  BY <1>1 DEF StoreRaises, RagIntake, SelectRelevantDocuments, TypeOK, Nodes, UntilEvidence,
              EntryInv, AllowedInv, DocumentIsAllowed, StatusInv, KeepsContract, EvidenceIsCurrent
<1>2. CASE BuildPermissionFilteredRagSchema
  <2>1. /\ node = "build_permission_filtered_rag_schema"
        /\ result = NoResult /\ evidence = {} /\ selected = {}
        /\ UNCHANGED <<user, intake, documents, fresh, changes,
                       selected, chunks, evidence, result, listed>>
    BY <1>2 DEF BuildPermissionFilteredRagSchema, StatusInv, UntilEvidence
  <2>2. CASE Fail("error") /\ UNCHANGED filtered
    BY <2>1, <2>2 DEF TypeOK, Nodes, UntilEvidence, EntryInv, AllowedInv, DocumentIsAllowed,
                      StatusInv, KeepsContract, EvidenceIsCurrent
  <2>3. CASE /\ filtered' = {d \in documents : DocumentIsAllowed(d)}
             /\ IF filtered' = {} THEN Fail("insufficient_evidence")
                                  ELSE Goes("build_rag_search_plan")
    <3>1. TypeOK'
      BY <2>1, <2>3 DEF TypeOK, Nodes, UntilEvidence
    <3>2. EntryInv'
      BY <2>1, <2>3 DEF EntryInv
    <3>3. AllowedInv'
      BY <2>1, <2>3 DEF AllowedInv, DocumentIsAllowed
    <3>4. StatusInv' /\ KeepsContract' /\ EvidenceIsCurrent'
      BY <2>1, <2>3 DEF StatusInv, UntilEvidence, KeepsContract, EvidenceIsCurrent
    <3> QED BY <3>1, <3>2, <3>3, <3>4
  <2> QED BY <1>2, <2>2, <2>3 DEF BuildPermissionFilteredRagSchema
<1>3. CASE BuildRagSearchPlan
  BY <1>3 DEF BuildRagSearchPlan, TypeOK, Nodes, UntilEvidence, EntryInv, AllowedInv,
              DocumentIsAllowed, StatusInv, KeepsContract, EvidenceIsCurrent
<1>4. CASE RetrieveRelevantChunks
  <2>1. PICK matching \in SUBSET {d \in documents : \E s \in selected : s.ref = d.ref} :
          /\ chunks' = matching
          /\ IF matching = {} THEN Fail("insufficient_evidence") ELSE Goes("validate_rag_evidence")
    BY <1>4 DEF RetrieveRelevantChunks
  <2>2. /\ node = "retrieve_relevant_chunks" /\ result = NoResult /\ evidence = {}
        /\ listed' = documents
        /\ UNCHANGED <<user, intake, documents, fresh, changes, filtered, selected, evidence, result>>
    BY <1>4 DEF RetrieveRelevantChunks, StatusInv, UntilEvidence
  <2>3. \A d \in matching : DocumentIsAllowed(d)
    <3> SUFFICES ASSUME NEW d \in matching PROVE DocumentIsAllowed(d)
      OBVIOUS
    <3>1. PICK s \in filtered : s.ref = d.ref
      BY DEF TypeOK
    <3>2. s.scope = d.scope /\ DocumentIsAllowed(s)
      BY <3>1 DEF EntryInv, AllowedInv
    <3> QED BY <3>1, <3>2 DEF DocumentIsAllowed
  <2>4. TypeOK' /\ EntryInv'
    BY <2>1, <2>2 DEF TypeOK, Nodes, UntilEvidence, EntryInv
  <2>5. AllowedInv'
    BY <2>1, <2>2, <2>3 DEF AllowedInv, DocumentIsAllowed
  <2>6. StatusInv' /\ KeepsContract' /\ EvidenceIsCurrent'
    BY <2>1, <2>2 DEF StatusInv, UntilEvidence, KeepsContract, EvidenceIsCurrent
  <2> QED BY <2>4, <2>5, <2>6
<1>5. CASE ValidateRagEvidence
  <2>1. /\ node = "validate_rag_evidence" /\ result = NoResult
        /\ evidence' = EvidenceFrom(chunks)
        /\ IF evidence' # {} THEN Goes("emit_rag_result") ELSE Fail("insufficient_evidence")
        /\ UNCHANGED <<user, intake, documents, fresh, changes, filtered, selected, chunks, result, listed>>
    BY <1>5 DEF ValidateRagEvidence, Sufficient, StatusInv
  <2>2. ASSUME NEW e \in evidence'
        PROVE  \E d \in listed : /\ d.ref = e.ref /\ d.text = e.text /\ d.path = e.cited
                                 /\ DocumentIsAllowed(d) /\ e.text # "unsafe"
    <3>1. PICK c \in chunks :
            c.text = "plain" /\ e = [ref |-> c.ref, text |-> c.text, cited |-> c.path]
      BY <2>1 DEF EvidenceFrom, CitationPath
    <3> QED BY <3>1 DEF TypeOK, AllowedInv
  <2>3. EvidenceIsCurrent'
    BY <2>1, <2>2 DEF EvidenceIsCurrent, DocumentIsAllowed
  <2>4. TypeOK' /\ EntryInv' /\ AllowedInv'
    BY <2>1 DEF TypeOK, Nodes, UntilEvidence, EntryInv, AllowedInv, DocumentIsAllowed
  <2>5. StatusInv' /\ KeepsContract'
    BY <2>1 DEF StatusInv, UntilEvidence, KeepsContract
  <2> QED BY <2>3, <2>4, <2>5
<1>6. CASE EmitRagResult \/ EmitRagFailure
  <2>1. /\ node' = "END"
        /\ UNCHANGED <<user, intake, documents, fresh, changes,
                       filtered, selected, chunks, evidence, listed>>
        /\ \/ evidence # {} /\ status' = "success"
              /\ result' = [status |-> "success", output |-> "material"]
           \/ evidence = {} /\ status' = status /\ status \in RagFailures
              /\ result' = [status |-> status, output |-> "none"]
    BY <1>6 DEF EmitRagResult, EmitRagFailure, StatusInv
  <2>2. KeepsContract'
    BY <2>1 DEF KeepsContract, ChildResults
  <2>3. TypeOK' /\ EntryInv' /\ AllowedInv' /\ StatusInv' /\ EvidenceIsCurrent'
    BY <2>1 DEF TypeOK, Nodes, UntilEvidence, EntryInv, AllowedInv, DocumentIsAllowed,
                StatusInv, EvidenceIsCurrent
  <2> QED BY <2>2, <2>3
<1> QED BY <1>1, <1>2, <1>3, <1>4, <1>5, <1>6

\* Every step preserves the invariant.
LEMMA NextIInv == IInv /\ [Next]_vars => IInv'
<1> SUFFICES ASSUME IInv, [Next]_vars PROVE IInv'
  OBVIOUS
<1>1. CASE DeleteDocument \/ RefreshDocument \/ RenamePath
  BY <1>1, ChangesKeepEntries DEF IInv, TypeOK, AllowedInv, DocumentIsAllowed, StatusInv,
                                  KeepsContract, EvidenceIsCurrent
<1>2. CASE Done \/ UNCHANGED vars
  BY <1>2 DEF Done, vars, IInv, TypeOK, EntryInv, AllowedInv, DocumentIsAllowed, StatusInv,
              KeepsContract, EvidenceIsCurrent
<1> QED BY <1>1, <1>2, NodeStepIInv DEF Next

\* The documents may change however often and in between any two nodes of a run.
THEOREM RagSubgraphInvariance == Spec => []IInv
BY InitIInv, NextIInv, PTL DEF Spec

\* A rag run ends with a result of the form the tool takes, a success just when
\* it has evidence.
THEOREM RagContract == Spec => []KeepsContract
<1>1. IInv => KeepsContract
  BY DEF IInv
<1> QED BY <1>1, RagSubgraphInvariance, PTL

\* Evidence was text of a document its reader may read, with the path it then
\* had, though permission was looked at in an earlier state of the store.
THEOREM CurrentEvidence == Spec => []EvidenceIsCurrent
<1>1. IInv => EvidenceIsCurrent
  BY DEF IInv
<1> QED BY <1>1, RagSubgraphInvariance, PTL
=============================================================================
