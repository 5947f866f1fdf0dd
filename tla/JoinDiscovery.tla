---------------------------- MODULE JoinDiscovery ----------------------------
(***************************************************************************)
(* Approved join discovery                                                 *)
(* (app/services/join_discovery_approved_joins.py) among the others that   *)
(* change the dataset.  A discovery reads the resources, asks a model for  *)
(* joins, validates the answer and replaces the approved joins; meanwhile  *)
(* rebuild_dataset.py rebuilds, and then discovers itself, watchdog        *)
(* batches refresh and delete tables, which takes their joins along, and   *)
(* somebody else runs rebuild_approved_joins.py.  Statement by statement   *)
(* the transactions are in StoreTransactions; here a refresh and a rebuild *)
(* are one step, and the replacement of the joins is the three at which it *)
(* sees the others: the snapshot of its DELETE, its locks, its commit.     *)
(* What a run reports it reports after its commit, if it lives to.         *)
(***************************************************************************)
EXTENDS Naturals, FiniteSets, SequencesExt

CONSTANTS
  Keys,          \* resource keys
  ColumnsOf,     \* the column names of the table with a key
  Refreshes,     \* runs of rebuild_approved_joins.py
  Earlier,       \* one of them, which has ended before the others begin
  Rebuilds,      \* runs of rebuild_dataset.py
  Batches,       \* watchdog batches
  MaxResources,  \* MAX_JOIN_DISCOVERY_RESOURCES
  Invented,      \* a column key no packet contains
  MaxCandidates, \* bound: candidates in an answer
  MaxItems       \* bound: events in a batch

Runs == Refreshes \cup Rebuilds

ASSUME ColumnsAssumption ==
  /\ Earlier \in Refreshes /\ DOMAIN ColumnsOf = Keys
  /\ \A k \in Keys : ColumnsOf[k] # {} /\ Invented \notin {k} \X ColumnsOf[k]

\* The watchdog writes no approved joins of its own.
ASSUME ActorsAssumption == Runs \cap Batches = {}

Absent == 0

VARIABLES
  generation,   \* the resource ids: the generation a key's table is of, or Absent
  fresh,        \* the next generation
  joins,        \* approved_join_relationships: [run, copy, on], on two column ids
  phase, report, \* of every run and batch
  packet,       \* the resources a run has read: key -> generation
  approved,     \* what validation left of the answer: [copy, on], on two columns
  doomed,       \* the joins in the snapshot of a run's DELETE
  recommended,  \* join_refresh_recommended of a batch
  items,        \* events a batch has applied
  lost,         \* runs whose COMMIT was not acknowledged
  unlinked,     \* history: batches that took joins away
  overlapped    \* history: a run began to write while another was writing

dataset == <<generation, fresh>>
writes == <<approved, doomed, lost>>
batches == <<recommended, items>>
vars == <<dataset, joins, phase, report, packet, writes, batches, unlinked, overlapped>>

NoPacket == << >>

Present == {k \in Keys : generation[k] # Absent}

-----------------------------------------------------------------------------
(* validate_llm_join_output *)

ColumnKeys(keys) == UNION {{k} \X ColumnsOf[k] : k \in keys}

\* What the model may propose; "sound" is an approved candidate with high
\* confidence and no warning, limitation or unsafe reason.
Candidates(keys) ==
  [sound : BOOLEAN, left : ColumnKeys(keys) \cup {Invented}, right : ColumnKeys(keys) \cup {Invented}]

Pair(c) == {c.left, c.right}

\* The reasons of _candidate_skip_reason but for the duplicate.
CandidateAccepted(c, keys) ==
  c.sound /\ Pair(c) \subseteq ColumnKeys(keys) /\ c.left # c.right

\* The rows of a write, "copy" telling rows for one pair of columns apart.
RowsOf(answer, kept) ==
  {[copy |-> Cardinality({h \in kept : h < i /\ Pair(answer[h]) = Pair(answer[i])}),
    on |-> Pair(answer[i])] : i \in kept}

\* Of candidates for one pair of columns, in whichever direction, the first.
ValidatedJoins(answer, keys) ==
  LET accepted == {i \in DOMAIN answer : CandidateAccepted(answer[i], keys)}
  IN RowsOf(answer, {i \in accepted : \A h \in accepted : h < i => Pair(answer[h]) # Pair(answer[i])})

Validated ==
  [keys \in SUBSET Keys |->
     {ValidatedJoins(answer, keys) : answer \in BoundedSeq(Candidates(keys), MaxCandidates)}]

\* The dataset as an earlier discovery, of these tables, has left it.
Init ==
  /\ \E loaded \in {keys \in SUBSET Keys : Cardinality(keys) <= MaxResources} :
       /\ generation = [k \in Keys |-> IF k \in loaded THEN 1 ELSE Absent]
       /\ packet = [d \in Runs |-> IF d = Earlier THEN [k \in loaded |-> 1] ELSE NoPacket]
       /\ \E valid \in Validated[loaded] :
            joins = {[run |-> Earlier, copy |-> a.copy,
                      on |-> {[key |-> c[1], generation |-> 1, name |-> c[2]] : c \in a.on}] :
                       a \in valid}
  /\ fresh = 2
  /\ phase = [a \in Runs \cup Batches |-> IF a = Earlier THEN "done" ELSE "idle"]
  /\ report = [d \in Runs |-> IF d = Earlier THEN "completed" ELSE "none"]
  /\ approved = [d \in Runs |-> {}] /\ doomed = [d \in Runs |-> {}]
  /\ recommended = [b \in Batches |-> FALSE] /\ items = [b \in Batches |-> 0]
  /\ lost = {} /\ unlinked = {} /\ overlapped = FALSE

-----------------------------------------------------------------------------
(* A discovery *)

End(d, status) ==
  /\ phase' = [phase EXCEPT ![d] = "done"]
  /\ report' = [report EXCEPT ![d] = status]

ForgetAnswer(d) ==
  /\ approved' = [approved EXCEPT ![d] = {}]
  /\ doomed' = [doomed EXCEPT ![d] = {}]

\* What a run knows ends with it; the packet stays if its joins rest on it.
Forget(d) == packet' = [packet EXCEPT ![d] = NoPacket] /\ ForgetAnswer(d)

Begins(d) == phase[d] = IF d \in Refreshes THEN "idle" ELSE "rebuilt"

\* run_approved_join_discovery_refresh up to the model call.  A dataset without
\* tables ends it before it writes, and so does a dry run.
ReadResources(d) ==
  /\ Begins(d)
  /\ IF Cardinality(Present) > MaxResources THEN End(d, "failed") /\ UNCHANGED packet
     ELSE IF Present = {} THEN End(d, "completed_no_approved_joins") /\ UNCHANGED packet
     ELSE \/ d \in Refreshes /\ End(d, "skipped") /\ UNCHANGED packet
          \/ /\ packet' = [packet EXCEPT ![d] = [k \in Present |-> generation[k]]]
             /\ phase' = [phase EXCEPT ![d] = "asking"] /\ UNCHANGED report
  /\ UNCHANGED <<dataset, joins, writes, batches, unlinked, overlapped>>

\* The store cannot be read; the model is missing, fails, answers nothing
\* valid, or reports an error, warnings or limitations.
DiscoveryFails(d) ==
  /\ Begins(d) \/ phase[d] = "asking"
  /\ End(d, "failed") /\ Forget(d)
  /\ UNCHANGED <<dataset, joins, lost, batches, unlinked, overlapped>>

ModelAnswers(d) ==
  /\ phase[d] = "asking"
  /\ \E valid \in Validated[DOMAIN packet[d]] : approved' = [approved EXCEPT ![d] = valid]
  /\ phase' = [phase EXCEPT ![d] = "validated"]
  /\ UNCHANGED <<dataset, joins, report, packet, doomed, lost, batches, unlinked, overlapped>>

-----------------------------------------------------------------------------
(* replace_approved_joins: one transaction *)

MutantSnapshot == {}

\* What DELETE FROM approved_join_relationships is about to delete.
Snapshot == joins

BeginWrite(d) ==
  /\ phase[d] = "validated"
  /\ phase' = [phase EXCEPT ![d] = "deleting"]
  /\ doomed' = [doomed EXCEPT ![d] = Snapshot]
  /\ overlapped' = (overlapped \/ \E e \in Runs : phase[e] \in {"deleting", "writing"})
  /\ UNCHANGED <<dataset, joins, report, packet, approved, lost, batches, unlinked>>

\* Joins whose rows another run has deleted and not yet committed.
Locked(d) == joins \cap UNION {doomed[e] : e \in {e \in Runs \ {d} : phase[e] = "writing"}}

DeleteJoins(d) ==
  /\ phase[d] = "deleting" /\ doomed[d] \cap Locked(d) = {}
  /\ phase' = [phase EXCEPT ![d] = "writing"]
  /\ UNCHANGED <<dataset, joins, report, packet, writes, batches, unlinked, overlapped>>

ColumnId(d, c) == [key |-> c[1], generation |-> packet[d][c[1]], name |-> c[2]]

\* The rows to insert, with the ids of the packet.
Rows(d) == {[run |-> d, copy |-> a.copy, on |-> {ColumnId(d, c) : c \in a.on}] : a \in approved[d]}

MutantReferencesExist(rows) == TRUE

\* The foreign keys to structured_resources and structured_resource_columns.
ReferencesExist(rows) == \A r \in rows : \A c \in r.on : c.generation = generation[c.key]

\* The connection is left, and breaks after the commit or not.
CommitWrite(d) ==
  /\ phase[d] = "writing" /\ ReferencesExist(Rows(d))
  /\ joins' = (joins \ doomed[d]) \cup Rows(d)
  /\ \/ /\ phase' = [phase EXCEPT ![d] = "committed"]
        /\ doomed' = [doomed EXCEPT ![d] = {}] /\ UNCHANGED <<report, approved, lost>>
     \/ End(d, "failed") /\ ForgetAnswer(d) /\ lost' = lost \cup {d}
  /\ UNCHANGED <<dataset, packet, batches, unlinked, overlapped>>

\* The run goes on to its audit event and its report.
ReportWrite(d) ==
  /\ phase[d] = "committed"
  /\ End(d, IF approved[d] = {} THEN "completed_no_approved_joins" ELSE "completed")
  /\ ForgetAnswer(d)
  /\ UNCHANGED <<dataset, joins, packet, lost, batches, unlinked, overlapped>>

MutantWriteFails(d) ==
  /\ phase[d] \in {"validated", "deleting", "writing"}
  /\ End(d, "failed")
  /\ joins' = IF phase[d] = "writing" THEN (joins \ doomed[d]) \cup Rows(d) ELSE joins
  /\ ForgetAnswer(d)
  /\ UNCHANGED <<packet, dataset, lost, batches, unlinked, overlapped>>

\* A reference is gone, a deadlock ended this transaction, the connection broke.
WriteFails(d) ==
  /\ phase[d] \in {"validated", "deleting", "writing"}
  /\ End(d, "failed") /\ Forget(d)
  /\ UNCHANGED <<dataset, joins, lost, batches, unlinked, overlapped>>

\* The process is killed: its transaction is rolled back, unless it has committed.
Crash(d) ==
  /\ phase[d] \notin {"idle", "done", "crashed"}
  /\ phase' = [phase EXCEPT ![d] = "crashed"]
  /\ IF phase[d] = "committed" THEN ForgetAnswer(d) /\ UNCHANGED packet ELSE Forget(d)
  /\ UNCHANGED <<dataset, joins, report, lost, batches, unlinked, overlapped>>

-----------------------------------------------------------------------------
(* The others *)

JoinsOn(keys) == {j \in joins : \E c \in j.on : c.key \in keys}

\* ON DELETE CASCADE, which waits for the rows a discovery is deleting.
TakeAway(who, keys) ==
  /\ JoinsOn(keys) \cap Locked(who) = {}
  /\ joins' = joins \ JoinsOn(keys)
  /\ unlinked' = IF JoinsOn(keys) = {} THEN unlinked ELSE unlinked \cup ({who} \cap Batches)

\* rebuild_dataset.py: the rebuild imports the tables of a scan; a discovery
\* follows if there are any, unless --skip-join-refresh.
Rebuild(r) ==
  /\ phase[r] = "idle"
  /\ TakeAway(r, Keys)
  /\ \E scan \in SUBSET Keys :
       /\ generation' = [k \in Keys |-> IF k \in scan THEN fresh ELSE Absent]
       /\ \/ scan # {} /\ phase' = [phase EXCEPT ![r] = "rebuilt"]
          \/ phase' = [phase EXCEPT ![r] = "done"]
  /\ fresh' = fresh + 1
  /\ UNCHANGED <<report, packet, writes, batches, overlapped>>

\* _merge_report
MutantMerge(target, source) == source

Merge(target, source) == target \/ source

Apply(b, recommends) ==
  /\ phase[b] = "idle" /\ items[b] < MaxItems
  /\ items' = [items EXCEPT ![b] = @ + 1]
  /\ recommended' = [recommended EXCEPT ![b] = Merge(@, recommends)]

\* apply_watchdog_event for a table: refresh_structured, which always reports
\* columns_changed, and delete_structured.
RefreshTable(b) ==
  /\ Apply(b, TRUE)
  /\ \E k \in Keys : TakeAway(b, {k}) /\ generation' = [generation EXCEPT ![k] = fresh]
  /\ fresh' = fresh + 1
  /\ UNCHANGED <<phase, report, packet, writes, overlapped>>

DeleteTable(b) ==
  /\ Apply(b, TRUE)
  /\ \E k \in Keys : TakeAway(b, {k}) /\ generation' = [generation EXCEPT ![k] = Absent]
  /\ UNCHANGED <<fresh, phase, report, packet, writes, overlapped>>

\* A document, a rename, a skipped event or a file that does not import.
OtherEvent(b) ==
  /\ Apply(b, FALSE)
  /\ UNCHANGED <<dataset, joins, phase, report, packet, writes, unlinked, overlapped>>

\* The batch's report goes out, or an exception takes it along.
EndBatch(b) ==
  /\ phase[b] = "idle" /\ items[b] > 0
  /\ \E end \in {"done", "crashed"} : phase' = [phase EXCEPT ![b] = end]
  /\ UNCHANGED <<dataset, joins, report, packet, writes, batches, unlinked, overlapped>>

-----------------------------------------------------------------------------

Next ==
  \/ \E d \in Runs :
       \/ ReadResources(d) \/ DiscoveryFails(d) \/ ModelAnswers(d)
       \/ BeginWrite(d) \/ DeleteJoins(d) \/ CommitWrite(d) \/ ReportWrite(d)
       \/ WriteFails(d) \/ Crash(d)
  \/ \E r \in Rebuilds : Rebuild(r)
  \/ \E b \in Batches : RefreshTable(b) \/ DeleteTable(b) \/ OtherEvent(b) \/ EndBatch(b)

Spec == Init /\ [][Next]_vars

-----------------------------------------------------------------------------
(* Properties *)

\* An approved join relates two different columns of tables as they are now,
\* and the model that approved it was shown samples of just these tables: a
\* table replaced during the model call never inherits the verdict.
JoinsRestOnTheirEvidence ==
  \A j \in joins :
    /\ Cardinality(j.on) = 2
    /\ \A c \in j.on : /\ c.generation = generation[c.key] /\ c.key \in Present
                       /\ c.generation = packet[j.run][c.key]

\* The approved joins are those of one discovery, each once, unless two of them
\* were writing at the same time: then neither sees the other's rows, and the
\* joins are those of both, the same pair perhaps twice.
OneDiscoveryUnlessOverlapped ==
  \/ overlapped
  \/ \A i, j \in joins : i.run = j.run /\ (i.on = j.on => i = j)

\* The joins are those of a discovery that reports them, or has not come to its
\* report since it committed, perhaps because it was killed; one that reports a
\* failure, a skip or no joins has left none behind, unless only the
\* acknowledgement of its commit was lost.
HonestReports ==
  \A j \in joins :
    \/ report[j.run] = "completed" \/ j.run \in lost
    \/ report[j.run] = "none" /\ phase[j.run] \in {"committed", "crashed"}

\* When a batch of the watchdog has taken joins away, its report recommends a
\* join refresh, whatever else was in the batch, unless an exception ended the
\* batch: then the joins are gone and nothing says so.
LossIsAnnounced ==
  \A b \in unlinked : phase[b] = "done" => recommended[b]

=============================================================================
