---------------------------- MODULE WatchdogSync ----------------------------
(***************************************************************************)
(* Keeping the runtime dataset in step with the files: the event queue and *)
(* the batch application of app/services/watchdog_sync.py, the             *)
(* normalisation of watchdog_runtime.py and the rebuild of                 *)
(* source_catalog_dataset_rebuild.py, over a file system that changes at   *)
(* any time.  The observer that turns changes into calls of                *)
(* normalize_watchdog_event is not in the repository: it is modelled as    *)
(* its tests use it, one event per change, in order.                       *)
(***************************************************************************)
EXTENDS DatasetStore

CONSTANTS
  Temporary,    \* the paths _is_temporary holds of
  MaxFileOps,   \* bound: changes of the file system
  MaxRebuilds,  \* bound: rebuilds started
  NoFile, NoPath, NoRead

\* Contents a parser refuses, and contents that are not UTF-8.
Broken == {"corrupt", "undecodable"}

ASSUME NamesAssumption ==
  /\ NoPath \notin Paths
  /\ NoFile \notin Versions \cup Broken
  /\ NoRead \notin Versions

VARIABLES
  fs,         \* the dataset root: path -> content
  queue,      \* the queue's items, one per path, oldest key first
  ambiguous,  \* the queue's flag
  batch,      \* the items drained and not applied yet
  read,       \* the content a refresh in progress has parsed
  report,     \* the report of the batch
  scan,       \* a running rebuild: files still to read, whether the next one
              \* has been read for its hash, contents parsed
  db,         \* the runtime dataset
  unsynced,   \* history: paths that something left out of step, until a
              \* refresh, a deletion or a rebuild puts them right
  moved,      \* history: paths of moves, until a rebuild with no event waiting
  fileOps, rebuilds

queueVars == <<queue, ambiguous>>
batchVars == <<batch, read, report>>
vars == <<fs, queue, ambiguous, batch, read, report, scan, db, unsynced,
          moved, fileOps, rebuilds>>

Items == [type : {"created", "modified", "deleted", "moved"}, path : Paths \cup {NoPath},
          source : Paths \cup {NoPath},
          reason : {"none", "temporary_file_skip", "cross_scope_rename",
                    "ambiguous_event_sequence"}]

ReportStatuses == {"ok", "validation_failed", "full_rebuild_required", "raised"}

Idle == [status |-> "ok", full |-> FALSE]

NoScan == [running |-> FALSE, todo |-> {}, hashed |-> FALSE, got |-> << >>]

\* Before the first rebuild there may be files and no dataset.
Init ==
  /\ fs \in [Paths -> {NoFile} \cup Versions]
  /\ queue = << >> /\ ambiguous = FALSE
  /\ batch = << >> /\ read = NoRead /\ report = Idle
  /\ scan = NoScan
  /\ db = ReplaceDataset(EmptyDataset,
                         [p \in {q \in Supported : fs[q] # NoFile} |-> fs[p]])
  /\ ScanFits([p \in {q \in Supported : fs[q] # NoFile} |-> fs[p]])
  /\ unsynced = {} /\ moved = {}
  /\ fileOps = 0 /\ rebuilds = 0

PathsOf(items) ==
  (UNION {{items[i].path, items[i].source} : i \in DOMAIN items}) \ {NoPath}

-----------------------------------------------------------------------------
(* Events: normalize_watchdog_event and the queue *)

Normalized(type, p, source) ==
  [type |-> type, path |-> p, source |-> source,
   reason |-> IF p \in Temporary THEN "temporary_file_skip"
              ELSE IF source # NoPath /\ Scope[source] # Scope[p]
              THEN "cross_scope_rename" ELSE "none"]

\* _merge_events: whether two events of a path make one.
Coalesces(old, new) ==
  \/ old = "created" /\ new = "modified"
  \/ new = "deleted"
  \/ old = new

MergeEvents(existing, incoming) ==
  IF existing.type = "created" /\ incoming.type = "modified" THEN existing ELSE incoming

Enqueue(item) ==
  LET at == {i \in DOMAIN queue : queue[i].path = item.path}
  IN IF at = {}
     THEN /\ queue' = Append(queue, item)
          /\ UNCHANGED ambiguous
     ELSE \E i \in at :
            /\ queue' = [queue EXCEPT ![i] = IF Coalesces(@.type, item.type)
                                             THEN MergeEvents(@, item) ELSE item]
            /\ ambiguous' = (ambiguous \/ ~Coalesces(queue[i].type, item.type))

FileChange(type, p, source, contents) ==
  /\ fileOps < MaxFileOps /\ fileOps' = fileOps + 1
  /\ fs' = contents
  /\ Enqueue(Normalized(type, p, source))
  /\ moved' = moved \cup IF source = NoPath THEN {} ELSE {p, source}
  /\ UNCHANGED <<batchVars, scan, db, unsynced, rebuilds>>

Contents == Versions \cup Broken

CreateFile == \E p \in Paths, c \in Contents :
  fs[p] = NoFile /\ FileChange("created", p, NoPath, [fs EXCEPT ![p] = c])

ModifyFile == \E p \in Paths, c \in Contents :
  fs[p] \notin {NoFile, c} /\ FileChange("modified", p, NoPath, [fs EXCEPT ![p] = c])

DeleteFile == \E p \in Paths :
  fs[p] # NoFile /\ FileChange("deleted", p, NoPath, [fs EXCEPT ![p] = NoFile])

MoveFile == \E p, q \in Paths :
  /\ p # q /\ fs[p] # NoFile
  /\ FileChange("moved", q, p, [fs EXCEPT ![q] = fs[p], ![p] = NoFile])

\* drain: with the flag up it hands out a marker and keeps flag and items.
Drain ==
  /\ batch = << >> /\ queue # << >>
  /\ IF ambiguous
     THEN /\ batch' = <<[type |-> "modified", path |-> NoPath, source |-> NoPath,
                         reason |-> "ambiguous_event_sequence"]>>
          /\ UNCHANGED queue
     ELSE batch' = queue /\ queue' = << >>
  /\ report' = Idle
  /\ UNCHANGED <<fs, ambiguous, read, scan, db, unsynced, moved, fileOps, rebuilds>>

\* run_watchdog_once works on a queue of its own: a restart of the process
\* forgets the events not applied.
Restart ==
  /\ queue # << >> \/ batch # << >>
  /\ queue' = << >> /\ ambiguous' = FALSE
  /\ batch' = << >> /\ read' = NoRead
  /\ unsynced' = unsynced \cup PathsOf(queue \o batch)
  /\ UNCHANGED <<fs, report, scan, db, moved, fileOps, rebuilds>>

-----------------------------------------------------------------------------
(* apply_watchdog_event_batch, one item at a time *)

HeadOf == Head(batch)

MutantMergeReport(status, full) == [status |-> status, full |-> full]

\* _merge_report, and the full_rebuild_required of the batch.
MergeReport(status, full) ==
  [status |-> IF full THEN "full_rebuild_required"
              ELSE IF report.status = "ok" THEN status ELSE report.status,
   full |-> report.full \/ full]

ItemDone(status, full) ==
  /\ batch' = Tail(batch) /\ read' = NoRead
  /\ report' = MergeReport(status, full)
  /\ UNCHANGED <<fs, queueVars, scan, moved, fileOps, rebuilds>>

Skips(item) == item.reason = "temporary_file_skip" \/ Kind[item.path] = "unsupported"

NeedsRebuild(item) == item.reason \in {"ambiguous_event_sequence", "cross_scope_rename"}

Applicable == batch # << >> /\ ~NeedsRebuild(HeadOf) /\ ~Skips(HeadOf)

ApplyRequiresRebuild ==
  /\ batch # << >> /\ NeedsRebuild(HeadOf)
  /\ ItemDone("full_rebuild_required", TRUE)
  /\ unsynced' = unsynced \cup PathsOf(<<HeadOf>>)
  /\ UNCHANGED db

ApplySkips ==
  /\ batch # << >> /\ ~NeedsRebuild(HeadOf) /\ Skips(HeadOf)
  /\ ItemDone("ok", FALSE)
  /\ UNCHANGED <<db, unsynced>>

\* The rename of a path the catalogue does not have changes nothing; onto a
\* path it has, it adds a second source there.
ApplyRename ==
  LET from == HeadOf.source
      to == HeadOf.path
  IN
  /\ Applicable /\ HeadOf.type = "moved"
  /\ db' = RenamePath(db, from, to)
  /\ ItemDone("ok", FALSE)
  /\ UNCHANGED unsynced

ApplyDelete ==
  LET p == HeadOf.path IN
  /\ Applicable /\ HeadOf.type = "deleted"
  /\ db' = IF p \in Documents THEN DeleteDocument(db, p) ELSE DeleteStructured(db, p)
  /\ ItemDone("ok", FALSE)
  /\ unsynced' = unsynced \ {p}

\* parse_rag_document and import_structured_file.  Opening and decoding a text
\* document is outside every handler; the csv reader's are inside one.
ParseOutcome(p, content) ==
  IF content \in Versions THEN "parsed"
  ELSE IF p \in Documents /\ content # "corrupt" THEN "raises" ELSE "rejected"

ReadFile ==
  /\ Applicable /\ HeadOf.type \in {"created", "modified"} /\ read = NoRead
  /\ ParseOutcome(HeadOf.path, fs[HeadOf.path]) = "parsed"
  /\ read' = fs[HeadOf.path]
  /\ UNCHANGED <<fs, queueVars, batch, report, scan, db, unsynced, moved, fileOps, rebuilds>>

RefreshRejected ==
  LET p == HeadOf.path IN
  /\ Applicable /\ HeadOf.type \in {"created", "modified"} /\ read = NoRead
  /\ ParseOutcome(p, fs[p]) = "rejected"
  /\ ItemDone("validation_failed", FALSE)
  /\ unsynced' = unsynced \cup {p}
  /\ UNCHANGED db

Refresh ==
  LET p == HeadOf.path IN
  /\ read # NoRead
  /\ p \in Documents \/ KeyIsFree(db, p)
  /\ db' = IF p \in Documents THEN RefreshDocument(db, p, read)
                              ELSE RefreshStructured(db, p, read)
  /\ ItemDone("ok", FALSE)
  /\ unsynced' = unsynced \ {p}

\* Any other exception leaves apply_watchdog_event_batch: the items that
\* remain were drained already and are lost.
BatchRaises ==
  LET p == HeadOf.path IN
  /\ Applicable /\ HeadOf.type \in {"created", "modified"}
  /\ \/ read = NoRead /\ ParseOutcome(p, fs[p]) = "raises"
     \/ read # NoRead /\ p \in Tables /\ ~KeyIsFree(db, p)
  /\ batch' = << >> /\ read' = NoRead
  /\ report' = [report EXCEPT !.status = "raised"]
  /\ unsynced' = unsynced \cup PathsOf(batch)
  /\ UNCHANGED <<fs, queueVars, scan, db, moved, fileOps, rebuilds>>

-----------------------------------------------------------------------------
(* run_rebuild *)

RebuildStarts ==
  /\ ~scan.running /\ rebuilds < MaxRebuilds /\ rebuilds' = rebuilds + 1
  /\ scan' = [running |-> TRUE, todo |-> {p \in Supported : fs[p] # NoFile},
              hashed |-> FALSE, got |-> << >>]
  /\ UNCHANGED <<fs, queueVars, batchVars, db, unsynced, moved, fileOps>>

\* The files are read in one order.
NextFile == CHOOSE p \in scan.todo : TRUE

WithContent(got, p) ==
  [q \in DOMAIN got \cup {p} |-> IF q = p THEN fs[p] ELSE got[q]]

\* _scan_record: the file is read once for its hash, which no code of the
\* repository reads back, and once more by the parser.  A rebuild reads
\* temporary files as it reads any other.
RebuildHashes ==
  /\ scan.running /\ scan.todo # {} /\ ~scan.hashed
  /\ fs[NextFile] # NoFile
  /\ scan' = [scan EXCEPT !.hashed = TRUE]
  /\ UNCHANGED <<fs, queueVars, batchVars, db, unsynced, moved, fileOps, rebuilds>>

\* A table file that is gone by now is skipped as one that does not parse is.
RebuildParses ==
  /\ scan.running /\ scan.hashed
  /\ ParseOutcome(NextFile, fs[NextFile]) # "raises"
  /\ scan' = [scan EXCEPT !.todo = @ \ {NextFile}, !.hashed = FALSE,
                          !.got = WithContent(@, NextFile)]
  /\ UNCHANGED <<fs, queueVars, batchVars, db, unsynced, moved, fileOps, rebuilds>>

RebuildRaises ==
  /\ scan.running
  /\ \/ scan.todo # {} /\ ~scan.hashed /\ fs[NextFile] = NoFile
     \/ scan.hashed /\ ParseOutcome(NextFile, fs[NextFile]) = "raises"
     \/ scan.todo = {} /\ ~ScanFits(scan.got)
  /\ scan' = NoScan
  /\ UNCHANGED <<fs, queueVars, batchVars, db, unsynced, moved, fileOps, rebuilds>>

\* What changed since it was parsed is not in the new dataset, and a file
\* deleted between its two reads has a record in it.
Overtaken(got) ==
  {p \in Supported : IF p \in DOMAIN got THEN fs[p] = NoFile \/ got[p] # fs[p]
                                         ELSE fs[p] # NoFile}

RebuildCommits ==
  /\ scan.running /\ scan.todo = {} /\ ScanFits(scan.got)
  /\ db' = ReplaceDataset(db, scan.got)
  /\ scan' = NoScan
  /\ unsynced' = Overtaken(scan.got)
  /\ moved' = IF queue \o batch = << >> THEN {} ELSE moved
  /\ UNCHANGED <<fs, queueVars, batchVars, fileOps, rebuilds>>

ChunksAt(p) == {s.rows : s \in SourcesAt(db, p)} \ {NoRows}

TablesAt(p) == {r \in db.resources : \E s \in SourcesAt(db, p) : r.source = s.id}

Next ==
  \/ CreateFile \/ ModifyFile \/ DeleteFile \/ MoveFile
  \/ Drain \/ Restart
  \/ ApplyRequiresRebuild \/ ApplySkips \/ ApplyRename \/ ApplyDelete
  \/ ReadFile \/ RefreshRejected \/ Refresh \/ BatchRaises
  \/ RebuildStarts \/ RebuildHashes \/ RebuildParses \/ RebuildRaises \/ RebuildCommits

Spec == Init /\ [][Next]_vars

-----------------------------------------------------------------------------
(* Properties *)

\* Every variable holds a value of its kind.
TypeOK ==
  /\ fs \in [Paths -> {NoFile} \cup Contents]
  /\ queue \in Seq(Items) /\ ambiguous \in BOOLEAN
  /\ batch \in Seq(Items) /\ read \in Versions \cup {NoRead}
  /\ report \in [status : ReportStatuses, full : BOOLEAN]
  /\ scan.running \in BOOLEAN /\ scan.todo \subseteq Supported
  /\ \A s \in db.sources : s.path \in Supported /\ s.id < db.fresh
  /\ unsynced \subseteq Paths /\ moved \subseteq Paths

Parsed(content) == {content} \cap Versions

\* The dataset serves of p what the file holds, once, and nothing of a path
\* without a file.
InStep(p) ==
  /\ fs[p] = NoFile => SourcesAt(db, p) = {}
  /\ p \in Documents => ChunksAt(p) = Parsed(fs[p]) /\ Cardinality(SourcesAt(db, p)) <= 1
  /\ p \in Tables => {r.rows : r \in TablesAt(p)} = Parsed(fs[p]) /\ Cardinality(TablesAt(p)) <= 1

\* A path that took part in no move is out of step only if an event for it
\* still waits or something reported it: a rejected file, a marker that asks
\* for a rebuild, a batch or process that ended early, an overtaken rebuild.
DivergenceExplained ==
  \A p \in Supported \ Temporary :
    p \notin unsynced \cup moved \cup PathsOf(queue \o batch) => InStep(p)

\* The tables that stay visible without a file are those of moved files:
\* a deletion finds a table by the path it was imported from and its source
\* by the path it has.
OrphansComeFromMoves ==
  \A r \in db.resources : r.source = NoSource => r.origin \in moved

\* Once an item of the batch has failed or asked for a rebuild, the report of
\* the batch says so to the end.
ReportKeepsFailure ==
  [][batch # << >> =>
       /\ report.status # "ok" => report'.status # "ok"
       /\ report.full => report'.full /\ report'.status \in {"full_rebuild_required", "raised"}]_vars

-----------------------------------------------------------------------------
(* What a test of the repository says and the code does not do *)

\* "deleted csv removes structured runtime visibility"
DeletedTablesInvisible == \A r \in db.resources : r.source # NoSource

=============================================================================
