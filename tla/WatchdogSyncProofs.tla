-------------------------- MODULE WatchdogSyncProofs --------------------------
(***************************************************************************)
(* Proofs about WatchdogSync, for any set of files, any number of changes  *)
(* and rebuilds: what the events that wait and the batch say of the files, *)
(* what ties the rows of the dataset to each other and to the moves, and   *)
(* from both that the dataset is out of step only with a reason.           *)
(***************************************************************************)
EXTENDS WatchdogSync, FiniteSetTheorems, FunctionTheorems, SequenceTheorems, TLAPS

(***************************************************************************)
(* The inductive invariant.  Its parts are predicates of the values they   *)
(* speak of, so that an action that leaves those alone leaves them.        *)
(***************************************************************************)

SourceRecords ==
  [id : Nat, path : Supported, rows : Versions \cup {NoRows}]

ResourceRecords ==
  [id : Nat, source : Nat \cup {NoSource}, key : {Key[p] : p \in Paths}, origin : Tables,
   scope : {Scope[p] : p \in Paths}, rows : Versions]

Datasets == [fresh : Nat, sources : SUBSET SourceRecords, resources : SUBSET ResourceRecords]

\* Ids are used once, and no table hangs on a source not inserted yet.
StoreOK(d) ==
  /\ d \in Datasets
  /\ \A s \in d.sources : s.id < d.fresh
  /\ \A s, t \in d.sources : s.id = t.id => s = t
  /\ \A r \in d.resources : r.source # NoSource => r.source < d.fresh

\* A table is away from the source of its file only after a move of both paths,
\* and without a source only after a move of its own.
OriginOK(d, m) ==
  /\ \A r \in d.resources : r.source = NoSource => r.origin \in m
  /\ \A r \in d.resources, s \in d.sources :
       r.source = s.id => r.origin = s.path \/ {r.origin, s.path} \subseteq m

\* What normalisation leaves of an event, with the paths of a move on record.
ItemOK(x, m) ==
  /\ x \in Items
  /\ x.reason = "temporary_file_skip" => x.path \in Temporary
  /\ x.path = NoPath => x.reason = "ambiguous_event_sequence"
  /\ x.source # NoPath => {x.path, x.source} \subseteq m
  /\ x.type = "moved" => x.source # NoPath

ItemsOK(items, m) == \A i \in DOMAIN items : ItemOK(items[i], m)

\* One item per path, and none of them a marker.
QueueOK(q) ==
  /\ q \in Seq(Items)
  /\ \A i \in DOMAIN q : q[i].path \in Paths
  /\ \A i, j \in DOMAIN q : q[i].path = q[j].path => i = j

\* A deletion among the items is a deletion of a file that is gone.
DeletionsHold(items, p, content) ==
  \A i \in DOMAIN items : items[i].path = p /\ items[i].type = "deleted" => content = NoFile

\* Of a path in no move the last event that waits is true of the file.
EventsOK(q, b, f, m) ==
  \A p \in Paths \ m :
    /\ DeletionsHold(q, p, f[p])
    /\ p \in PathsOf(q) \/ DeletionsHold(b, p, f[p])

\* A parsed content belongs to the head of the batch, and is the file's unless
\* an event about the file waits or it was moved.
ReadOK(rd, b, q, f, m) ==
  rd # NoRead =>
    /\ b # << >> /\ ~NeedsRebuild(Head(b)) /\ ~Skips(Head(b))
    /\ Head(b).type \in {"created", "modified"}
    /\ rd = f[Head(b).path] \/ Head(b).path \in m \cup PathsOf(q)

ReportOK(rep) ==
  /\ rep \in [status : ReportStatuses, full : BOOLEAN]
  /\ rep.full => rep.status \in {"full_rebuild_required", "raised"}

ScanOK(sc) ==
  /\ sc = [running |-> sc.running, todo |-> sc.todo, hashed |-> sc.hashed, got |-> sc.got]
  /\ sc.running \in BOOLEAN /\ sc.todo \subseteq Supported /\ sc.hashed \in BOOLEAN
  /\ sc.hashed => sc.todo # {}
  /\ sc.got \in [DOMAIN sc.got -> Contents \cup {NoFile}]
  /\ DOMAIN sc.got \subseteq Supported

\* The tables that hang on a source at p.
ServedTables(d, p) == {r \in d.resources : \E s \in SourcesAt(d, p) : r.source = s.id}

\* InStep of a dataset d and a content of the file.
StepOf(d, content, p) ==
  /\ content = NoFile => SourcesAt(d, p) = {}
  /\ p \in Documents => /\ {s.rows : s \in SourcesAt(d, p)} \ {NoRows} = Parsed(content)
                        /\ Cardinality(SourcesAt(d, p)) <= 1
  /\ p \in Tables => /\ {r.rows : r \in ServedTables(d, p)} = Parsed(content)
                     /\ Cardinality(ServedTables(d, p)) <= 1

\* A path out of step is accounted for.
DivergenceOK(d, f, u, m, q, b) ==
  \A p \in Supported \ Temporary :
    p \notin u \cup m \cup PathsOf(q) \cup PathsOf(b) => StepOf(d, f[p], p)

TypeInv ==
  /\ fs \in [Paths -> {NoFile} \cup Contents]
  /\ ambiguous \in BOOLEAN
  /\ batch \in Seq(Items) /\ read \in Versions \cup {NoRead}
  /\ unsynced \subseteq Paths /\ moved \subseteq Paths

IInv ==
  /\ TypeInv
  /\ QueueOK(queue)
  /\ ItemsOK(queue, moved) /\ ItemsOK(batch, moved)
  /\ EventsOK(queue, batch, fs, moved)
  /\ ReadOK(read, batch, queue, fs, moved)
  /\ ReportOK(report)
  /\ ScanOK(scan)
  /\ StoreOK(db) /\ OriginOK(db, moved)
  /\ DivergenceOK(db, fs, unsynced, moved, queue, batch)

-----------------------------------------------------------------------------
(* The paths that items name *)

\* What it takes to be a path of items.
LEMMA InPathsOf ==
  ASSUME NEW items, NEW p
  PROVE  p \in PathsOf(items) <=>
           p # NoPath /\ \E i \in DOMAIN items : p = items[i].path \/ p = items[i].source
PROOF
  BY DEF PathsOf

\* Items one after the other name the paths of both.
LEMMA PathsOfConcat ==
  ASSUME NEW s \in Seq(Items), NEW t \in Seq(Items)
  PROVE  PathsOf(s \o t) = PathsOf(s) \cup PathsOf(t)
PROOF
<1>1. /\ Len(s \o t) = Len(s) + Len(t) /\ s \o t \in Seq(Items)
      /\ \A i \in 1 .. Len(s) + Len(t) :
           (s \o t)[i] = IF i <= Len(s) THEN s[i] ELSE t[i - Len(s)]
  BY ConcatProperties
<1>2. DOMAIN s = 1 .. Len(s) /\ DOMAIN t = 1 .. Len(t) /\ DOMAIN (s \o t) = 1 .. Len(s) + Len(t)
  BY <1>1
<1>3. Len(s) \in Nat /\ Len(t) \in Nat
  OBVIOUS
<1>4. \A i \in DOMAIN s : i \in DOMAIN (s \o t) /\ (s \o t)[i] = s[i]
  BY <1>1, <1>2, <1>3
<1>5. \A i \in DOMAIN t : Len(s) + i \in DOMAIN (s \o t) /\ (s \o t)[Len(s) + i] = t[i]
  BY <1>1, <1>2, <1>3
<1>6. \A i \in DOMAIN (s \o t) :
        \/ i \in DOMAIN s /\ (s \o t)[i] = s[i]
        \/ i - Len(s) \in DOMAIN t /\ (s \o t)[i] = t[i - Len(s)]
  BY <1>1, <1>2, <1>3
<1> DEFINE u == s \o t
<1> HIDE DEF u
<1>u. u = s \o t
  BY DEF u
<1>7. ASSUME NEW p \in PathsOf(u)
      PROVE  p \in PathsOf(s) \cup PathsOf(t)
  <2>1. p # NoPath
    BY InPathsOf
  <2>2. PICK i \in DOMAIN u : p = u[i].path \/ p = u[i].source
    BY InPathsOf
  <2>3. CASE i \in DOMAIN s /\ u[i] = s[i]
    BY <2>1, <2>2, <2>3, InPathsOf
  <2>4. CASE i - Len(s) \in DOMAIN t /\ u[i] = t[i - Len(s)]
    BY <2>1, <2>2, <2>4, InPathsOf
  <2> QED
    BY <1>6, <1>u, <2>2, <2>3, <2>4
<1>8. ASSUME NEW p \in PathsOf(s)
      PROVE  p \in PathsOf(u)
  <2>1. PICK i \in DOMAIN s : p = s[i].path \/ p = s[i].source
    BY InPathsOf
  <2> QED
    BY <1>4, <1>u, <2>1, InPathsOf
<1>9. ASSUME NEW p \in PathsOf(t)
      PROVE  p \in PathsOf(u)
  <2>1. PICK i \in DOMAIN t : p = t[i].path \/ p = t[i].source
    BY InPathsOf
  <2> QED
    BY <1>5, <1>u, <2>1, InPathsOf
<1> QED
  BY <1>7, <1>8, <1>9, <1>u

\* The items of a tail are those of the whole but the head.
LEMMA TailItems ==
  ASSUME NEW s \in Seq(Items), s # << >>
  PROVE  /\ Head(s) \in Items /\ Tail(s) \in Seq(Items) /\ 1 \in DOMAIN s /\ Head(s) = s[1]
         /\ \A i \in DOMAIN Tail(s) : i + 1 \in DOMAIN s /\ Tail(s)[i] = s[i + 1]
         /\ \A i \in DOMAIN s : i = 1 \/ (i - 1 \in DOMAIN Tail(s) /\ Tail(s)[i - 1] = s[i])
PROOF
<1>1. /\ Len(s) \in Nat /\ Len(s) # 0 /\ DOMAIN s = 1 .. Len(s)
  BY EmptySeq
<1>2. /\ Head(s) \in Items /\ Head(s) = s[1]
      /\ Tail(s) \in Seq(Items) /\ Len(Tail(s)) = Len(s) - 1
      /\ \A i \in 1 .. Len(Tail(s)) : Tail(s)[i] = s[i + 1]
  BY HeadTailProperties
<1>3. DOMAIN Tail(s) = 1 .. Len(s) - 1
  BY <1>2
<1> QED
  BY <1>1, <1>2, <1>3

\* The paths of items are those of the head and of the tail.
LEMMA PathsOfTail ==
  ASSUME NEW s \in Seq(Items), s # << >>
  PROVE  PathsOf(s) = PathsOf(<<Head(s)>>) \cup PathsOf(Tail(s))
PROOF
<1> DEFINE H == <<Head(s)>>
           T == Tail(s)
<1>1. DOMAIN H = {1} /\ H[1] = Head(s)
  OBVIOUS
<1> HIDE DEF H, T
<1>a. /\ \A i \in DOMAIN T : i + 1 \in DOMAIN s /\ T[i] = s[i + 1]
      /\ \A i \in DOMAIN s : i = 1 \/ (i - 1 \in DOMAIN T /\ T[i - 1] = s[i])
      /\ 1 \in DOMAIN s /\ Head(s) = s[1]
  BY TailItems DEF T
<1>2. \A p : p \in PathsOf(H) <=> p # NoPath /\ (p = Head(s).path \/ p = Head(s).source)
  BY <1>1, InPathsOf
<1>3. ASSUME NEW p \in PathsOf(s)
      PROVE  p \in PathsOf(H) \cup PathsOf(T)
  <2>1. p # NoPath
    BY InPathsOf
  <2>2. PICK i \in DOMAIN s : p = s[i].path \/ p = s[i].source
    BY InPathsOf
  <2>3. i = 1 \/ (i - 1 \in DOMAIN T /\ T[i - 1] = s[i])
    BY <1>a
  <2> QED
    BY <1>2, <2>1, <2>2, <2>3, InPathsOf, <1>a
<1>4. \A p : p \in PathsOf(H) => p \in PathsOf(s)
  BY <1>2, InPathsOf, <1>a
<1>5. ASSUME NEW p \in PathsOf(T)
      PROVE  p \in PathsOf(s)
  <2>1. PICK i \in DOMAIN T : p = T[i].path \/ p = T[i].source
    BY InPathsOf
  <2>2. i + 1 \in DOMAIN s /\ T[i] = s[i + 1]
    BY <1>a
  <2> QED
    BY <2>1, <2>2, InPathsOf
<1>6. PathsOf(s) = PathsOf(H) \cup PathsOf(T)
  BY <1>3, <1>4, <1>5
<1> QED
  BY <1>6 DEF H, T

\* No items, no paths.
LEMMA PathsOfNone == PathsOf(<< >>) = {}
PROOF
  BY DEF PathsOf

\* The paths of items are paths of files.
LEMMA PathsOfArePaths ==
  ASSUME NEW s \in Seq(Items)
  PROVE  PathsOf(s) \subseteq Paths
PROOF
<1>1. \A i \in DOMAIN s : s[i] \in Items
  BY ElementOfSeq
<1> QED
  BY <1>1, InPathsOf DEF Items

-----------------------------------------------------------------------------
(* The write methods *)

\* Two datasets that serve the same of p.
Alike(d, e, p) ==
  SourcesAt(e, p) = SourcesAt(d, p) /\ ServedTables(e, p) = ServedTables(d, p)

\* InStep, said of the dataset and the file.
LEMMA InStepIsStepOf == ASSUME NEW p PROVE InStep(p) <=> StepOf(db, fs[p], p)
PROOF
  BY DEF InStep, StepOf, ChunksAt, TablesAt, ServedTables

\* What is served alike is in step alike.
LEMMA AlikeSteps ==
  ASSUME NEW d, NEW e, NEW p, NEW content, Alike(d, e, p), StepOf(d, content, p)
  PROVE  StepOf(e, content, p)
PROOF
  BY DEF Alike, StepOf

\* A path is of one kind.
LEMMA Kinds == Documents \cap Tables = {} /\ Supported = Documents \cup Tables
               /\ Supported \subseteq Paths
PROOF
  BY DEF Documents, Tables, Supported

\* The dataset without some sources: their tables stay, without a source.
LEMMA WithoutSourcesKeeps ==
  ASSUME NEW d, NEW m, StoreOK(d), OriginOK(d, m), NEW gone \in SUBSET d.sources,
         \A r \in d.resources, s \in gone : r.source = s.id => r.origin \in m
  PROVE  /\ StoreOK(WithoutSources(d, gone)) /\ OriginOK(WithoutSources(d, gone), m)
         /\ WithoutSources(d, gone).fresh = d.fresh
         /\ WithoutSources(d, gone).sources = d.sources \ gone
         /\ \A r \in WithoutSources(d, gone).resources :
              r.source # NoSource => r \in d.resources
         /\ \A p : (\A s \in gone : s.path # p) => Alike(d, WithoutSources(d, gone), p)
PROOF
<1> DEFINE ids == {s.id : s \in gone}
           Cut(r) == IF r.source \in ids THEN [r EXCEPT !.source = NoSource] ELSE r
           e == WithoutSources(d, gone)
<1>1. d \in Datasets
  BY DEF StoreOK
<1>2. /\ e.fresh = d.fresh /\ e.sources = d.sources \ gone
      /\ e.resources = {Cut(r) : r \in d.resources}
      /\ e = [fresh |-> e.fresh, sources |-> e.sources, resources |-> e.resources]
  <2> DEFINE cuts == {Cut(r) : r \in d.resources}
  <2>1. e = [d EXCEPT !.sources = d.sources \ gone, !.resources = cuts]
    BY DEF WithoutSources
  <2> HIDE DEF cuts, e
  <2>2. /\ e.fresh = d.fresh /\ e.sources = d.sources \ gone /\ e.resources = cuts
        /\ e = [fresh |-> e.fresh, sources |-> e.sources, resources |-> e.resources]
    BY <1>1, <2>1 DEF Datasets
  <2> QED
    BY <2>2 DEF cuts
<1>3. \A r \in d.resources : r \in ResourceRecords
  BY <1>1 DEF Datasets
<1>4. \A s \in d.sources : s \in SourceRecords
  BY <1>1 DEF Datasets
<1>5. ASSUME NEW r \in d.resources
      PROVE  \/ r.source \notin ids /\ Cut(r) = r
             \/ /\ r.source \in ids /\ Cut(r) \in ResourceRecords
                /\ Cut(r).source = NoSource /\ Cut(r).origin = r.origin /\ r.origin \in m
  <2>1. CASE r.source \in ids
    <3>1. r.origin \in m
      BY <2>1
    <3>2. Cut(r) = [r EXCEPT !.source = NoSource]
      BY <2>1
    <3> HIDE DEF Cut
    <3> QED
      BY <1>3, <2>1, <3>1, <3>2 DEF ResourceRecords
  <2>2. CASE r.source \notin ids
    BY <2>2
  <2> QED
    BY <2>1, <2>2
<1> HIDE DEF Cut, e, ids
<1>6. \A c \in e.resources : c.source # NoSource => c \in d.resources /\ c.source \notin ids
  BY <1>2, <1>5
<1>7. \A c \in e.resources : c \in ResourceRecords
  BY <1>2, <1>3, <1>5
<1>8. e \in Datasets
  BY <1>1, <1>2, <1>4, <1>7 DEF Datasets
<1>9. \A s \in d.sources : s.id # NoSource /\ s.id \in Nat
  BY <1>4, NullsAssumption DEF SourceRecords
<1>10. StoreOK(e)
  <2>1. \A s \in e.sources : s \in d.sources
    BY <1>2
  <2> QED
    BY <1>2, <1>6, <1>8, <1>9, <2>1 DEF StoreOK
<1>11. OriginOK(e, m)
  <2>1. ASSUME NEW c \in e.resources, c.source = NoSource
        PROVE  c.origin \in m
    BY <1>2, <1>5, <2>1 DEF OriginOK
  <2>2. ASSUME NEW c \in e.resources, NEW s \in e.sources, c.source = s.id
        PROVE  c.origin = s.path \/ {c.origin, s.path} \subseteq m
    BY <1>2, <1>6, <1>9, <2>2 DEF OriginOK
  <2> QED
    BY <2>1, <2>2 DEF OriginOK
<1>12. ASSUME NEW p, \A s \in gone : s.path # p
       PROVE  Alike(d, e, p)
  <2>1. SourcesAt(e, p) = SourcesAt(d, p)
    BY <1>2, <1>12 DEF SourcesAt
  <2>2. \A s \in SourcesAt(d, p) : s.id \notin ids /\ s \in d.sources
    BY <1>12 DEF SourcesAt, ids, StoreOK
  <2>3. ASSUME NEW c, c \in ServedTables(e, p)
        PROVE  c \in ServedTables(d, p)
    BY <1>6, <1>9, <2>1, <2>2, <2>3 DEF ServedTables
  <2>4. ASSUME NEW c, c \in ServedTables(d, p)
        PROVE  c \in ServedTables(e, p)
    <3>1. c \in d.resources /\ c.source \notin ids
      BY <2>2, <2>4 DEF ServedTables
    <3>2. c \in e.resources
      BY <1>2, <1>5, <3>1 DEF ids
    <3> QED
      BY <2>1, <2>4, <3>2 DEF ServedTables
  <2> QED
    BY <2>1, <2>3, <2>4 DEF Alike
<1> QED
  BY <1>2, <1>6, <1>10, <1>11, <1>12 DEF e

\* The dataset without some tables.
LEMMA WithoutResourcesKeeps ==
  ASSUME NEW d, NEW m, StoreOK(d), OriginOK(d, m), NEW gone
  PROVE  /\ StoreOK(WithoutResources(d, gone)) /\ OriginOK(WithoutResources(d, gone), m)
         /\ WithoutResources(d, gone).fresh = d.fresh
         /\ WithoutResources(d, gone).sources = d.sources
         /\ WithoutResources(d, gone).resources = d.resources \ gone
         /\ \A p : gone \cap ServedTables(d, p) = {} => Alike(d, WithoutResources(d, gone), p)
PROOF
<1> DEFINE e == WithoutResources(d, gone)
<1>1. d \in Datasets
  BY DEF StoreOK
<1>2. /\ e.fresh = d.fresh /\ e.sources = d.sources /\ e.resources = d.resources \ gone
      /\ e = [fresh |-> e.fresh, sources |-> e.sources, resources |-> e.resources]
  BY <1>1 DEF WithoutResources, Datasets
<1> HIDE DEF e
<1>3. StoreOK(e)
  <2>1. e \in Datasets
    BY <1>1, <1>2 DEF Datasets
  <2> QED
    BY <1>2, <2>1 DEF StoreOK
<1>4. OriginOK(e, m)
  BY <1>2 DEF OriginOK
<1>5. ASSUME NEW p, gone \cap ServedTables(d, p) = {}
      PROVE  Alike(d, e, p)
  <2>1. SourcesAt(e, p) = SourcesAt(d, p)
    BY <1>2 DEF SourcesAt
  <2> QED
    BY <1>2, <1>5, <2>1 DEF Alike, ServedTables
<1> QED
  BY <1>2, <1>3, <1>4, <1>5 DEF e

\* A source of the watchdog more, which no table hangs on yet.
LEMMA WithSourceKeeps ==
  ASSUME NEW d, NEW m, StoreOK(d), OriginOK(d, m),
         NEW p \in Supported, NEW rows \in Versions \cup {NoRows}
  PROVE  LET e == WithSource(d, p, rows)
             s == [id |-> d.fresh, path |-> p, rows |-> rows]
         IN /\ StoreOK(e) /\ OriginOK(e, m)
            /\ e.fresh = d.fresh + 1 /\ e.sources = d.sources \cup {s}
            /\ e.resources = d.resources
            /\ \A r \in d.resources : r.source # d.fresh
            /\ \A q : q # p => Alike(d, e, q)
PROOF
<1> DEFINE e == WithSource(d, p, rows)
           s == [id |-> d.fresh, path |-> p, rows |-> rows]
<1>1. d \in Datasets /\ d.fresh \in Nat
  BY DEF StoreOK, Datasets
<1>2. /\ e.fresh = d.fresh + 1 /\ e.sources = d.sources \cup {s} /\ e.resources = d.resources
      /\ e = [fresh |-> e.fresh, sources |-> e.sources, resources |-> e.resources]
  <2> HIDE DEF s
  <2>1. e = [d EXCEPT !.fresh = d.fresh + 1, !.sources = d.sources \cup {s}]
    BY DEF WithSource, s
  <2> QED
    BY <1>1, <2>1 DEF Datasets
<1>3. s \in SourceRecords /\ s.id = d.fresh /\ s.path = p
  BY <1>1 DEF SourceRecords
<1> HIDE DEF e, s
<1>4. \A r \in d.resources : r.source \in Nat \cup {NoSource}
  BY <1>1 DEF Datasets, ResourceRecords
<1>5. \A r \in d.resources : r.source # d.fresh
  BY <1>1, <1>4, NullsAssumption DEF StoreOK
<1>6. \A t \in d.sources : t.id \in Nat /\ t.id < d.fresh
  BY <1>1 DEF StoreOK, Datasets, SourceRecords
<1>7. StoreOK(e)
  <2>1. e \in Datasets
    BY <1>1, <1>2, <1>3 DEF Datasets
  <2>2. \A t \in e.sources : t.id < e.fresh
    BY <1>1, <1>2, <1>3, <1>6
  <2>3. \A t, u \in e.sources : t.id = u.id => t = u
    BY <1>1, <1>2, <1>3, <1>6 DEF StoreOK
  <2>4. \A r \in e.resources : r.source # NoSource => r.source < e.fresh
    BY <1>1, <1>2, <1>4 DEF StoreOK
  <2> QED
    BY <2>1, <2>2, <2>3, <2>4 DEF StoreOK
<1>8. OriginOK(e, m)
  BY <1>2, <1>3, <1>5 DEF OriginOK
<1>9. ASSUME NEW q, q # p
      PROVE  Alike(d, e, q)
  <2>1. SourcesAt(e, q) = SourcesAt(d, q)
    BY <1>2, <1>3, <1>9 DEF SourcesAt
  <2> QED
    BY <1>2, <2>1 DEF Alike, ServedTables
<1> QED
  BY <1>2, <1>5, <1>7, <1>8, <1>9 DEF e, s

\* A table more, on the source inserted just before it.
LEMMA WithResourceKeeps ==
  ASSUME NEW d, NEW m, StoreOK(d), OriginOK(d, m), NEW p \in Tables, NEW rows \in Versions,
         NEW s \in d.sources, s.path = p, s.id = d.fresh - 1
  PROVE  LET e == WithResource(d, p, rows)
             r == [id |-> d.fresh, source |-> d.fresh - 1, key |-> Key[p], origin |-> p,
                   scope |-> Scope[p], rows |-> rows]
         IN /\ StoreOK(e) /\ OriginOK(e, m)
            /\ e.sources = d.sources /\ e.resources = d.resources \cup {r}
            /\ \A q : q # p => Alike(d, e, q)
PROOF
<1> DEFINE e == WithResource(d, p, rows)
           r == [id |-> d.fresh, source |-> d.fresh - 1, key |-> Key[p], origin |-> p,
                 scope |-> Scope[p], rows |-> rows]
<1>1. d \in Datasets /\ d.fresh \in Nat /\ s.id \in Nat
  BY DEF StoreOK, Datasets, SourceRecords
<1>2. /\ e.fresh = d.fresh + 1 /\ e.sources = d.sources /\ e.resources = d.resources \cup {r}
      /\ e = [fresh |-> e.fresh, sources |-> e.sources, resources |-> e.resources]
  <2> HIDE DEF r
  <2>1. e = [d EXCEPT !.fresh = d.fresh + 1, !.resources = d.resources \cup {r}]
    BY DEF WithResource, r
  <2> QED
    BY <1>1, <2>1 DEF Datasets
<1>3. /\ r \in ResourceRecords /\ r.source = s.id /\ r.source \in Nat /\ r.source # NoSource
      /\ r.origin = p
  BY <1>1, Kinds, NullsAssumption DEF ResourceRecords
<1> HIDE DEF e, r
<1>4. \A t \in d.sources : t.id \in Nat /\ t.id < d.fresh
  BY <1>1 DEF StoreOK, Datasets, SourceRecords
<1>5. \A t \in d.sources : t.id = s.id => t = s
  BY DEF StoreOK
<1>6. StoreOK(e)
  <2>1. e \in Datasets
    BY <1>1, <1>2, <1>3 DEF Datasets
  <2>2. \A t \in e.sources : t.id < e.fresh
    BY <1>1, <1>2, <1>4
  <2>3. \A t, u \in e.sources : t.id = u.id => t = u
    BY <1>2 DEF StoreOK
  <2>4. \A c \in e.resources : c.source # NoSource => c.source < e.fresh
    <3>1. \A c \in d.resources : c.source # NoSource => c.source \in Nat /\ c.source < d.fresh
      BY <1>1 DEF StoreOK, Datasets, ResourceRecords
    <3>2. r.source < d.fresh
      BY <1>3, <1>4
    <3> QED
      BY <1>1, <1>2, <1>3, <3>1, <3>2
  <2> QED
    BY <2>1, <2>2, <2>3, <2>4 DEF StoreOK
<1>7. OriginOK(e, m)
  BY <1>2, <1>3, <1>5 DEF OriginOK
<1>8. ASSUME NEW q, q # p
      PROVE  Alike(d, e, q)
  <2>1. SourcesAt(e, q) = SourcesAt(d, q)
    BY <1>2 DEF SourcesAt
  <2>2. \A t \in SourcesAt(d, q) : r.source # t.id
    BY <1>3, <1>5, <1>8 DEF SourcesAt
  <2> QED
    BY <1>2, <2>1, <2>2 DEF Alike, ServedTables
<1> QED
  BY <1>2, <1>6, <1>7, <1>8 DEF e, r

\* e keeps what is true of d, and serves what d serves of the other paths that
\* were not moved.
Keeps(d, e, m, p) ==
  /\ StoreOK(e) /\ OriginOK(e, m)
  /\ \A q \in Supported \ m : q # p => Alike(d, e, q)

\* A deletion leaves nothing at the path.
LEMMA DeleteDocumentKeeps ==
  ASSUME NEW d, NEW m, StoreOK(d), OriginOK(d, m), NEW p \in Documents
  PROVE  Keeps(d, DeleteDocument(d, p), m, p) /\ SourcesAt(DeleteDocument(d, p), p) = {}
PROOF
<1> DEFINE gone == SourcesAt(d, p)
<1>1. gone \subseteq d.sources
  BY DEF SourcesAt
<1>2. \A r \in d.resources : r.origin \in Tables
  BY DEF StoreOK, Datasets, ResourceRecords
<1>3. \A r \in d.resources, s \in gone : r.source = s.id => r.origin \in m
  BY <1>2, Kinds DEF OriginOK, SourcesAt
<1>4. \A q : q # p => \A s \in gone : s.path # q
  BY DEF SourcesAt
<1>5. d.sources \ gone = {s \in d.sources : s.path # p}
  BY DEF SourcesAt
<1>6. DeleteDocument(d, p) = WithoutSources(d, gone)
  BY DEF DeleteDocument
<1> HIDE DEF gone
<1>7. Keeps(d, WithoutSources(d, gone), m, p)
  BY <1>1, <1>3, <1>4, WithoutSourcesKeeps DEF Keeps
<1>8. SourcesAt(WithoutSources(d, gone), p) = {}
  <2>1. WithoutSources(d, gone).sources = d.sources \ gone
    BY <1>1, <1>3, WithoutSourcesKeeps
  <2> QED
    BY <1>5, <2>1 DEF SourcesAt
<1> QED
  BY <1>6, <1>7, <1>8

\* The tables imported from the path go with the sources that have it.
LEMMA DeleteStructuredKeeps ==
  ASSUME NEW d, NEW m, StoreOK(d), OriginOK(d, m), NEW p
  PROVE  Keeps(d, DeleteStructured(d, p), m, p) /\ SourcesAt(DeleteStructured(d, p), p) = {}
PROOF
<1> DEFINE dropped == ResourcesFrom(d, p)
           c == WithoutResources(d, dropped)
           gone == SourcesAt(d, p)
<1>1. /\ StoreOK(c) /\ OriginOK(c, m)
      /\ c.sources = d.sources /\ c.resources = d.resources \ dropped
      /\ \A q : dropped \cap ServedTables(d, q) = {} => Alike(d, c, q)
  BY WithoutResourcesKeeps
<1>2. \A q : q \notin m /\ q # p => dropped \cap ServedTables(d, q) = {}
  BY DEF ResourcesFrom, ServedTables, SourcesAt, OriginOK
<1>3. gone \subseteq c.sources
  BY <1>1 DEF SourcesAt
<1>4. \A r \in d.resources \ dropped : r.origin # p
  BY DEF ResourcesFrom
<1>5. DeleteStructured(d, p) = WithoutSources(c, gone)
  BY DEF DeleteStructured
<1>6. \A s \in gone : s.path = p
  BY DEF SourcesAt
<1>7. \A s \in c.sources \ gone : s.path # p
  BY <1>1 DEF SourcesAt
<1> HIDE DEF c, dropped, gone
<1>8. \A r \in c.resources, s \in gone : r.source = s.id => r.origin \in m
  BY <1>1, <1>3, <1>4, <1>6 DEF OriginOK
<1> DEFINE e == WithoutSources(c, gone)
<1>9. /\ StoreOK(e) /\ OriginOK(e, m) /\ e.sources = c.sources \ gone
      /\ \A q : (\A s \in gone : s.path # q) => Alike(c, e, q)
  BY <1>1, <1>3, <1>8, WithoutSourcesKeeps
<1> HIDE DEF e
<1>10. SourcesAt(e, p) = {}
  BY <1>7, <1>9 DEF SourcesAt
<1>11. \A q \in Supported \ m : q # p => Alike(d, e, q)
  BY <1>1, <1>2, <1>6, <1>9 DEF Alike
<1> QED
  BY <1>5, <1>9, <1>10, <1>11 DEF Keeps, e

\* A path without sources is in step with no file.
LEMMA NothingServed ==
  ASSUME NEW d, NEW p, SourcesAt(d, p) = {}
  PROVE  StepOf(d, NoFile, p)
PROOF
<1>1. ServedTables(d, p) = {}
  BY DEF ServedTables
<1>2. Parsed(NoFile) = {}
  BY NamesAssumption DEF Parsed
<1>3. Cardinality({}) <= 1
  BY FS_EmptySet
<1>4. \A S : S = {} => {s.rows : s \in S} = {}
  OBVIOUS
<1>5. {s.rows : s \in SourcesAt(d, p)} = {} /\ {r.rows : r \in ServedTables(d, p)} = {}
  BY <1>1, <1>4
<1> QED
  BY <1>1, <1>2, <1>3, <1>5 DEF StepOf

\* One member counts as one.
LEMMA OneIsOne == ASSUME NEW x PROVE Cardinality({x}) <= 1
PROOF
  BY FS_Singleton

\* A refresh serves what it was given.
LEMMA RefreshDocumentKeeps ==
  ASSUME NEW d, NEW m, StoreOK(d), OriginOK(d, m), NEW p \in Documents, NEW rows \in Versions
  PROVE  /\ Keeps(d, RefreshDocument(d, p, rows), m, p)
         /\ StepOf(RefreshDocument(d, p, rows), rows, p)
PROOF
<1> DEFINE c == DeleteDocument(d, p)
           e == WithSource(c, p, rows)
           s == [id |-> c.fresh, path |-> p, rows |-> rows]
<1>1. Keeps(d, c, m, p) /\ SourcesAt(c, p) = {}
  BY DeleteDocumentKeeps
<1>2. RefreshDocument(d, p, rows) = e
  BY DEF RefreshDocument
<1>3. s.path = p /\ s.rows = rows
  OBVIOUS
<1> HIDE DEF c
<1>4. p \in Supported /\ rows \in Versions \cup {NoRows}
  BY Kinds
<1>5. /\ StoreOK(e) /\ OriginOK(e, m) /\ e.sources = c.sources \cup {s}
      /\ \A q : q # p => Alike(c, e, q)
  BY <1>1, <1>4, WithSourceKeeps DEF Keeps
<1> HIDE DEF e, s
<1>6. SourcesAt(e, p) = {s}
  BY <1>1, <1>3, <1>5 DEF SourcesAt
<1>7. Keeps(d, e, m, p)
  BY <1>1, <1>5 DEF Keeps, Alike
<1>8. StepOf(e, rows, p)
  <2>1. {t.rows : t \in SourcesAt(e, p)} \ {NoRows} = Parsed(rows)
    BY <1>3, <1>6, NullsAssumption DEF Parsed
  <2>2. Cardinality(SourcesAt(e, p)) <= 1
    BY <1>6, OneIsOne
  <2>3. rows # NoFile /\ p \notin Tables
    BY NamesAssumption, Kinds
  <2> QED
    BY <2>1, <2>2, <2>3 DEF StepOf
<1> QED
  BY <1>2, <1>7, <1>8

\* A refresh of a table serves what it was given.
LEMMA RefreshStructuredKeeps ==
  ASSUME NEW d, NEW m, StoreOK(d), OriginOK(d, m), NEW p \in Tables, NEW rows \in Versions
  PROVE  /\ Keeps(d, RefreshStructured(d, p, rows), m, p)
         /\ StepOf(RefreshStructured(d, p, rows), rows, p)
PROOF
<1> DEFINE c == DeleteStructured(d, p)
           b == WithSource(c, p, NoRows)
           s == [id |-> c.fresh, path |-> p, rows |-> NoRows]
           e == WithResource(b, p, rows)
           r == [id |-> b.fresh, source |-> b.fresh - 1, key |-> Key[p], origin |-> p,
                 scope |-> Scope[p], rows |-> rows]
<1>1. Keeps(d, c, m, p) /\ SourcesAt(c, p) = {}
  BY DeleteStructuredKeeps
<1>2. RefreshStructured(d, p, rows) = e
  BY DEF RefreshStructured
<1>3. s.path = p /\ s.id = c.fresh
  OBVIOUS
<1>4. r.rows = rows /\ r.source = b.fresh - 1
  OBVIOUS
<1> HIDE DEF c
<1>5. p \in Supported /\ NoRows \in Versions \cup {NoRows}
  BY Kinds
<1>6. c.fresh \in Nat
  BY <1>1 DEF Keeps, StoreOK, Datasets
<1>7. /\ StoreOK(b) /\ OriginOK(b, m) /\ b.fresh = c.fresh + 1 /\ b.sources = c.sources \cup {s}
      /\ b.resources = c.resources /\ \A t \in c.resources : t.source # c.fresh
      /\ \A q : q # p => Alike(c, b, q)
  BY <1>1, <1>5, WithSourceKeeps DEF Keeps
<1> HIDE DEF b, s
<1>8. s \in b.sources /\ s.id = b.fresh - 1
  BY <1>3, <1>6, <1>7
<1>9. /\ StoreOK(e) /\ OriginOK(e, m) /\ e.sources = b.sources /\ e.resources = b.resources \cup {r}
      /\ \A q : q # p => Alike(b, e, q)
  BY <1>3, <1>7, <1>8, WithResourceKeeps
<1> HIDE DEF e, r
<1>10. SourcesAt(e, p) = {s}
  BY <1>1, <1>3, <1>7, <1>9 DEF SourcesAt
<1>11. ServedTables(e, p) = {r}
  BY <1>3, <1>4, <1>7, <1>8, <1>9, <1>10 DEF ServedTables
<1>12. Keeps(d, e, m, p)
  BY <1>1, <1>7, <1>9 DEF Keeps, Alike
<1>13. StepOf(e, rows, p)
  <2>1. {t.rows : t \in ServedTables(e, p)} = Parsed(rows)
    BY <1>4, <1>11 DEF Parsed
  <2>2. Cardinality(ServedTables(e, p)) <= 1
    BY <1>11, OneIsOne
  <2>3. rows # NoFile /\ p \notin Documents
    BY NamesAssumption, Kinds
  <2> QED
    BY <2>1, <2>2, <2>3 DEF StepOf
<1> QED
  BY <1>2, <1>12, <1>13

\* A rename touches the two paths of a move.
LEMMA RenameKeeps ==
  ASSUME NEW d, NEW m, StoreOK(d), OriginOK(d, m), NEW from \in m, NEW to \in m,
         to \in Supported
  PROVE  Keeps(d, RenamePath(d, from, to), m, to)
PROOF
<1> DEFINE Put(s) == IF s.path = from THEN [s EXCEPT !.path = to] ELSE s
           e == RenamePath(d, from, to)
<1>1. d \in Datasets
  BY DEF StoreOK
<1>2. /\ e.fresh = d.fresh /\ e.resources = d.resources /\ e.sources = {Put(s) : s \in d.sources}
      /\ e = [fresh |-> e.fresh, sources |-> e.sources, resources |-> e.resources]
  <2> DEFINE puts == {Put(s) : s \in d.sources}
  <2>1. e = [d EXCEPT !.sources = puts]
    BY DEF RenamePath
  <2> HIDE DEF puts, e
  <2>2. /\ e.fresh = d.fresh /\ e.resources = d.resources /\ e.sources = puts
        /\ e = [fresh |-> e.fresh, sources |-> e.sources, resources |-> e.resources]
    BY <1>1, <2>1 DEF Datasets
  <2> QED
    BY <2>2 DEF puts
<1>3. ASSUME NEW s \in d.sources
      PROVE  /\ Put(s) \in SourceRecords /\ Put(s).id = s.id
             /\ Put(s).rows = s.rows
             /\ \/ Put(s) = s /\ s.path # from
                \/ s.path = from /\ Put(s).path = to
  <2>1. s \in SourceRecords
    BY <1>1 DEF Datasets
  <2>2. CASE s.path = from
    <3>1. Put(s) = [s EXCEPT !.path = to]
      BY <2>2
    <3> HIDE DEF Put
    <3> QED
      BY <2>1, <2>2, <3>1 DEF SourceRecords
  <2>3. CASE s.path # from
    BY <2>1, <2>3
  <2> QED
    BY <2>2, <2>3
<1> HIDE DEF e, Put
<1>4. StoreOK(e)
  <2>1. e \in Datasets
    BY <1>1, <1>2, <1>3 DEF Datasets
  <2>2. \A t \in e.sources : t.id < e.fresh
    BY <1>2, <1>3 DEF StoreOK
  <2>3. \A t, u \in e.sources : t.id = u.id => t = u
    BY <1>2, <1>3 DEF StoreOK
  <2> QED
    BY <1>2, <2>1, <2>2, <2>3 DEF StoreOK
<1>5. OriginOK(e, m)
  <2>1. ASSUME NEW r \in e.resources, NEW t \in e.sources, r.source = t.id
        PROVE  r.origin = t.path \/ {r.origin, t.path} \subseteq m
    <3>1. PICK s \in d.sources : t = Put(s)
      BY <1>2
    <3>2. r.origin = s.path \/ {r.origin, s.path} \subseteq m
      BY <1>2, <1>3, <2>1, <3>1 DEF OriginOK
    <3> QED
      BY <1>3, <3>1, <3>2
  <2> QED
    BY <1>2, <2>1 DEF OriginOK
<1>6. ASSUME NEW q \in Supported \ m
      PROVE  Alike(d, e, q)
  <2>1. SourcesAt(e, q) = SourcesAt(d, q)
    <3>1. ASSUME NEW t, t \in SourcesAt(e, q)
          PROVE  t \in SourcesAt(d, q)
      BY <1>2, <1>3, <1>6, <3>1 DEF SourcesAt
    <3>2. ASSUME NEW t, t \in SourcesAt(d, q)
          PROVE  t \in SourcesAt(e, q)
      BY <1>2, <1>3, <1>6, <3>2 DEF SourcesAt
    <3> QED
      BY <3>1, <3>2
  <2> QED
    BY <1>2, <2>1 DEF Alike, ServedTables
<1> QED
  BY <1>4, <1>5, <1>6 DEF Keeps, e

\* A finite set of files, listed, each once.
LEMMA FilesListed ==
  ASSUME NEW S, IsFiniteSet(S)
  PROVE  /\ Cardinality(S) \in Nat
         /\ SetToSeq(S) \in [1 .. Cardinality(S) -> S]
         /\ \A i, j \in 1 .. Cardinality(S) : SetToSeq(S)[i] = SetToSeq(S)[j] => i = j
         /\ \A x \in S : \E i \in 1 .. Cardinality(S) : SetToSeq(S)[i] = x
PROOF
<1> DEFINE n == Cardinality(S)
           f == SetToSeq(S)
<1>1. n \in Nat /\ \E g \in [1 .. n -> S] : IsInjective(g)
  BY FS_CardinalityType DEF ExistsBijection, Bijection, Injection
<1>2. f \in [1 .. n -> S] /\ IsInjective(f)
  BY <1>1 DEF SetToSeq
<1> HIDE DEF f
<1>3. f \in Injection(1 .. n, S)
  BY <1>2 DEF Injection
<1>4. IsFiniteSet(1 .. n) /\ Cardinality(1 .. n) = n
  <2>1. 1 \in Int /\ n \in Int /\ (1 > n => n = 0) /\ n - 1 + 1 = n
    BY <1>1
  <2> HIDE DEF n
  <2> QED
    BY <2>1, FS_Interval
<1>5. f \in Surjection(1 .. n, S)
  BY <1>3, <1>4, FS_Injection
<1>6. \A x \in S : \E i \in 1 .. n : f[i] = x
  BY <1>5 DEF Surjection
<1>7. \A i, j \in 1 .. n : f[i] = f[j] => i = j
  BY <1>2 DEF IsInjective
<1> QED
  BY <1>1, <1>2, <1>6, <1>7 DEF f

\* replace_dataset serves what the files of the scan held, and nothing else.
LEMMA ReplaceKeeps ==
  ASSUME NEW d, d.fresh \in Nat, NEW scanned,
         scanned \in [DOMAIN scanned -> Contents \cup {NoFile}], DOMAIN scanned \subseteq Supported
  PROVE  /\ StoreOK(ReplaceDataset(d, scanned))
         /\ \A m : OriginOK(ReplaceDataset(d, scanned), m)
         /\ \A p \in Supported : (p \in DOMAIN scanned => scanned[p] # NoFile) =>
              StepOf(ReplaceDataset(d, scanned),
                     IF p \in DOMAIN scanned THEN scanned[p] ELSE NoFile, p)
PROOF
<1> DEFINE D == DOMAIN scanned
           files == SetToSeq(D)
           n == Cardinality(D)
           SourceOf(i) == [id |-> d.fresh + i, path |-> files[i],
                           rows |-> IF files[i] \notin Tables /\ scanned[files[i]] \in Versions
                                    THEN scanned[files[i]] ELSE NoRows]
           TableOf(s) == [id |-> s.id, source |-> s.id, key |-> Key[s.path], origin |-> s.path,
                          scope |-> Scope[s.path], rows |-> scanned[s.path]]
           ss == ScannedSources(d, scanned)
           rs == ScannedResources(d, scanned)
           e == ReplaceDataset(d, scanned)
<1>1. IsFiniteSet(D)
  <2>1. IsFiniteSet(Paths) /\ D \subseteq Paths
    BY PathsAssumption, Kinds
  <2> QED
    BY <2>1, FS_Subset
<1>2. /\ n \in Nat /\ files \in [1 .. n -> D]
      /\ \A i, j \in 1 .. n : files[i] = files[j] => i = j
      /\ \A x \in D : \E i \in 1 .. n : files[i] = x
  BY <1>1, FilesListed
<1>3. ss = {SourceOf(i) : i \in 1 .. n}
  <2>1. DOMAIN files = 1 .. n
    BY <1>2
  <2> QED
    BY <2>1 DEF ScannedSources
<1>4. rs = {TableOf(s) : s \in {t \in ss : t.path \in Tables /\ scanned[t.path] \in Versions}}
  BY DEF ScannedResources
<1>5. e = [fresh |-> d.fresh + n + 1, sources |-> ss, resources |-> rs]
  BY DEF ReplaceDataset
<1> HIDE DEF files, ss, rs, e, D, n
<1>6. e.fresh = d.fresh + n + 1 /\ e.sources = ss /\ e.resources = rs
  BY <1>5
<1>7. /\ D \subseteq Supported /\ \A p \in D : scanned[p] \in Contents \cup {NoFile}
  BY DEF D
<1>8. ASSUME NEW i \in 1 .. n
      PROVE  /\ SourceOf(i).id = d.fresh + i /\ SourceOf(i).path = files[i]
             /\ SourceOf(i) \in SourceRecords /\ SourceOf(i).id < d.fresh + n + 1
             /\ files[i] \in D
             /\ SourceOf(i).rows = IF files[i] \notin Tables /\ scanned[files[i]] \in Versions
                                   THEN scanned[files[i]] ELSE NoRows
  <2>1. files[i] \in D /\ files[i] \in Supported
    BY <1>2, <1>7
  <2>2. i \in Nat /\ i <= n /\ d.fresh + i \in Nat /\ d.fresh + i < d.fresh + n + 1
    BY <1>2
  <2> QED
    BY <2>1, <2>2 DEF SourceRecords
<1> HIDE DEF SourceOf
<1>9. \A s \in ss : /\ s \in SourceRecords /\ s.id \in Nat /\ s.id < d.fresh + n + 1
                    /\ s.path \in D
                    /\ s.rows = IF s.path \notin Tables /\ scanned[s.path] \in Versions
                                THEN scanned[s.path] ELSE NoRows
  BY <1>3, <1>8 DEF SourceRecords
<1>10. \A s, t \in ss : s.id = t.id \/ s.path = t.path => s = t
  <2>1. ASSUME NEW i \in 1 .. n, NEW j \in 1 .. n,
               SourceOf(i).id = SourceOf(j).id \/ SourceOf(i).path = SourceOf(j).path
        PROVE  SourceOf(i) = SourceOf(j)
    <3>1. i = j
      BY <1>2, <1>8, <2>1
    <3> QED
      BY <3>1
  <2> QED
    BY <1>3, <2>1
<1>11. \A p \in D : \E s \in ss : s.path = p
  BY <1>2, <1>3, <1>8
<1>12. ASSUME NEW s \in ss, s.path \in Tables, scanned[s.path] \in Versions
       PROVE  /\ TableOf(s) \in ResourceRecords /\ TableOf(s).source = s.id
              /\ TableOf(s).origin = s.path /\ TableOf(s).rows = scanned[s.path]
  BY <1>9, <1>12, Kinds DEF ResourceRecords
<1> HIDE DEF TableOf
<1>13. \A r \in rs : \E s \in ss : /\ s.path \in Tables /\ scanned[s.path] \in Versions
                                  /\ r = TableOf(s) /\ r \in ResourceRecords /\ r.source = s.id
                                  /\ r.origin = s.path /\ r.rows = scanned[s.path]
  BY <1>4, <1>12
<1>14. StoreOK(e)
  <2>1. e \in Datasets
    <3>1. d.fresh + n + 1 \in Nat /\ ss \subseteq SourceRecords /\ rs \subseteq ResourceRecords
      BY <1>2, <1>9, <1>13
    <3> QED
      BY <1>5, <3>1 DEF Datasets
  <2>2. \A s \in e.sources : s.id < e.fresh
    BY <1>6, <1>9
  <2>3. \A s, t \in e.sources : s.id = t.id => s = t
    BY <1>6, <1>10
  <2>4. \A r \in e.resources : r.source # NoSource => r.source < e.fresh
    BY <1>6, <1>9, <1>13
  <2> QED
    BY <2>1, <2>2, <2>3, <2>4 DEF StoreOK
<1>15. ASSUME NEW m
       PROVE  OriginOK(e, m)
  <2>1. \A r \in e.resources : r.source # NoSource
    BY <1>6, <1>9, <1>13, NullsAssumption
  <2>2. \A r \in e.resources, s \in e.sources : r.source = s.id => r.origin = s.path
    BY <1>6, <1>10, <1>13
  <2> QED
    BY <2>1, <2>2 DEF OriginOK
<1>16. ASSUME NEW p \in Supported, p \in D => scanned[p] # NoFile
       PROVE  StepOf(e, IF p \in D THEN scanned[p] ELSE NoFile, p)
  <2>1. CASE p \notin D
    <3>1. SourcesAt(e, p) = {}
      BY <1>6, <1>9, <2>1 DEF SourcesAt
    <3> QED
      BY <2>1, <3>1, NothingServed
  <2>2. CASE p \in D
    <3>1. PICK s \in ss : s.path = p
      BY <1>11, <2>2
    <3>2. SourcesAt(e, p) = {s}
      BY <1>6, <1>10, <3>1 DEF SourcesAt
    <3>3. scanned[p] # NoFile /\ scanned[s.path] = scanned[p]
      BY <1>16, <2>2, <3>1
    <3>4. CASE p \in Documents
      <4>1. p \notin Tables
        BY <3>4, Kinds
      <4>2. {t.rows : t \in SourcesAt(e, p)} = {s.rows}
        BY <3>2
      <4>3. s.rows = IF scanned[s.path] \in Versions THEN scanned[s.path] ELSE NoRows
        BY <1>9, <3>1, <4>1
      <4>4. {s.rows} \ {NoRows} = Parsed(scanned[p])
        BY <3>3, <4>3, NullsAssumption DEF Parsed
      <4>5. Cardinality(SourcesAt(e, p)) <= 1
        BY <3>2, OneIsOne
      <4> QED
        BY <2>2, <3>3, <4>1, <4>2, <4>4, <4>5 DEF StepOf
    <3>5. CASE p \in Tables
      <4>1. p \notin Documents
        BY <3>5, Kinds
      <4>2. ServedTables(e, p) = {r \in rs : r.source = s.id}
        BY <1>6, <3>2 DEF ServedTables
      <4>3. CASE scanned[s.path] \in Versions
        <5>1. TableOf(s) \in rs /\ TableOf(s).source = s.id /\ TableOf(s).rows = scanned[s.path]
          BY <1>4, <1>12, <3>1, <3>5, <4>3
        <5>2. \A r \in rs : r.source = s.id => r = TableOf(s)
          BY <1>10, <1>13
        <5>3. ServedTables(e, p) = {TableOf(s)}
          BY <4>2, <5>1, <5>2
        <5>4. {r.rows : r \in ServedTables(e, p)} = {scanned[s.path]}
          BY <5>1, <5>3
        <5>5. Cardinality(ServedTables(e, p)) <= 1
          BY <5>3, OneIsOne
        <5> QED
          BY <2>2, <3>3, <4>1, <4>3, <5>4, <5>5 DEF StepOf, Parsed
      <4>4. CASE scanned[s.path] \notin Versions
        <5>1. ServedTables(e, p) = {}
          BY <1>10, <1>13, <4>2, <4>4
        <5>2. {r.rows : r \in ServedTables(e, p)} = {}
          BY <5>1
        <5>3. Cardinality(ServedTables(e, p)) <= 1
          BY <5>1, FS_EmptySet
        <5> QED
          BY <2>2, <3>3, <4>1, <4>4, <5>2, <5>3 DEF StepOf, Parsed
      <4> QED
        BY <4>3, <4>4
    <3> QED
      BY <3>4, <3>5, Kinds
  <2> QED
    BY <2>1, <2>2
<1> QED
  BY <1>14, <1>15, <1>16 DEF e, D

-----------------------------------------------------------------------------
(* Files change *)

\* What the normalisation of an event is made of.
LEMMA NormalizedItem ==
  ASSUME NEW type \in {"created", "modified", "deleted", "moved"}, NEW p \in Paths,
         NEW source \in Paths \cup {NoPath}, NEW m,
         source # NoPath => {p, source} \subseteq m, type = "moved" => source # NoPath
  PROVE  LET x == Normalized(type, p, source)
         IN ItemOK(x, m) /\ x.type = type /\ x.path = p /\ x.source = source
PROOF
<1> DEFINE x == Normalized(type, p, source)
<1>1. /\ x.type = type /\ x.path = p /\ x.source = source
      /\ x.reason \in {"temporary_file_skip", "cross_scope_rename", "none"}
      /\ x.reason = "temporary_file_skip" => p \in Temporary
      /\ x = [type |-> x.type, path |-> x.path, source |-> x.source, reason |-> x.reason]
  BY DEF Normalized
<1> HIDE DEF x
<1>2. x \in Items
  BY <1>1 DEF Items
<1>3. p # NoPath
  BY NamesAssumption
<1>4. ItemOK(x, m)
  BY <1>1, <1>2, <1>3 DEF ItemOK
<1> QED
  BY <1>1, <1>4 DEF x

\* The queue q after an item came in: the item, and what the queue had of other
\* paths, or a creation in the place of the modification of a created file.
Takes(q, r, item) ==
  /\ QueueOK(r)
  /\ \A i \in DOMAIN r :
       \/ r[i] = item
       \/ \E j \in DOMAIN q :
            r[i] = q[j] /\ (q[j].path # item.path \/ (q[j].type = "created" /\ item.type = "modified"))
  /\ \E i \in DOMAIN r : r[i].path = item.path
  /\ \A j \in DOMAIN q : \E i \in DOMAIN r : r[i].path = q[j].path

\* The queue takes an item, whichever way it is merged.
LEMMA EnqueueTakes ==
  ASSUME QueueOK(queue), ambiguous \in BOOLEAN, NEW item \in Items, item.path \in Paths, Enqueue(item)
  PROVE  Takes(queue, queue', item) /\ ambiguous' \in BOOLEAN
PROOF
<1> DEFINE at == {i \in DOMAIN queue : queue[i].path = item.path}
<1>1. queue \in Seq(Items) /\ DOMAIN queue = 1 .. Len(queue) /\ Len(queue) \in Nat
      /\ \A i \in DOMAIN queue : queue[i] \in Items
  BY DEF QueueOK
<1>2. CASE at = {}
  <2>1. queue' = Append(queue, item) /\ ambiguous' = ambiguous
    BY <1>2 DEF Enqueue
  <2>2. /\ queue' \in Seq(Items) /\ DOMAIN queue' = 1 .. Len(queue) + 1
        /\ \A i \in DOMAIN queue : queue'[i] = queue[i]
        /\ queue'[Len(queue) + 1] = item
    BY <1>1, <2>1, AppendProperties
  <2>3. \A i \in DOMAIN queue' :
          \/ i \in DOMAIN queue /\ queue'[i] = queue[i] /\ queue[i].path # item.path
          \/ i = Len(queue) + 1 /\ queue'[i] = item
    BY <1>1, <1>2, <2>2
  <2>4. QueueOK(queue')
    <3>1. \A i \in DOMAIN queue' : queue'[i].path \in Paths
      BY <2>3 DEF QueueOK
    <3>2. \A i, j \in DOMAIN queue' : queue'[i].path = queue'[j].path => i = j
      BY <2>3 DEF QueueOK
    <3> QED
      BY <2>2, <3>1, <3>2 DEF QueueOK
  <2>5. \A j \in DOMAIN queue : j \in DOMAIN queue' /\ queue'[j] = queue[j]
    BY <1>1, <2>2
  <2>6. Len(queue) + 1 \in DOMAIN queue'
    BY <1>1, <2>2
  <2> QED
    BY <2>1, <2>2, <2>3, <2>4, <2>5, <2>6 DEF Takes
<1>3. CASE at # {}
  <2> DEFINE New(old) == IF Coalesces(old.type, item.type) THEN MergeEvents(old, item) ELSE item
  <2>1. PICK k \in at :
          /\ queue' = [queue EXCEPT ![k] = New(queue[k])]
          /\ ambiguous' = (ambiguous \/ ~Coalesces(queue[k].type, item.type))
    BY <1>3 DEF Enqueue
  <2>2. k \in DOMAIN queue /\ queue[k].path = item.path
    OBVIOUS
  <2>3. \/ New(queue[k]) = item
        \/ New(queue[k]) = queue[k] /\ queue[k].type = "created" /\ item.type = "modified"
    BY DEF MergeEvents
  <2>4. New(queue[k]).path = item.path /\ New(queue[k]) \in Items
    BY <1>1, <2>2, <2>3
  <2> HIDE DEF New
  <2>5. /\ queue' \in Seq(Items) /\ DOMAIN queue' = DOMAIN queue
        /\ queue'[k] = New(queue[k])
        /\ \A i \in DOMAIN queue : i # k => queue'[i] = queue[i]
    BY <1>1, <2>1, <2>2, <2>4
  <2>6. \A i \in DOMAIN queue : queue'[i].path = queue[i].path
    BY <2>2, <2>4, <2>5
  <2>7. QueueOK(queue')
    BY <2>5, <2>6 DEF QueueOK
  <2>8. ASSUME NEW i \in DOMAIN queue'
        PROVE  \/ queue'[i] = item
               \/ \E j \in DOMAIN queue :
                    /\ queue'[i] = queue[j]
                    /\ queue[j].path # item.path
                       \/ (queue[j].type = "created" /\ item.type = "modified")
    <3>1. CASE i = k
      BY <2>2, <2>3, <2>5, <3>1
    <3>2. CASE i # k
      <4>1. queue[i].path # item.path
        BY <2>2, <2>5, <3>2 DEF QueueOK
      <4> QED
        BY <2>5, <3>2, <4>1
    <3> QED
      BY <3>1, <3>2
  <2>9. ambiguous' \in BOOLEAN
    BY <2>1
  <2>10. queue'[k].path = item.path /\ k \in DOMAIN queue'
    BY <2>2, <2>5, <2>6
  <2> QED
    BY <2>5, <2>6, <2>7, <2>8, <2>9, <2>10 DEF Takes
<1> QED
  BY <1>2, <1>3

\* What waits for a path still waits, unless it was the origin of a move.
LEMMA TakesPaths ==
  ASSUME NEW q, QueueOK(q), NEW r, NEW item, Takes(q, r, item), NEW m, ItemsOK(q, m),
         item.path \in Paths
  PROVE  item.path \in PathsOf(r) /\ PathsOf(q) \subseteq PathsOf(r) \cup m
PROOF
<1>1. item.path \in PathsOf(r)
  BY NamesAssumption, InPathsOf DEF Takes
<1>2. ASSUME NEW p \in PathsOf(q)
      PROVE  p \in PathsOf(r) \cup m
  <2>1. PICK j \in DOMAIN q : p # NoPath /\ (p = q[j].path \/ p = q[j].source)
    BY InPathsOf
  <2>2. CASE p = q[j].path
    <3>1. PICK i \in DOMAIN r : r[i].path = p
      BY <2>1, <2>2 DEF Takes
    <3> QED
      BY <2>1, <3>1, InPathsOf
  <2>3. CASE p = q[j].source
    BY <2>1, <2>3 DEF ItemsOK, ItemOK
  <2> QED
    BY <2>1, <2>2, <2>3
<1> QED
  BY <1>1, <1>2

\* More moves on record disturb nothing.
LEMMA MoreMoves ==
  ASSUME NEW m, NEW n, m \subseteq n
  PROVE  /\ \A items : ItemsOK(items, m) => ItemsOK(items, n)
         /\ \A d : OriginOK(d, m) => OriginOK(d, n)
PROOF
  BY DEF ItemsOK, ItemOK, OriginOK

\* A change of a file, with its event in the queue.
LEMMA FileChangeIInv ==
  ASSUME IInv, NEW type \in {"created", "modified", "deleted", "moved"}, NEW p \in Paths,
         NEW source \in Paths \cup {NoPath}, NEW contents \in [Paths -> {NoFile} \cup Contents],
         FileChange(type, p, source, contents),
         \A q \in Paths \ {p, source} : contents[q] = fs[q],
         type = "deleted" => contents[p] = NoFile, type = "moved" => source # NoPath
  PROVE  IInv'
PROOF
<1> DEFINE item == Normalized(type, p, source)
<1>1. /\ fs' = contents /\ Enqueue(item)
      /\ moved' = moved \cup IF source = NoPath THEN {} ELSE {p, source}
      /\ batch' = batch /\ read' = read /\ report' = report
      /\ UNCHANGED <<scan, db, unsynced>>
  BY DEF FileChange, batchVars
<1>2. /\ moved \subseteq moved' /\ moved' \subseteq Paths
      /\ source # NoPath => {p, source} \subseteq moved'
  BY <1>1 DEF IInv, TypeInv
<1>3. ItemOK(item, moved') /\ item.type = type /\ item.path = p /\ item.source = source
  BY <1>2, NormalizedItem
<1> HIDE DEF item
<1>4. item \in Items
  BY <1>3 DEF ItemOK
<1>5. Takes(queue, queue', item) /\ ambiguous' \in BOOLEAN
  BY <1>1, <1>3, <1>4, EnqueueTakes DEF IInv, TypeInv
<1>6. QueueOK(queue')
  BY <1>5 DEF Takes
<1>7. p \in PathsOf(queue') /\ PathsOf(queue) \subseteq PathsOf(queue') \cup moved
  BY <1>3, <1>5, TakesPaths DEF IInv
<1>8. \A q \in Paths : q \notin PathsOf(queue') \cup moved' => q \notin {p, source} /\ fs'[q] = fs[q]
  BY <1>1, <1>2, <1>7, NamesAssumption
<1>9. TypeInv'
  BY <1>1, <1>2, <1>5 DEF IInv, TypeInv
<1>10. ItemsOK(queue', moved') /\ ItemsOK(batch', moved')
  <2>1. ItemsOK(queue, moved') /\ ItemsOK(batch, moved')
    BY <1>2, MoreMoves DEF IInv
  <2>2. \A i \in DOMAIN queue' : ItemOK(queue'[i], moved')
    BY <1>3, <1>5, <2>1 DEF Takes, ItemsOK
  <2> QED
    BY <1>1, <2>1, <2>2 DEF ItemsOK
<1>11. EventsOK(queue', batch', fs', moved')
  <2>1. ASSUME NEW q \in Paths \ moved'
        PROVE  /\ DeletionsHold(queue', q, fs'[q])
               /\ q \in PathsOf(queue') \/ DeletionsHold(batch', q, fs'[q])
    <3>1. q \in Paths \ moved
      BY <1>2
    <3>2. /\ DeletionsHold(queue, q, fs[q])
          /\ q \in PathsOf(queue) \/ DeletionsHold(batch, q, fs[q])
      BY <3>1 DEF IInv, EventsOK
    <3>3. q # source
      BY <1>2, NamesAssumption
    <3>4. CASE q = p
      <4>1. type = "deleted" => fs'[q] = NoFile
        BY <1>1, <3>4
      <4>2. ASSUME NEW i \in DOMAIN queue', queue'[i].path = q, queue'[i].type = "deleted"
            PROVE  fs'[q] = NoFile
        <5>1. queue'[i] = item
          BY <1>3, <1>5, <3>4, <4>2 DEF Takes
        <5> QED
          BY <1>3, <4>1, <4>2, <5>1
      <4> QED
        BY <1>7, <3>4, <4>2 DEF DeletionsHold
    <3>5. CASE q # p
      <4>1. fs'[q] = fs[q]
        BY <1>1, <3>3, <3>5
      <4>2. \A i \in DOMAIN queue' : queue'[i].path = q => \E j \in DOMAIN queue : queue'[i] = queue[j]
        BY <1>3, <1>5, <3>5 DEF Takes
      <4>3. DeletionsHold(queue', q, fs'[q])
        BY <3>2, <4>1, <4>2 DEF DeletionsHold
      <4>4. q \in PathsOf(queue) => q \in PathsOf(queue')
        BY <1>7, <3>1
      <4> QED
        BY <1>1, <3>2, <4>1, <4>3, <4>4
    <3> QED
      BY <3>4, <3>5
  <2> QED
    BY <2>1 DEF EventsOK
<1>12. ReadOK(read', batch', queue', fs', moved')
  <2>1. ASSUME read # NoRead
        PROVE  /\ batch # << >> /\ ~NeedsRebuild(Head(batch)) /\ ~Skips(Head(batch))
               /\ Head(batch).type \in {"created", "modified"}
               /\ read = fs'[Head(batch).path] \/ Head(batch).path \in moved' \cup PathsOf(queue')
    <3> DEFINE h == Head(batch).path
    <3>1. /\ batch # << >> /\ ~NeedsRebuild(Head(batch)) /\ ~Skips(Head(batch))
          /\ Head(batch).type \in {"created", "modified"}
          /\ read = fs[h] \/ h \in moved \cup PathsOf(queue)
      BY <2>1 DEF IInv, ReadOK
    <3>2. h \in Paths
      <4>1. 1 \in DOMAIN batch /\ Head(batch) = batch[1]
        BY <3>1, TailItems DEF IInv, TypeInv
      <4>2. ItemOK(Head(batch), moved)
        BY <4>1 DEF IInv, ItemsOK
      <4>3. h # NoPath
        BY <3>1, <4>2 DEF ItemOK, NeedsRebuild
      <4> QED
        BY <4>2, <4>3 DEF ItemOK, Items
    <3> HIDE DEF h
    <3>3. read = fs'[h] \/ h \in moved' \cup PathsOf(queue')
      BY <1>2, <1>7, <1>8, <3>1, <3>2
    <3> QED
      BY <3>1, <3>3 DEF h
  <2> QED
    BY <1>1, <2>1 DEF ReadOK
<1>13. ReportOK(report') /\ ScanOK(scan') /\ StoreOK(db')
  BY <1>1 DEF IInv
<1>14. OriginOK(db', moved')
  BY <1>1, <1>2, MoreMoves DEF IInv
<1>15. DivergenceOK(db', fs', unsynced', moved', queue', batch')
  <2>1. ASSUME NEW q \in Supported \ Temporary,
               q \notin unsynced \cup moved' \cup PathsOf(queue') \cup PathsOf(batch)
        PROVE  StepOf(db, fs'[q], q)
    <3>1. q \in Paths /\ fs'[q] = fs[q]
      BY <1>8, <2>1, Kinds
    <3>2. q \notin unsynced \cup moved \cup PathsOf(queue) \cup PathsOf(batch)
      BY <1>2, <1>7, <2>1
    <3> QED
      BY <3>1, <3>2 DEF IInv, DivergenceOK
  <2> QED
    BY <1>1, <2>1 DEF DivergenceOK
<1> QED
  BY <1>6, <1>9, <1>10, <1>11, <1>12, <1>13, <1>14, <1>15 DEF IInv

\* The four changes of a file.
LEMMA CreateFileIInv == ASSUME IInv, CreateFile PROVE IInv'
PROOF
<1>1. PICK p \in Paths, c \in Contents :
        fs[p] = NoFile /\ FileChange("created", p, NoPath, [fs EXCEPT ![p] = c])
  BY DEF CreateFile
<1> DEFINE contents == [fs EXCEPT ![p] = c]
<1>2. contents \in [Paths -> {NoFile} \cup Contents] /\ \A q \in Paths \ {p, NoPath} : contents[q] = fs[q]
  BY DEF IInv, TypeInv
<1>3. FileChange("created", p, NoPath, contents)
  BY <1>1
<1> HIDE DEF contents
<1> QED
  BY <1>2, <1>3, FileChangeIInv

LEMMA ModifyFileIInv == ASSUME IInv, ModifyFile PROVE IInv'
PROOF
<1>1. PICK p \in Paths, c \in Contents :
        fs[p] \notin {NoFile, c} /\ FileChange("modified", p, NoPath, [fs EXCEPT ![p] = c])
  BY DEF ModifyFile
<1> DEFINE contents == [fs EXCEPT ![p] = c]
<1>2. contents \in [Paths -> {NoFile} \cup Contents] /\ \A q \in Paths \ {p, NoPath} : contents[q] = fs[q]
  BY DEF IInv, TypeInv
<1>3. FileChange("modified", p, NoPath, contents)
  BY <1>1
<1> HIDE DEF contents
<1> QED
  BY <1>2, <1>3, FileChangeIInv

LEMMA DeleteFileIInv == ASSUME IInv, DeleteFile PROVE IInv'
PROOF
<1>1. PICK p \in Paths :
        fs[p] # NoFile /\ FileChange("deleted", p, NoPath, [fs EXCEPT ![p] = NoFile])
  BY DEF DeleteFile
<1> DEFINE contents == [fs EXCEPT ![p] = NoFile]
<1>2. /\ contents \in [Paths -> {NoFile} \cup Contents] /\ contents[p] = NoFile
      /\ \A q \in Paths \ {p, NoPath} : contents[q] = fs[q]
  BY DEF IInv, TypeInv
<1>3. FileChange("deleted", p, NoPath, contents)
  BY <1>1
<1> HIDE DEF contents
<1> QED
  BY <1>2, <1>3, FileChangeIInv

LEMMA MoveFileIInv == ASSUME IInv, MoveFile PROVE IInv'
PROOF
<1>1. PICK p \in Paths, q \in Paths :
        /\ p # q /\ fs[p] # NoFile
        /\ FileChange("moved", q, p, [fs EXCEPT ![q] = fs[p], ![p] = NoFile])
  BY DEF MoveFile
<1> DEFINE contents == [fs EXCEPT ![q] = fs[p], ![p] = NoFile]
<1>2. /\ contents \in [Paths -> {NoFile} \cup Contents]
      /\ \A x \in Paths \ {q, p} : contents[x] = fs[x]
  BY DEF IInv, TypeInv
<1>3. FileChange("moved", q, p, contents)
  BY <1>1
<1>4. p # NoPath
  BY NamesAssumption
<1> HIDE DEF contents
<1> QED
  BY <1>2, <1>3, <1>4, FileChangeIInv

-----------------------------------------------------------------------------
(* The batch *)

\* The marker stands for no path.
LEMMA DrainIInv == ASSUME IInv, Drain PROVE IInv'
PROOF
<1> DEFINE marker == [type |-> "modified", path |-> NoPath, source |-> NoPath,
                      reason |-> "ambiguous_event_sequence"]
<1>1. /\ batch = << >> /\ report' = Idle
      /\ UNCHANGED <<fs, ambiguous, read, scan, db, unsynced, moved>>
      /\ \/ batch' = <<marker>> /\ queue' = queue
         \/ batch' = queue /\ queue' = << >>
  BY DEF Drain
<1>2. /\ marker \in Items /\ ItemOK(marker, moved)
      /\ marker.path = NoPath /\ marker.source = NoPath
  BY DEF Items, ItemOK
<1> HIDE DEF marker
<1>3. read = NoRead
  BY <1>1 DEF IInv, ReadOK
<1>4. ReadOK(read', batch', queue', fs', moved')
  BY <1>1, <1>3 DEF ReadOK
<1>5. ReportOK(report')
  BY <1>1 DEF ReportOK, Idle, ReportStatuses
<1>6. ScanOK(scan') /\ StoreOK(db') /\ OriginOK(db', moved')
  BY <1>1 DEF IInv
<1>7. PathsOf(batch) = {}
  BY <1>1, PathsOfNone
<1>8. CASE batch' = <<marker>> /\ queue' = queue
  <2>1. /\ batch' \in Seq(Items)
        /\ \A i \in DOMAIN batch' : batch'[i] = marker
    BY <1>2, <1>8
  <2>2. PathsOf(batch') = {}
    <3>1. ASSUME NEW p \in PathsOf(batch')
          PROVE  FALSE
      <4> DEFINE b == batch'
      <4>1. PICK i \in DOMAIN b : p # NoPath /\ (p = b[i].path \/ p = b[i].source)
        BY InPathsOf
      <4> QED
        BY <1>2, <2>1, <4>1
    <3> QED
      BY <3>1
  <2>3. TypeInv' /\ QueueOK(queue')
    BY <1>1, <1>8, <2>1 DEF IInv, TypeInv
  <2>4. ItemsOK(queue', moved') /\ ItemsOK(batch', moved')
    BY <1>1, <1>2, <1>8, <2>1 DEF IInv, ItemsOK
  <2>5. EventsOK(queue', batch', fs', moved')
    <3>1. \A p \in Paths : DeletionsHold(batch', p, fs[p])
      BY <1>2, <2>1, NamesAssumption DEF DeletionsHold
    <3> QED
      BY <1>1, <1>8, <3>1 DEF IInv, EventsOK
  <2>6. DivergenceOK(db', fs', unsynced', moved', queue', batch')
    BY <1>1, <1>7, <1>8, <2>2 DEF IInv, DivergenceOK
  <2> QED
    BY <1>4, <1>5, <1>6, <2>3, <2>4, <2>5, <2>6 DEF IInv
<1>9. CASE batch' = queue /\ queue' = << >>
  <2>1. /\ queue' \in Seq(Items) /\ DOMAIN queue' = {}
    BY <1>9
  <2>2. TypeInv' /\ QueueOK(queue')
    BY <1>1, <1>9, <2>1 DEF IInv, TypeInv, QueueOK
  <2>3. ItemsOK(queue', moved') /\ ItemsOK(batch', moved')
    BY <1>1, <1>9, <2>1 DEF IInv, ItemsOK
  <2>4. EventsOK(queue', batch', fs', moved')
    <3>1. \A p \in Paths \ moved : DeletionsHold(queue, p, fs[p])
      BY DEF IInv, EventsOK
    <3>2. \A p \in Paths : DeletionsHold(queue', p, fs[p])
      BY <2>1 DEF DeletionsHold
    <3> QED
      BY <1>1, <1>9, <3>1, <3>2 DEF EventsOK
  <2>5. DivergenceOK(db', fs', unsynced', moved', queue', batch')
    <3>1. PathsOf(queue') = {} /\ PathsOf(batch') = PathsOf(queue)
      BY <1>9, PathsOfNone
    <3> QED
      BY <1>1, <1>7, <3>1 DEF IInv, DivergenceOK
  <2> QED
    BY <1>4, <1>5, <1>6, <2>2, <2>3, <2>4, <2>5 DEF IInv
<1> QED
  BY <1>1, <1>8, <1>9

\* No items say nothing.
LEMMA NoItems ==
  /\ << >> \in Seq(Items) /\ QueueOK(<< >>)
  /\ \A m : ItemsOK(<< >>, m)
  /\ \A p, c : DeletionsHold(<< >>, p, c)
PROOF
<1> DEFINE e == << >>
<1>1. e \in Seq(Items) /\ DOMAIN e = {}
  OBVIOUS
<1> HIDE DEF e
<1>2. QueueOK(e) /\ (\A m : ItemsOK(e, m)) /\ \A p, c : DeletionsHold(e, p, c)
  BY <1>1 DEF QueueOK, ItemsOK, DeletionsHold
<1> QED
  BY <1>1, <1>2 DEF e

\* A restart forgets what waits, and every path of it is out of step.
LEMMA RestartIInv == ASSUME IInv, Restart PROVE IInv'
PROOF
<1>1. /\ queue' = << >> /\ batch' = << >> /\ read' = NoRead /\ ambiguous' = FALSE
      /\ unsynced' = unsynced \cup PathsOf(queue \o batch)
      /\ UNCHANGED <<fs, report, scan, db, moved>>
  BY DEF Restart
<1>2. queue \in Seq(Items) /\ batch \in Seq(Items)
  BY DEF IInv, TypeInv, QueueOK
<1>3. PathsOf(queue \o batch) = PathsOf(queue) \cup PathsOf(batch)
  BY <1>2, PathsOfConcat
<1>4. PathsOf(queue) \subseteq Paths /\ PathsOf(batch) \subseteq Paths
  BY <1>2, PathsOfArePaths
<1>5. TypeInv'
  BY <1>1, <1>3, <1>4, NoItems DEF IInv, TypeInv
<1>6. QueueOK(queue') /\ ItemsOK(queue', moved') /\ ItemsOK(batch', moved')
      /\ EventsOK(queue', batch', fs', moved')
  BY <1>1, NoItems DEF EventsOK
<1>7. ReadOK(read', batch', queue', fs', moved')
  BY <1>1 DEF ReadOK
<1>8. ReportOK(report') /\ ScanOK(scan') /\ StoreOK(db') /\ OriginOK(db', moved')
  BY <1>1 DEF IInv
<1>9. DivergenceOK(db', fs', unsynced', moved', queue', batch')
  BY <1>1, <1>3 DEF IInv, DivergenceOK
<1> QED
  BY <1>5, <1>6, <1>7, <1>8, <1>9 DEF IInv

\* The head of the batch.
LEMMA HeadFacts ==
  ASSUME IInv, batch # << >>
  PROVE  /\ batch \in Seq(Items) /\ ItemOK(Head(batch), moved)
         /\ \E i \in DOMAIN batch : batch[i] = Head(batch)
         /\ Head(batch).path \in Paths \cup {NoPath}
         /\ PathsOf(<<Head(batch)>>) \subseteq Paths
         /\ Applicable => Head(batch).path \in Supported
PROOF
<1>1. batch \in Seq(Items)
  BY DEF IInv, TypeInv
<1>2. 1 \in DOMAIN batch /\ Head(batch) = batch[1]
  BY <1>1, TailItems
<1>3. ItemOK(Head(batch), moved)
  BY <1>2 DEF IInv, ItemsOK
<1>4. Head(batch).path \in Paths \cup {NoPath}
  BY <1>3 DEF ItemOK, Items
<1>5. PathsOf(<<Head(batch)>>) \subseteq Paths
  BY <1>1, PathsOfTail, PathsOfArePaths
<1>6. ASSUME Applicable
      PROVE  Head(batch).path \in Supported
  <2>1. Head(batch).path \in Paths
    BY <1>3, <1>4, <1>6 DEF Applicable, HeadOf, NeedsRebuild, ItemOK
  <2>2. Kind[Head(batch).path] # "unsupported"
    BY <1>6 DEF Applicable, HeadOf, Skips
  <2> QED
    BY <2>1, <2>2, PathsAssumption DEF Supported, Documents, Tables
<1> QED
  BY <1>1, <1>2, <1>3, <1>4, <1>5, <1>6

\* An item is done: what is left to show is what its branch did to the dataset.
LEMMA ItemDoneIInv ==
  ASSUME IInv, batch # << >>, NEW status \in {"ok", "validation_failed", "full_rebuild_required"},
         NEW full \in BOOLEAN, ItemDone(status, full),
         StoreOK(db'), OriginOK(db', moved), unsynced' \subseteq Paths,
         unsynced \ {Head(batch).path} \subseteq unsynced',
         \A q \in Supported \ moved : q # Head(batch).path => Alike(db, db', q),
         Head(batch).path \in Supported \ Temporary /\
         Head(batch).path \notin unsynced' \cup moved \cup PathsOf(queue) =>
           StepOf(db', fs[Head(batch).path], Head(batch).path)
  PROVE  IInv'
PROOF
<1> DEFINE h == Head(batch)
<1>1. /\ batch' = Tail(batch) /\ read' = NoRead
      /\ report' = MergeReport(status, full)
      /\ UNCHANGED <<fs, queue, ambiguous, scan, moved>>
  BY DEF ItemDone, queueVars
<1>2. /\ batch \in Seq(Items) /\ batch' \in Seq(Items)
      /\ \A i \in DOMAIN batch' : i + 1 \in DOMAIN batch /\ batch'[i] = batch[i + 1]
  BY <1>1, TailItems DEF IInv, TypeInv
<1>3. TypeInv' /\ QueueOK(queue')
  BY <1>1, <1>2 DEF IInv, TypeInv
<1>4. ItemsOK(queue', moved') /\ ItemsOK(batch', moved')
  BY <1>1, <1>2 DEF IInv, ItemsOK
<1>5. EventsOK(queue', batch', fs', moved')
  <2>1. \A p, c : DeletionsHold(batch, p, c) => DeletionsHold(batch', p, c)
    BY <1>2 DEF DeletionsHold
  <2> QED
    BY <1>1, <2>1 DEF IInv, EventsOK
<1>6. ReadOK(read', batch', queue', fs', moved')
  BY <1>1 DEF ReadOK
<1>7. ReportOK(report')
  <2>1. ReportOK(report)
    BY DEF IInv
  <2>2. /\ report'.status = IF full THEN "full_rebuild_required"
                            ELSE IF report.status = "ok" THEN status ELSE report.status
        /\ report'.full = (report.full \/ full)
        /\ report' = [status |-> report'.status, full |-> report'.full]
    BY <1>1 DEF MergeReport
  <2>3. report.status \in ReportStatuses /\ report.full \in BOOLEAN
    BY <2>1 DEF ReportOK
  <2>4. report'.status \in ReportStatuses /\ report'.full \in BOOLEAN
    BY <2>2, <2>3 DEF ReportStatuses
  <2>5. report'.full => report'.status \in {"full_rebuild_required", "raised"}
    <3>1. CASE full
      BY <2>2, <3>1
    <3>2. CASE ~full /\ report.full
      BY <2>1, <2>2, <3>2 DEF ReportOK
    <3>3. CASE ~full /\ ~report.full
      BY <2>2, <3>3
    <3> QED
      BY <3>1, <3>2, <3>3
  <2> QED
    BY <2>2, <2>4, <2>5 DEF ReportOK
<1>8. ScanOK(scan') /\ OriginOK(db', moved')
  BY <1>1 DEF IInv
<1>9. DivergenceOK(db', fs', unsynced', moved', queue', batch')
  <2>1. ASSUME NEW q \in Supported \ Temporary,
               q \notin unsynced' \cup moved \cup PathsOf(queue) \cup PathsOf(batch')
        PROVE  StepOf(db', fs[q], q)
    <3>1. CASE q = h.path
      BY <2>1, <3>1
    <3>2. CASE q # h.path
      <4>1. q \notin unsynced
        BY <2>1, <3>2
      <4>2. ItemOK(h, moved)
        BY HeadFacts
      <4>3. q # h.source
        BY <2>1, <4>2, NamesAssumption, Kinds DEF ItemOK
      <4>4. q \notin PathsOf(<<h>>)
        <5> DEFINE H == <<h>>
        <5>1. \A i \in DOMAIN H : H[i] = h
          OBVIOUS
        <5> HIDE DEF H
        <5>2. q \notin PathsOf(H)
          BY <3>2, <4>3, <5>1, InPathsOf
        <5> QED
          BY <5>2 DEF H
      <4>5. q \notin PathsOf(batch)
        BY <1>1, <1>2, <2>1, <4>4, PathsOfTail
      <4>6. StepOf(db, fs[q], q)
        BY <2>1, <4>1, <4>5 DEF IInv, DivergenceOK
      <4> QED
        BY <2>1, <3>2, <4>6, AlikeSteps
    <3> QED
      BY <3>1, <3>2
  <2> QED
    BY <1>1, <2>1 DEF DivergenceOK
<1> QED
  BY <1>3, <1>4, <1>5, <1>6, <1>7, <1>8, <1>9 DEF IInv

\* A dataset is like itself.
LEMMA SameAlike == \A d, p : Alike(d, d, p)
PROOF
  BY DEF Alike

LEMMA ApplyRequiresRebuildIInv == ASSUME IInv, ApplyRequiresRebuild PROVE IInv'
PROOF
<1>1. /\ batch # << >> /\ ItemDone("full_rebuild_required", TRUE)
      /\ unsynced' = unsynced \cup PathsOf(<<Head(batch)>>) /\ db' = db
  BY DEF ApplyRequiresRebuild, HeadOf
<1> DEFINE H == <<Head(batch)>>
<1>2. 1 \in DOMAIN H /\ H[1] = Head(batch)
  OBVIOUS
<1> HIDE DEF H
<1>3. Head(batch).path \in Supported => Head(batch).path \in PathsOf(H)
  BY <1>2, InPathsOf, Kinds, NamesAssumption
<1>4. /\ StoreOK(db') /\ OriginOK(db', moved) /\ unsynced' \subseteq Paths
      /\ unsynced \subseteq unsynced'
      /\ Head(batch).path \in Supported => Head(batch).path \in unsynced'
  BY <1>1, <1>3, HeadFacts DEF IInv, TypeInv, H
<1> QED
  BY <1>1, <1>4, SameAlike, ItemDoneIInv

LEMMA ApplySkipsIInv == ASSUME IInv, ApplySkips PROVE IInv'
PROOF
<1>1. /\ batch # << >> /\ Skips(Head(batch)) /\ ItemDone("ok", FALSE)
      /\ unsynced' = unsynced /\ db' = db
  BY DEF ApplySkips, HeadOf
<1>2. Head(batch).path \notin Supported \ Temporary
  BY <1>1, HeadFacts DEF Skips, ItemOK, Supported, Documents, Tables
<1>3. StoreOK(db') /\ OriginOK(db', moved) /\ unsynced' \subseteq Paths
  BY <1>1 DEF IInv, TypeInv
<1> QED
  BY <1>1, <1>2, <1>3, SameAlike, ItemDoneIInv

\* A rename has both paths of its move on record.
LEMMA ApplyRenameIInv == ASSUME IInv, ApplyRename PROVE IInv'
PROOF
<1>1. /\ batch # << >> /\ Applicable /\ Head(batch).type = "moved" /\ ItemDone("ok", FALSE)
      /\ unsynced' = unsynced
      /\ db' = RenamePath(db, Head(batch).source, Head(batch).path)
  BY DEF ApplyRename, Applicable, HeadOf
<1>2. Head(batch).source \in moved /\ Head(batch).path \in moved /\ Head(batch).path \in Supported
  BY <1>1, HeadFacts DEF ItemOK
<1>3. StoreOK(db) /\ OriginOK(db, moved)
  BY DEF IInv
<1>4. Keeps(db, db', moved, Head(batch).path)
  BY <1>1, <1>2, <1>3, RenameKeeps
<1>5. StoreOK(db') /\ OriginOK(db', moved) /\ unsynced' \subseteq Paths
  BY <1>1, <1>4 DEF IInv, TypeInv, Keeps
<1>6. \A q \in Supported \ moved : q # Head(batch).path => Alike(db, db', q)
  BY <1>4 DEF Keeps
<1> QED
  BY <1>1, <1>2, <1>5, <1>6, ItemDoneIInv

\* The last event of a path in no move is true: the file is gone.
LEMMA ApplyDeleteIInv == ASSUME IInv, ApplyDelete PROVE IInv'
PROOF
<1> DEFINE p == Head(batch).path
<1>1. /\ batch # << >> /\ Applicable /\ Head(batch).type = "deleted" /\ ItemDone("ok", FALSE)
      /\ unsynced' = unsynced \ {p}
      /\ db' = IF p \in Documents THEN DeleteDocument(db, p) ELSE DeleteStructured(db, p)
  BY DEF ApplyDelete, Applicable, HeadOf
<1>2. p \in Supported
  BY <1>1, HeadFacts
<1>3. StoreOK(db) /\ OriginOK(db, moved)
  BY DEF IInv
<1>4. Keeps(db, db', moved, p) /\ SourcesAt(db', p) = {}
  BY <1>1, <1>3, DeleteDocumentKeeps, DeleteStructuredKeeps
<1>5. /\ StoreOK(db') /\ OriginOK(db', moved) /\ unsynced' \subseteq Paths
      /\ unsynced \ {p} \subseteq unsynced'
      /\ \A q \in Supported \ moved : q # p => Alike(db, db', q)
  BY <1>1, <1>4 DEF IInv, TypeInv, Keeps
<1>6. ASSUME p \notin moved \cup PathsOf(queue)
      PROVE  StepOf(db', fs[p], p)
  <2>1. DeletionsHold(batch, p, fs[p])
    BY <1>2, <1>6, Kinds DEF IInv, EventsOK
  <2>2. fs[p] = NoFile
    BY <1>1, <2>1, HeadFacts DEF DeletionsHold
  <2> QED
    BY <1>4, <2>2, NothingServed
<1> QED
  BY <1>1, <1>5, <1>6, ItemDoneIInv

LEMMA RefreshRejectedIInv == ASSUME IInv, RefreshRejected PROVE IInv'
PROOF
<1>1. /\ batch # << >> /\ Applicable /\ ItemDone("validation_failed", FALSE)
      /\ unsynced' = unsynced \cup {Head(batch).path} /\ db' = db
  BY DEF RefreshRejected, Applicable, HeadOf
<1>2. Head(batch).path \in Paths
  BY <1>1, HeadFacts, Kinds
<1>3. /\ StoreOK(db') /\ OriginOK(db', moved) /\ unsynced' \subseteq Paths
      /\ unsynced \subseteq unsynced' /\ Head(batch).path \in unsynced'
  BY <1>1, <1>2 DEF IInv, TypeInv
<1> QED
  BY <1>1, <1>3, SameAlike, ItemDoneIInv

\* What was read is still in the file, or an event says otherwise.
LEMMA RefreshIInv == ASSUME IInv, Refresh PROVE IInv'
PROOF
<1> DEFINE p == Head(batch).path
<1>1. /\ read # NoRead /\ ItemDone("ok", FALSE) /\ unsynced' = unsynced \ {p}
      /\ db' = IF p \in Documents THEN RefreshDocument(db, p, read)
                                  ELSE RefreshStructured(db, p, read)
  BY DEF Refresh, HeadOf
<1>2. /\ batch # << >> /\ ~NeedsRebuild(Head(batch)) /\ ~Skips(Head(batch))
      /\ read = fs[p] \/ p \in moved \cup PathsOf(queue)
      /\ read \in Versions
  BY <1>1 DEF IInv, ReadOK, TypeInv
<1>3. p \in Supported
  BY <1>2, HeadFacts DEF Applicable, HeadOf
<1>4. StoreOK(db) /\ OriginOK(db, moved)
  BY DEF IInv
<1>5. Keeps(db, db', moved, p) /\ StepOf(db', read, p)
  <2>1. CASE p \in Documents
    BY <1>1, <1>2, <1>4, <2>1, RefreshDocumentKeeps
  <2>2. CASE p \in Tables
    <3>1. p \notin Documents
      BY <2>2, Kinds
    <3> QED
      BY <1>1, <1>2, <1>4, <2>2, <3>1, RefreshStructuredKeeps
  <2> QED
    BY <1>3, <2>1, <2>2, Kinds
<1>6. /\ StoreOK(db') /\ OriginOK(db', moved) /\ unsynced' \subseteq Paths
      /\ unsynced \ {p} \subseteq unsynced'
      /\ \A q \in Supported \ moved : q # p => Alike(db, db', q)
  BY <1>1, <1>5 DEF IInv, TypeInv, Keeps
<1>7. p \notin moved \cup PathsOf(queue) => StepOf(db', fs[p], p)
  BY <1>2, <1>5
<1> QED
  BY <1>1, <1>2, <1>6, <1>7, ItemDoneIInv

LEMMA ReadFileIInv == ASSUME IInv, ReadFile PROVE IInv'
PROOF
<1> DEFINE p == Head(batch).path
<1>1. /\ batch # << >> /\ ~NeedsRebuild(Head(batch)) /\ ~Skips(Head(batch))
      /\ Head(batch).type \in {"created", "modified"}
      /\ ParseOutcome(p, fs[p]) = "parsed" /\ read' = fs[p]
      /\ UNCHANGED <<fs, queue, ambiguous, batch, report, scan, db, unsynced, moved>>
  BY DEF ReadFile, Applicable, HeadOf, queueVars
<1>2. fs[p] \in Versions
  <2>1. CASE fs[p] \notin Versions
    <3>1. ParseOutcome(p, fs[p]) \in {"raises", "rejected"}
      BY <2>1 DEF ParseOutcome
    <3> QED
      BY <1>1, <3>1
  <2> QED
    BY <2>1
<1>3. TypeInv'
  BY <1>1, <1>2 DEF IInv, TypeInv
<1>4. ReadOK(read', batch', queue', fs', moved')
  BY <1>1 DEF ReadOK
<1> QED
  BY <1>1, <1>3, <1>4 DEF IInv

\* An exception leaves every path of the batch out of step.
LEMMA BatchRaisesIInv == ASSUME IInv, BatchRaises PROVE IInv'
PROOF
<1>1. /\ batch' = << >> /\ read' = NoRead
      /\ report' = [report EXCEPT !.status = "raised"]
      /\ unsynced' = unsynced \cup PathsOf(batch)
      /\ UNCHANGED <<fs, queue, ambiguous, scan, db, moved>>
  BY DEF BatchRaises, queueVars
<1>2. PathsOf(batch) \subseteq Paths
  BY PathsOfArePaths DEF IInv, TypeInv
<1>3. TypeInv' /\ QueueOK(queue') /\ ItemsOK(queue', moved') /\ ItemsOK(batch', moved')
  BY <1>1, <1>2, NoItems DEF IInv, TypeInv
<1>4. EventsOK(queue', batch', fs', moved')
  BY <1>1, NoItems DEF IInv, EventsOK
<1>5. ReadOK(read', batch', queue', fs', moved')
  BY <1>1 DEF ReadOK
<1>6. ReportOK(report')
  BY <1>1 DEF IInv, ReportOK, ReportStatuses
<1>7. ScanOK(scan') /\ StoreOK(db') /\ OriginOK(db', moved')
  BY <1>1 DEF IInv
<1>8. DivergenceOK(db', fs', unsynced', moved', queue', batch')
  BY <1>1 DEF IInv, DivergenceOK
<1> QED
  BY <1>3, <1>4, <1>5, <1>6, <1>7, <1>8 DEF IInv

-----------------------------------------------------------------------------
(* The rebuild *)

\* A step of a rebuild before its end is its own.
LEMMA ScanStep ==
  ASSUME IInv, UNCHANGED <<fs, queueVars, batchVars, db, unsynced, moved>>, ScanOK(scan')
  PROVE  IInv'
PROOF
<1>1. UNCHANGED <<fs, queue, ambiguous, batch, read, report, db, unsynced, moved>>
  BY DEF queueVars, batchVars
<1>2. TypeInv'
  BY <1>1 DEF IInv, TypeInv
<1> QED
  BY <1>1, <1>2 DEF IInv

LEMMA RebuildStartsIInv == ASSUME IInv, RebuildStarts PROVE IInv'
PROOF
<1> DEFINE there == {p \in Supported : fs[p] # NoFile}
           none == << >>
<1>1. /\ UNCHANGED <<fs, queueVars, batchVars, db, unsynced, moved>>
      /\ scan' = [running |-> TRUE, todo |-> there, hashed |-> FALSE, got |-> none]
  BY DEF RebuildStarts
<1>2. DOMAIN none = {} /\ none \in [DOMAIN none -> Contents \cup {NoFile}]
  OBVIOUS
<1>3. there \subseteq Supported
  OBVIOUS
<1> HIDE DEF there, none
<1>4. scan'.got = none /\ scan'.todo = there /\ scan'.running = TRUE /\ scan'.hashed = FALSE
  BY <1>1
<1>5. ScanOK(scan')
  BY <1>1, <1>2, <1>3, <1>4 DEF ScanOK
<1> QED
  BY <1>1, <1>5, ScanStep

LEMMA RebuildHashesIInv == ASSUME IInv, RebuildHashes PROVE IInv'
PROOF
<1>1. /\ UNCHANGED <<fs, queueVars, batchVars, db, unsynced, moved>>
      /\ scan.todo # {} /\ scan' = [scan EXCEPT !.hashed = TRUE]
  BY DEF RebuildHashes
<1>2. ScanOK(scan)
  BY DEF IInv
<1>3. /\ scan'.running = scan.running /\ scan'.todo = scan.todo /\ scan'.got = scan.got
      /\ scan'.hashed = TRUE
      /\ scan' = [running |-> scan'.running, todo |-> scan'.todo, hashed |-> scan'.hashed,
                  got |-> scan'.got]
  BY <1>1, <1>2 DEF ScanOK
<1>4. ScanOK(scan')
  BY <1>1, <1>2, <1>3 DEF ScanOK
<1> QED
  BY <1>1, <1>4, ScanStep

LEMMA RebuildParsesIInv == ASSUME IInv, RebuildParses PROVE IInv'
PROOF
<1> DEFINE got == WithContent(scan.got, NextFile)
<1>1. /\ UNCHANGED <<fs, queueVars, batchVars, db, unsynced, moved>>
      /\ scan.hashed
      /\ scan' = [scan EXCEPT !.todo = scan.todo \ {NextFile}, !.hashed = FALSE, !.got = got]
  BY DEF RebuildParses
<1>2. ScanOK(scan)
  BY DEF IInv
<1>3. NextFile \in scan.todo
  BY <1>1, <1>2 DEF NextFile, ScanOK
<1>4. NextFile \in Supported /\ fs[NextFile] \in Contents \cup {NoFile}
  BY <1>2, <1>3, Kinds DEF ScanOK, IInv, TypeInv
<1>5. /\ DOMAIN got = DOMAIN scan.got \cup {NextFile}
      /\ got \in [DOMAIN got -> Contents \cup {NoFile}]
  BY <1>2, <1>4 DEF WithContent, ScanOK
<1> HIDE DEF got
<1>6. /\ scan'.running = scan.running /\ scan'.todo = scan.todo \ {NextFile} /\ scan'.got = got
      /\ scan'.hashed = FALSE
      /\ scan' = [running |-> scan'.running, todo |-> scan'.todo, hashed |-> scan'.hashed,
                  got |-> scan'.got]
  BY <1>1, <1>2 DEF ScanOK
<1>7. ScanOK(scan')
  BY <1>2, <1>4, <1>5, <1>6 DEF ScanOK
<1> QED
  BY <1>1, <1>7, ScanStep

\* No rebuild runs.
LEMMA NoScanOK == ScanOK(NoScan)
PROOF
<1> DEFINE none == << >>
<1>1. DOMAIN none = {} /\ none \in [DOMAIN none -> Contents \cup {NoFile}]
  OBVIOUS
<1>2. NoScan = [running |-> FALSE, todo |-> {}, hashed |-> FALSE, got |-> none]
  BY DEF NoScan
<1> HIDE DEF none
<1>3. NoScan.got = none /\ NoScan.todo = {} /\ NoScan.running = FALSE
      /\ NoScan.hashed = FALSE
  BY <1>2
<1> QED
  BY <1>1, <1>2, <1>3 DEF ScanOK

LEMMA RebuildRaisesIInv == ASSUME IInv, RebuildRaises PROVE IInv'
PROOF
<1>1. UNCHANGED <<fs, queueVars, batchVars, db, unsynced, moved>> /\ scan' = NoScan
  BY DEF RebuildRaises
<1> QED
  BY <1>1, NoScanOK, ScanStep

\* A rebuild puts every path right that did not change since it was read.
LEMMA RebuildCommitsIInv == ASSUME IInv, RebuildCommits PROVE IInv'
PROOF
<1> DEFINE got == scan.got
<1>1. /\ db' = ReplaceDataset(db, got) /\ scan' = NoScan
      /\ unsynced' = Overtaken(got)
      /\ moved' = IF queue \o batch = << >> THEN {} ELSE moved
      /\ UNCHANGED <<fs, queue, ambiguous, batch, read, report>>
  BY DEF RebuildCommits, queueVars, batchVars
<1>2. got \in [DOMAIN got -> Contents \cup {NoFile}] /\ DOMAIN got \subseteq Supported
  BY DEF IInv, ScanOK
<1>3. db.fresh \in Nat
  BY DEF IInv, StoreOK, Datasets
<1>4. /\ StoreOK(db') /\ \A m : OriginOK(db', m)
      /\ \A p \in Supported : (p \in DOMAIN got => got[p] # NoFile) =>
           StepOf(db', IF p \in DOMAIN got THEN got[p] ELSE NoFile, p)
  BY <1>1, <1>2, <1>3, ReplaceKeeps
<1>5. \A p \in Supported : p \notin unsynced' =>
        /\ p \in DOMAIN got => got[p] # NoFile
        /\ fs[p] = IF p \in DOMAIN got THEN got[p] ELSE NoFile
  BY <1>1 DEF Overtaken
<1>6. unsynced' \subseteq Paths
  BY <1>1, Kinds DEF Overtaken
<1>7. DivergenceOK(db', fs', unsynced', moved', queue', batch')
  BY <1>1, <1>4, <1>5 DEF DivergenceOK
<1>8. ScanOK(scan')
  BY <1>1, NoScanOK
<1>9. CASE queue \o batch = << >>
  <2>1. queue = << >> /\ batch = << >>
    <3>1. queue \in Seq(Items) /\ batch \in Seq(Items)
      BY DEF IInv, TypeInv, QueueOK
    <3>2. Len(queue \o batch) = Len(queue) + Len(batch) /\ Len(queue \o batch) = 0
      BY <1>9, <3>1
    <3>3. Len(queue) \in Nat /\ Len(batch) \in Nat
      BY <3>1
    <3>4. Len(queue) = 0 /\ Len(batch) = 0
      BY <3>2, <3>3
    <3> QED
      BY <3>1, <3>4, EmptySeq
  <2>2. moved' = {}
    BY <1>1, <1>9
  <2>3. TypeInv'
    BY <1>1, <1>6, <2>2 DEF IInv, TypeInv
  <2>4. QueueOK(queue') /\ ItemsOK(queue', moved') /\ ItemsOK(batch', moved')
        /\ EventsOK(queue', batch', fs', moved')
    BY <1>1, <2>1, NoItems DEF EventsOK
  <2>5. ReadOK(read', batch', queue', fs', moved')
    BY <1>1, <2>1 DEF IInv, ReadOK
  <2> QED
    BY <1>1, <1>4, <1>7, <1>8, <2>3, <2>4, <2>5 DEF IInv
<1>10. CASE queue \o batch # << >>
  <2>1. moved' = moved
    BY <1>1, <1>10
  <2>2. TypeInv'
    BY <1>1, <1>6, <2>1 DEF IInv, TypeInv
  <2> QED
    BY <1>1, <1>4, <1>7, <1>8, <2>1, <2>2 DEF IInv
<1> QED
  BY <1>9, <1>10

-----------------------------------------------------------------------------
(* The theorems *)

\* The invariant holds at the start: the dataset is that of a rebuild.
LEMMA InitIInv == ASSUME Init PROVE IInv
PROOF
<1> DEFINE found == [p \in {q \in Supported : fs[q] # NoFile} |-> fs[p]]
<1>1. /\ fs \in [Paths -> {NoFile} \cup Versions]
      /\ queue = << >> /\ ambiguous = FALSE /\ batch = << >> /\ read = NoRead /\ report = Idle
      /\ scan = NoScan /\ db = ReplaceDataset(EmptyDataset, found)
      /\ unsynced = {} /\ moved = {}
  BY DEF Init
<1>2. /\ DOMAIN found = {q \in Supported : fs[q] # NoFile}
      /\ \A p \in DOMAIN found : found[p] = fs[p]
  OBVIOUS
<1>3. found \in [DOMAIN found -> Contents \cup {NoFile}] /\ DOMAIN found \subseteq Supported
  BY <1>1, Kinds DEF Contents
<1>4. EmptyDataset.fresh \in Nat
  BY DEF EmptyDataset
<1> HIDE DEF found
<1>5. /\ StoreOK(db) /\ OriginOK(db, moved)
      /\ \A p \in Supported : StepOf(db, IF p \in DOMAIN found THEN found[p] ELSE NoFile, p)
  BY <1>1, <1>2, <1>3, <1>4, ReplaceKeeps
<1>6. DivergenceOK(db, fs, unsynced, moved, queue, batch)
  BY <1>2, <1>5 DEF DivergenceOK
<1>7. TypeInv
  BY <1>1, NoItems DEF TypeInv, Contents
<1>8. QueueOK(queue) /\ ItemsOK(queue, moved) /\ ItemsOK(batch, moved)
      /\ EventsOK(queue, batch, fs, moved)
  BY <1>1, NoItems DEF EventsOK
<1>9. ReadOK(read, batch, queue, fs, moved)
  BY <1>1 DEF ReadOK
<1>10. ReportOK(report)
  BY <1>1 DEF ReportOK, Idle, ReportStatuses
<1>11. ScanOK(scan)
  BY <1>1, NoScanOK
<1> QED
  BY <1>5, <1>6, <1>7, <1>8, <1>9, <1>10, <1>11 DEF IInv

\* Every step preserves the invariant.
LEMMA NextIInv == ASSUME IInv, [Next]_vars PROVE IInv'
PROOF
<1>1. CASE UNCHANGED vars
  <2>1. UNCHANGED <<fs, queueVars, batchVars, db, unsynced, moved>> /\ scan' = scan
    BY <1>1 DEF vars, queueVars, batchVars
  <2>2. ScanOK(scan')
    BY <2>1 DEF IInv
  <2> QED
    BY <2>1, <2>2, ScanStep
<1>2. CASE CreateFile \/ ModifyFile \/ DeleteFile \/ MoveFile
  BY <1>2, CreateFileIInv, ModifyFileIInv, DeleteFileIInv, MoveFileIInv
<1>3. CASE Drain \/ Restart
  BY <1>3, DrainIInv, RestartIInv
<1>4. CASE ApplyRequiresRebuild \/ ApplySkips \/ ApplyRename \/ ApplyDelete
  BY <1>4, ApplyRequiresRebuildIInv, ApplySkipsIInv, ApplyRenameIInv, ApplyDeleteIInv
<1>5. CASE ReadFile \/ RefreshRejected \/ Refresh \/ BatchRaises
  BY <1>5, ReadFileIInv, RefreshRejectedIInv, RefreshIInv, BatchRaisesIInv
<1>6. CASE RebuildStarts \/ RebuildHashes \/ RebuildParses \/ RebuildRaises \/ RebuildCommits
  BY <1>6, RebuildStartsIInv, RebuildHashesIInv, RebuildParsesIInv, RebuildRaisesIInv,
     RebuildCommitsIInv
<1> QED
  BY <1>1, <1>2, <1>3, <1>4, <1>5, <1>6 DEF Next

\* The inductive invariant: what the waiting events, the batch, the running
\* rebuild and the dataset owe to each other and to the files.
THEOREM SyncInvariance == Spec => []IInv
PROOF
  BY InitIInv, NextIInv, PTL DEF Spec

\* Every variable holds a value of its kind, whatever files change, fail to
\* parse or are rebuilt.
THEOREM SyncTypeCorrect == Spec => []TypeOK
PROOF
<1>1. ASSUME IInv PROVE TypeOK
  <2>1. \A s \in db.sources : s.path \in Supported /\ s.id < db.fresh
    BY <1>1 DEF IInv, StoreOK, Datasets, SourceRecords
  <2> QED
    BY <1>1, <2>1 DEF IInv, TypeInv, QueueOK, ReportOK, ScanOK, TypeOK
<1> QED
  BY <1>1, SyncInvariance, PTL

\* A file in no move is out of step with the dataset only if an event about it
\* waits or something reported it, for any number of changes and rebuilds.
THEOREM ExplainedDivergence == Spec => []DivergenceExplained
PROOF
<1>1. ASSUME IInv PROVE DivergenceExplained
  <2>1. PathsOf(queue \o batch) = PathsOf(queue) \cup PathsOf(batch)
    BY <1>1, PathsOfConcat DEF IInv, TypeInv, QueueOK
  <2> QED
    BY <1>1, <2>1, InStepIsStepOf DEF IInv, DivergenceOK, DivergenceExplained
<1> QED
  BY <1>1, SyncInvariance, PTL

\* A table visible without a file was imported from a path of a move.
THEOREM MovedOrphans == Spec => []OrphansComeFromMoves
PROOF
<1>1. ASSUME IInv PROVE OrphansComeFromMoves
  BY <1>1 DEF IInv, OriginOK, OrphansComeFromMoves
<1> QED
  BY <1>1, SyncInvariance, PTL

\* No item of a batch takes back that an earlier one failed or asked for a
\* rebuild.
THEOREM KeptFailure == Spec => ReportKeepsFailure
PROOF
<1> DEFINE Kept == batch # << >> =>
                     /\ report.status # "ok" => report'.status # "ok"
                     /\ report.full => report'.full /\ report'.status \in {"full_rebuild_required", "raised"}
<1>1. ASSUME IInv, Next PROVE Kept
  <2>1. SUFFICES ASSUME batch # << >> PROVE Kept
    OBVIOUS
  <2>2. report.full => report.status \in {"full_rebuild_required", "raised"}
    BY <1>1 DEF IInv, ReportOK
  <2>3. ASSUME NEW status \in {"ok", "validation_failed", "full_rebuild_required"},
               NEW full \in BOOLEAN, report' = MergeReport(status, full)
        PROVE  Kept
    <3>1. /\ report'.status = IF full THEN "full_rebuild_required"
                              ELSE IF report.status = "ok" THEN status ELSE report.status
          /\ report'.full = (report.full \/ full)
      BY <2>3 DEF MergeReport
    <3>2. CASE full
      BY <3>1, <3>2
    <3>3. CASE ~full
      BY <2>2, <3>1, <3>3
    <3> QED
      BY <3>2, <3>3
  <2>4. CASE report' = report
    BY <2>2, <2>4
  <2>5. CASE BatchRaises
    <3>1. report' = [report EXCEPT !.status = "raised"]
      BY <2>5 DEF BatchRaises
    <3>2. report'.status = "raised" /\ report'.full = report.full
      BY <1>1, <3>1 DEF IInv, ReportOK
    <3> QED
      BY <3>2
  <2>6. CASE ApplyRequiresRebuild
    <3>1. report' = MergeReport("full_rebuild_required", TRUE)
      BY <2>6 DEF ApplyRequiresRebuild, ItemDone
    <3> QED
      BY <2>3, <3>1
  <2>7. CASE ApplySkips \/ ApplyRename \/ ApplyDelete \/ Refresh
    <3>1. report' = MergeReport("ok", FALSE)
      BY <2>7 DEF ApplySkips, ApplyRename, ApplyDelete, Refresh, ItemDone
    <3> QED
      BY <2>3, <3>1
  <2>8. CASE RefreshRejected
    <3>1. report' = MergeReport("validation_failed", FALSE)
      BY <2>8 DEF RefreshRejected, ItemDone
    <3> QED
      BY <2>3, <3>1
  <2>9. CASE CreateFile \/ ModifyFile \/ DeleteFile \/ MoveFile
    <3>1. report' = report
      BY <2>9 DEF CreateFile, ModifyFile, DeleteFile, MoveFile, FileChange, batchVars
    <3> QED
      BY <2>4, <3>1
  <2>10. CASE Drain
    BY <2>1, <2>10 DEF Drain
  <2>11. CASE Restart \/ ReadFile
    <3>1. report' = report
      BY <2>11 DEF Restart, ReadFile
    <3> QED
      BY <2>4, <3>1
  <2>12. CASE RebuildStarts \/ RebuildHashes \/ RebuildParses \/ RebuildRaises \/ RebuildCommits
    <3>1. report' = report
      BY <2>12 DEF RebuildStarts, RebuildHashes, RebuildParses, RebuildRaises, RebuildCommits, batchVars
    <3> QED
      BY <2>4, <3>1
  <2> QED
    BY <1>1, <2>5, <2>6, <2>7, <2>8, <2>9, <2>10, <2>11, <2>12 DEF Next
<1>2. ASSUME IInv, [Next]_vars PROVE [Kept]_vars
  BY <1>1, <1>2
<1>3. Spec => [][Kept]_vars
  BY <1>2, SyncInvariance, PTL DEF Spec
<1> QED
  BY <1>3 DEF ReportKeepsFailure

=============================================================================
