------------------------ MODULE JoinDiscoveryProofs ------------------------
(***************************************************************************)
(* Proofs about JoinDiscovery, for every set of tables with whatever       *)
(* columns, any number of refreshes, rebuilds and watchdog batches, and    *)
(* any bounds.  The argument: a run that has joins in the store has        *)
(* committed, so what it knows does not change any more, and all it still  *)
(* does is to report them or be killed; a table's joins go in the step     *)
(* that replaces the table; and what a run deletes is the snapshot of its  *)
(* DELETE, which misses only what another run commits while it writes.     *)
(***************************************************************************)
EXTENDS JoinDiscovery, FiniteSetTheorems, TLAPS

Names == UNION {ColumnsOf[k] : k \in Keys}

ColumnIds == [key : Keys, generation : Nat, name : Names]

Joins == [run : Runs, copy : Nat, on : SUBSET ColumnIds]

Approvals == [copy : Nat, on : SUBSET ColumnKeys(Keys)]

Phases ==
  {"idle", "rebuilt", "asking", "validated", "deleting", "writing", "committed", "done", "crashed"}

Reports == {"none", "failed", "skipped", "completed", "completed_no_approved_joins"}

\* Generations are dealt out in order, and a packet holds no others.
TypeOK ==
  /\ generation \in [Keys -> Nat] /\ fresh \in Nat \ {Absent}
  /\ \A k \in Keys : generation[k] < fresh
  /\ joins \subseteq Joins
  /\ phase \in [Runs \cup Batches -> Phases] /\ report \in [Runs -> Reports]
  /\ approved \in [Runs -> SUBSET Approvals] /\ doomed \in [Runs -> SUBSET Joins]
  /\ recommended \in [Batches -> BOOLEAN] /\ items \in [Batches -> Nat]
  /\ lost \subseteq Runs /\ unlinked \subseteq Batches /\ overlapped \in BOOLEAN

PacketInv ==
  /\ DOMAIN packet = Runs
  /\ \A d \in Runs :
       /\ DOMAIN packet[d] \subseteq Keys
       /\ \A k \in DOMAIN packet[d] :
            packet[d][k] \in Nat /\ packet[d][k] # Absent /\ packet[d][k] < fresh

\* What validation approves: two columns of the packet, and each pair once.
Approval(a, keys) ==
  \E l, r \in ColumnKeys(keys) : l # r /\ a = [copy |-> 0, on |-> {l, r}]

\* Until a run has its answer it has approved nothing.
ApprovedInv ==
  \A d \in Runs :
    /\ phase[d] \in {"idle", "rebuilt"} => approved[d] = {}
    /\ \A a \in approved[d] : Approval(a, DOMAIN packet[d])

Committed == {"committed", "done", "crashed"}

\* A run with joins has committed, and if it has yet to report, it knows of some.
JoinsInv ==
  \A j \in joins :
    /\ phase[j.run] \in Committed /\ j.copy = 0
    /\ phase[j.run] = "committed" => approved[j.run] # {}

\* The report is the last that a run does.
ReportInv == \A d \in Runs : phase[d] # "done" => report[d] = "none"

Writing == {"deleting", "writing"}

\* Alone, a run is about to delete every join there is.
WritingInv ==
  \/ overlapped
  \/ \A d \in Runs : phase[d] \in Writing =>
       /\ joins \subseteq doomed[d]
       /\ \A e \in Runs : phase[e] \in Writing => e = d

AnnouncedInv == \A b \in unlinked : recommended[b]

IInv ==
  /\ TypeOK /\ PacketInv /\ ApprovedInv /\ JoinsInv /\ ReportInv /\ WritingInv /\ AnnouncedInv
  /\ JoinsRestOnTheirEvidence /\ OneDiscoveryUnlessOverlapped /\ HonestReports

-----------------------------------------------------------------------------
(* Validation *)

LEMMA ColumnKeyIsPair ==
  ASSUME NEW keys \in SUBSET Keys, NEW c \in ColumnKeys(keys)
  PROVE  c[1] \in keys /\ c[2] \in ColumnsOf[c[1]] /\ c[2] \in Names /\ c = <<c[1], c[2]>>
                       /\ c \in ColumnKeys(Keys)
<1>1. PICK k \in keys : c \in {k} \X ColumnsOf[k]
  BY DEF ColumnKeys
<1>2. c[1] = k /\ c[2] \in ColumnsOf[k] /\ c = <<c[1], c[2]>>
  BY <1>1
<1>3. k \in Keys
  OBVIOUS
<1> QED BY <1>1, <1>2, <1>3 DEF Names, ColumnKeys

\* Of the candidates for one pair the first is kept, so no row is a copy.
LEMMA ValidatedIsApproval ==
  ASSUME NEW keys \in SUBSET Keys, NEW valid \in Validated[keys], NEW a \in valid
  PROVE  Approval(a, keys)
<1>1. PICK answer \in BoundedSeq(Candidates(keys), MaxCandidates) :
        valid = ValidatedJoins(answer, keys)
  BY DEF Validated
<1> DEFINE accepted == {i \in DOMAIN answer : CandidateAccepted(answer[i], keys)}
           kept == {i \in accepted : \A h \in accepted : h < i => Pair(answer[h]) # Pair(answer[i])}
<1>2. a \in RowsOf(answer, kept)
  BY <1>1 DEF ValidatedJoins
<1>3. PICK i \in kept :
        a = [copy |-> Cardinality({h \in kept : h < i /\ Pair(answer[h]) = Pair(answer[i])}),
             on |-> Pair(answer[i])]
  BY <1>2 DEF RowsOf
<1>4. {h \in kept : h < i /\ Pair(answer[h]) = Pair(answer[i])} = {}
  OBVIOUS
<1>5. a = [copy |-> 0, on |-> Pair(answer[i])]
  BY <1>3, <1>4, FS_EmptySet
<1>6. CandidateAccepted(answer[i], keys)
  OBVIOUS
<1>7. /\ answer[i].left # answer[i].right
      /\ answer[i].left \in ColumnKeys(keys) /\ answer[i].right \in ColumnKeys(keys)
  BY <1>6 DEF CandidateAccepted, Pair
<1> QED BY <1>5, <1>7 DEF Approval, Pair

-----------------------------------------------------------------------------
(* The rows a run inserts *)

\* ColumnId over any packet.
IdIn(known, c) == [key |-> c[1], generation |-> known[c[1]], name |-> c[2]]

RowIn(d, known, a) == [run |-> d, copy |-> a.copy, on |-> {IdIn(known, c) : c \in a.on}]

\* An approved pair becomes a row on two columns of the packet's tables.
LEMMA RowOfApproval ==
  ASSUME NEW d \in Runs, NEW known, DOMAIN known \in SUBSET Keys,
         \A k \in DOMAIN known : known[k] \in Nat,
         NEW a, Approval(a, DOMAIN known),
         NEW j, j = RowIn(d, known, a)
  PROVE  /\ j \in Joins /\ j.run = d /\ j.copy = 0 /\ Cardinality(j.on) = 2
         /\ \A c \in j.on : c.key \in DOMAIN known /\ c.generation = known[c.key]
<1>1. PICK l \in ColumnKeys(DOMAIN known), r \in ColumnKeys(DOMAIN known) :
        l # r /\ a = [copy |-> 0, on |-> {l, r}]
  BY DEF Approval
<1>2. \A c \in {l, r} : /\ c[1] \in DOMAIN known /\ c[1] \in Keys /\ c[2] \in Names
                        /\ c = <<c[1], c[2]>>
  BY ColumnKeyIsPair
<1>3. \A c \in {l, r} : /\ IdIn(known, c) \in ColumnIds /\ IdIn(known, c).key = c[1]
                        /\ IdIn(known, c).name = c[2]
                        /\ IdIn(known, c).generation = known[c[1]]
  BY <1>2 DEF IdIn, ColumnIds
<1>4. IdIn(known, l) # IdIn(known, r)
  BY <1>1, <1>2, <1>3
<1>5. j = [run |-> d, copy |-> 0, on |-> {IdIn(known, l), IdIn(known, r)}]
  BY <1>1 DEF RowIn
<1>6. Cardinality({IdIn(known, l), IdIn(known, r)}) = 2
  <2>1. /\ IsFiniteSet({IdIn(known, l)}) /\ Cardinality({IdIn(known, l)}) = 1
    BY FS_Singleton
  <2>2. Cardinality({IdIn(known, l)} \cup {IdIn(known, r)}) = 1 + 1
    BY <2>1, <1>4, FS_AddElement
  <2>3. {IdIn(known, l)} \cup {IdIn(known, r)} = {IdIn(known, l), IdIn(known, r)}
    OBVIOUS
  <2> QED BY <2>2, <2>3
<1> DEFINE ids == {IdIn(known, l), IdIn(known, r)}
<1>7. ids \subseteq ColumnIds /\ Cardinality(ids) = 2 /\ j = [run |-> d, copy |-> 0, on |-> ids]
  BY <1>3, <1>5, <1>6
<1>8. \A c \in ids : c.key \in DOMAIN known /\ c.generation = known[c.key]
  BY <1>2, <1>3
<1> HIDE DEF ids
<1>9. j.run = d /\ j.copy = 0 /\ j.on = ids
  BY <1>7
<1>10. j \in Joins
  BY <1>7 DEF Joins
<1> QED BY <1>7, <1>8, <1>9, <1>10

\* Rows of one run on the same columns are one row.
LEMMA RowsAreApart ==
  ASSUME NEW i \in Joins, NEW j \in Joins, i.run = j.run, i.copy = j.copy, i.on = j.on
  PROVE  i = j
BY DEF Joins

-----------------------------------------------------------------------------
(* The parts of the invariant *)

\* Joins may go; those that stay keep their evidence, whose run has committed.
LEMMA JoinsThatStay ==
  ASSUME IInv, joins' \subseteq joins,
         \A j \in joins' : /\ phase'[j.run] = phase[j.run] /\ report'[j.run] = report[j.run]
                           /\ packet'[j.run] = packet[j.run]
                           /\ approved'[j.run] = approved[j.run]
                           /\ \A c \in j.on : generation'[c.key] = generation[c.key],
         lost \subseteq lost', overlapped => overlapped'
  PROVE  JoinsInv' /\ JoinsRestOnTheirEvidence' /\ OneDiscoveryUnlessOverlapped' /\ HonestReports'
<1>1. JoinsInv'
  BY DEF IInv, JoinsInv
<1>2. JoinsRestOnTheirEvidence'
  BY DEF IInv, JoinsRestOnTheirEvidence, Present
<1>3. OneDiscoveryUnlessOverlapped'
  BY DEF IInv, OneDiscoveryUnlessOverlapped
<1>4. HonestReports'
  BY DEF IInv, HonestReports
<1> QED BY <1>1, <1>2, <1>3, <1>4

\* Nobody begins to write, and nobody adds a join.
LEMMA WritersThatStay ==
  ASSUME IInv, joins' \subseteq joins, overlapped => overlapped',
         \A d \in Runs : phase'[d] \in Writing => phase[d] \in Writing /\ doomed'[d] = doomed[d]
  PROVE  WritingInv'
BY DEF IInv, WritingInv

\* A step of a run that has not committed leaves the joins, their runs being
\* others.
LEMMA RunsThatStay ==
  ASSUME IInv, NEW d \in Runs, phase[d] \notin Committed,
         UNCHANGED <<joins, generation>>, lost \subseteq lost', overlapped => overlapped',
         \A e \in Runs \ {d} :
           /\ phase'[e] = phase[e] /\ report'[e] = report[e]
           /\ packet'[e] = packet[e] /\ approved'[e] = approved[e]
  PROVE  JoinsInv' /\ JoinsRestOnTheirEvidence' /\ OneDiscoveryUnlessOverlapped' /\ HonestReports'
<1>1. \A j \in joins : j.run \in Runs \ {d}
  BY DEF IInv, TypeOK, Joins, JoinsInv
<1> QED BY <1>1, JoinsThatStay

-----------------------------------------------------------------------------

\* The invariant holds at the start.
LEMMA InitIInv == Init => IInv
<1> SUFFICES ASSUME Init PROVE IInv
  OBVIOUS
<1>1. PICK loaded \in SUBSET Keys :
        /\ generation = [k \in Keys |-> IF k \in loaded THEN 1 ELSE Absent]
        /\ packet = [d \in Runs |-> IF d = Earlier THEN [k \in loaded |-> 1] ELSE NoPacket]
        /\ \E valid \in Validated[loaded] :
             joins = {[run |-> Earlier, copy |-> a.copy,
                       on |-> {[key |-> c[1], generation |-> 1, name |-> c[2]] : c \in a.on}] :
                        a \in valid}
  BY DEF Init
<1>2. PICK valid \in Validated[loaded] :
        joins = {[run |-> Earlier, copy |-> a.copy,
                  on |-> {[key |-> c[1], generation |-> 1, name |-> c[2]] : c \in a.on}] :
                   a \in valid}
  BY <1>1
<1>3. Earlier \in Runs
  BY ColumnsAssumption DEF Runs
<1> DEFINE known == [k \in loaded |-> 1]
<1>4. DOMAIN known = loaded /\ \A k \in loaded : known[k] = 1
  OBVIOUS
<1>5. /\ fresh = 2 /\ phase[Earlier] = "done" /\ report[Earlier] = "completed"
      /\ \A d \in Runs : phase[d] \notin Writing /\ approved[d] = {}
  BY <1>3 DEF Init, Writing
<1>6. packet[Earlier] = known /\ \A d \in Runs \ {Earlier} : packet[d] = << >>
  BY <1>1, <1>3 DEF NoPacket
<1> HIDE DEF known
<1>7. ASSUME NEW j \in joins
      PROVE  /\ j \in Joins /\ j.run = Earlier /\ j.copy = 0 /\ Cardinality(j.on) = 2
             /\ \A c \in j.on : c.key \in loaded /\ c.generation = 1
  <2>1. PICK a \in valid :
          j = [run |-> Earlier, copy |-> a.copy,
               on |-> {[key |-> c[1], generation |-> 1, name |-> c[2]] : c \in a.on}]
    BY <1>2
  <2>2. Approval(a, DOMAIN known)
    BY <1>4, ValidatedIsApproval
  <2>3. \A c \in a.on : c[1] \in loaded
    BY <1>4, <2>2, ColumnKeyIsPair DEF Approval
  <2>4. j = RowIn(Earlier, known, a)
    BY <1>4, <2>1, <2>3 DEF IdIn, RowIn
  <2>5. /\ j \in Joins /\ j.run = Earlier /\ j.copy = 0 /\ Cardinality(j.on) = 2
        /\ \A c \in j.on : c.key \in DOMAIN known /\ c.generation = known[c.key]
    <3>1. DOMAIN known \in SUBSET Keys /\ \A k \in DOMAIN known : known[k] \in Nat
      BY <1>4
    <3> QED BY <1>3, <2>2, <2>4, <3>1, RowOfApproval
  <2> QED BY <1>4, <2>5
<1>8. TypeOK
  <2>1. generation \in [Keys -> Nat] /\ \A k \in Keys : generation[k] < fresh
    BY <1>1, <1>5 DEF Absent
  <2>2. joins \subseteq Joins
    BY <1>7
  <2>3. phase \in [Runs \cup Batches -> Phases] /\ report \in [Runs -> Reports]
    BY DEF Init, Phases, Reports
  <2>4. /\ approved \in [Runs -> SUBSET Approvals] /\ doomed \in [Runs -> SUBSET Joins]
        /\ recommended \in [Batches -> BOOLEAN] /\ items \in [Batches -> Nat]
        /\ lost \subseteq Runs /\ unlinked \subseteq Batches /\ overlapped \in BOOLEAN
    BY DEF Init
  <2> QED BY <2>1, <2>2, <2>3, <2>4, <1>5 DEF TypeOK, Absent
<1>9. PacketInv
  <2>1. DOMAIN packet = Runs
    BY <1>1
  <2>2. ASSUME NEW d \in Runs
        PROVE  /\ DOMAIN packet[d] \subseteq Keys
               /\ \A k \in DOMAIN packet[d] :
                    packet[d][k] \in Nat /\ packet[d][k] # Absent /\ packet[d][k] < fresh
    <3>1. CASE d = Earlier
      BY <1>4, <1>5, <1>6, <3>1 DEF Absent
    <3>2. CASE d # Earlier
      BY <1>6, <3>2
    <3> QED BY <3>1, <3>2
  <2> QED BY <2>1, <2>2 DEF PacketInv
<1>10. ApprovedInv /\ JoinsInv /\ ReportInv /\ WritingInv /\ HonestReports
  BY <1>5, <1>7 DEF Init, ApprovedInv, JoinsInv, Committed, ReportInv, WritingInv, HonestReports
<1>11. AnnouncedInv
  BY DEF Init, AnnouncedInv
<1>12. JoinsRestOnTheirEvidence
  BY <1>1, <1>4, <1>6, <1>7 DEF JoinsRestOnTheirEvidence, Present, Absent
<1>13. OneDiscoveryUnlessOverlapped
  BY <1>7, RowsAreApart DEF OneDiscoveryUnlessOverlapped
<1> QED BY <1>8, <1>9, <1>10, <1>11, <1>12, <1>13 DEF IInv

-----------------------------------------------------------------------------
(* The steps of a run *)

\* A run that gives up forgets what it knew.
LEMMA EndsWithoutWriting ==
  ASSUME IInv, NEW d \in Runs, NEW end \in {"done", "crashed"}, NEW status \in Reports,
         phase[d] \notin Committed, Forget(d), end = "done" \/ status = report[d],
         phase' = [phase EXCEPT ![d] = end], report' = [report EXCEPT ![d] = status],
         UNCHANGED <<dataset, joins, lost, batches, unlinked, overlapped>>
  PROVE  IInv'
<1> USE DEF IInv
<1>1. /\ packet' = [packet EXCEPT ![d] = NoPacket]
      /\ approved' = [approved EXCEPT ![d] = {}] /\ doomed' = [doomed EXCEPT ![d] = {}]
  BY DEF Forget, ForgetAnswer
<1>2. TypeOK'
  BY <1>1 DEF TypeOK, dataset, batches, Phases
<1>3. PacketInv'
  BY <1>1 DEF PacketInv, dataset, NoPacket
<1>4. ApprovedInv'
  BY <1>1 DEF ApprovedInv, TypeOK, PacketInv
<1>5. WritingInv'
  BY <1>1, WritersThatStay DEF Writing, TypeOK
<1>6. AnnouncedInv'
  BY DEF AnnouncedInv, batches
<1>7. JoinsInv' /\ JoinsRestOnTheirEvidence' /\ OneDiscoveryUnlessOverlapped' /\ HonestReports'
  BY <1>1, RunsThatStay DEF dataset, TypeOK, PacketInv
<1>8. ReportInv'
  BY DEF ReportInv, TypeOK, Committed
<1> QED BY <1>2, <1>3, <1>4, <1>5, <1>6, <1>7, <1>8

LEMMA RunsGiveUp ==
  ASSUME IInv, NEW d \in Runs, phase[d] # "committed",
         DiscoveryFails(d) \/ WriteFails(d) \/ Crash(d)
  PROVE  IInv'
<1>1. phase[d] \notin Committed /\ Forget(d)
      /\ UNCHANGED <<dataset, joins, lost, batches, unlinked, overlapped>>
  BY DEF DiscoveryFails, WriteFails, Crash, Begins, Committed
<1>2. CASE DiscoveryFails(d) \/ WriteFails(d)
  BY <1>1, <1>2, EndsWithoutWriting DEF DiscoveryFails, WriteFails, End, Reports
<1>3. CASE Crash(d)
  <2>1. report[d] \in Reports /\ report' = [report EXCEPT ![d] = report[d]]
    BY <1>3 DEF Crash, IInv, TypeOK
  <2> QED BY <1>1, <1>3, <2>1, EndsWithoutWriting DEF Crash
<1> QED BY <1>2, <1>3

\* After its commit a run reports, or is killed; the joins and what they rest on
\* stay.
LEMMA EndsAfterWriting ==
  ASSUME IInv, NEW d \in Runs, phase[d] = "committed", ReportWrite(d) \/ Crash(d)
  PROVE  IInv'
<1> USE DEF IInv
<1>1. /\ approved' = [approved EXCEPT ![d] = {}] /\ doomed' = [doomed EXCEPT ![d] = {}]
      /\ UNCHANGED <<dataset, joins, packet, lost, batches, unlinked, overlapped>>
  BY DEF ReportWrite, Crash, ForgetAnswer
<1>2. PICK end \in {"done", "crashed"}, status \in Reports :
        /\ phase' = [phase EXCEPT ![d] = end] /\ report' = [report EXCEPT ![d] = status]
        /\ \/ end = "done" /\ (approved[d] # {} => status = "completed")
           \/ end = "crashed" /\ status = "none"
  <2>1. CASE ReportWrite(d)
    BY <2>1 DEF ReportWrite, End, Reports
  <2>2. CASE Crash(d)
    <3>1. report[d] = "none" /\ report' = [report EXCEPT ![d] = "none"]
      BY <2>2 DEF Crash, ReportInv, TypeOK
    <3> QED BY <2>2, <3>1 DEF Crash, Reports
  <2> QED BY <2>1, <2>2
<1>3. TypeOK'
  BY <1>1, <1>2 DEF TypeOK, dataset, batches, Phases
<1>4. PacketInv' /\ AnnouncedInv'
  BY <1>1 DEF PacketInv, AnnouncedInv, dataset, batches
<1>5. ApprovedInv'
  BY <1>1, <1>2 DEF ApprovedInv, TypeOK
<1>6. WritingInv'
  BY <1>1, <1>2, WritersThatStay DEF Writing, TypeOK
<1>7. ReportInv'
  BY <1>2 DEF ReportInv, TypeOK
<1>8. JoinsInv'
  BY <1>1, <1>2 DEF JoinsInv, TypeOK, Joins, Committed
<1>9. JoinsRestOnTheirEvidence' /\ OneDiscoveryUnlessOverlapped'
  BY <1>1 DEF JoinsRestOnTheirEvidence, OneDiscoveryUnlessOverlapped, Present, dataset
<1>10. HonestReports'
  BY <1>1, <1>2 DEF HonestReports, JoinsInv, TypeOK, Joins
<1> QED BY <1>3, <1>4, <1>5, <1>6, <1>7, <1>8, <1>9, <1>10

LEMMA ReadResourcesIInv ==
  ASSUME IInv, NEW d \in Runs, ReadResources(d)
  PROVE  IInv'
<1> USE DEF IInv
<1>1. /\ phase[d] \in {"idle", "rebuilt"}
      /\ UNCHANGED <<dataset, joins, writes, batches, unlinked, overlapped>>
  BY DEF ReadResources, Begins
<1> DEFINE read == [k \in Present |-> generation[k]]
<1>2. PICK end \in {"done", "asking"}, status \in Reports :
        /\ phase' = [phase EXCEPT ![d] = end] /\ report' = [report EXCEPT ![d] = status]
        /\ end = "done" \/ status = report[d]
        /\ packet' = packet \/ packet' = [packet EXCEPT ![d] = read]
  <2>1. report[d] \in Reports /\ report = [report EXCEPT ![d] = report[d]]
    BY DEF TypeOK
  <2> QED BY <2>1 DEF ReadResources, End, Reports
<1>3. TypeOK'
  BY <1>1, <1>2 DEF TypeOK, dataset, writes, batches, Phases
<1>4. PacketInv'
  <2>1. DOMAIN read \subseteq Keys
        /\ \A k \in DOMAIN read : read[k] \in Nat /\ read[k] # Absent /\ read[k] < fresh
    BY DEF Present, TypeOK
  <2> HIDE DEF read
  <2> QED BY <1>1, <1>2, <2>1 DEF PacketInv, dataset
<1>5. ApprovedInv'
  BY <1>1, <1>2 DEF ApprovedInv, TypeOK, PacketInv, writes
<1>6. WritingInv'
  BY <1>1, <1>2, WritersThatStay DEF Writing, TypeOK, writes
<1>7. AnnouncedInv'
  BY <1>1 DEF AnnouncedInv, batches
<1>8. JoinsInv' /\ JoinsRestOnTheirEvidence' /\ OneDiscoveryUnlessOverlapped' /\ HonestReports'
  <2>1. /\ phase[d] \notin Committed /\ UNCHANGED <<joins, generation, lost, overlapped>>
        /\ \A e \in Runs \ {d} :
             /\ phase'[e] = phase[e] /\ report'[e] = report[e]
             /\ packet'[e] = packet[e] /\ approved'[e] = approved[e]
    BY <1>1, <1>2 DEF dataset, writes, TypeOK, PacketInv, Committed
  <2> QED BY <2>1, RunsThatStay
<1>9. ReportInv'
  BY <1>1, <1>2 DEF ReportInv, TypeOK
<1> QED BY <1>3, <1>4, <1>5, <1>6, <1>7, <1>8, <1>9

LEMMA ModelAnswersIInv ==
  ASSUME IInv, NEW d \in Runs, ModelAnswers(d)
  PROVE  IInv'
<1> USE DEF IInv
<1>1. PICK valid \in Validated[DOMAIN packet[d]] : approved' = [approved EXCEPT ![d] = valid]
  BY DEF ModelAnswers
<1>2. /\ phase[d] = "asking" /\ phase' = [phase EXCEPT ![d] = "validated"]
      /\ UNCHANGED <<dataset, joins, report, packet, doomed, lost, batches, unlinked, overlapped>>
  BY DEF ModelAnswers
<1>3. DOMAIN packet[d] \in SUBSET Keys
  BY DEF PacketInv
<1>4. \A a \in valid : Approval(a, DOMAIN packet[d])
  BY <1>3, ValidatedIsApproval
<1>5. \A a \in valid : a \in Approvals
  <2> SUFFICES ASSUME NEW a \in valid PROVE a \in Approvals
    OBVIOUS
  <2>1. PICK l \in ColumnKeys(DOMAIN packet[d]), r \in ColumnKeys(DOMAIN packet[d]) :
          l # r /\ a = [copy |-> 0, on |-> {l, r}]
    BY <1>4 DEF Approval
  <2>2. l \in ColumnKeys(Keys) /\ r \in ColumnKeys(Keys)
    BY <1>3, ColumnKeyIsPair
  <2> QED BY <2>1, <2>2 DEF Approvals
<1>6. TypeOK'
  BY <1>1, <1>2, <1>5 DEF TypeOK, dataset, batches, Phases
<1>7. PacketInv' /\ AnnouncedInv'
  BY <1>2 DEF PacketInv, AnnouncedInv, dataset, batches
<1>8. ApprovedInv'
  BY <1>1, <1>2, <1>4 DEF ApprovedInv, TypeOK
<1>9. WritingInv'
  BY <1>2, WritersThatStay DEF Writing, TypeOK
<1>10. JoinsInv' /\ JoinsRestOnTheirEvidence' /\ OneDiscoveryUnlessOverlapped' /\ HonestReports'
  BY <1>1, <1>2, RunsThatStay DEF dataset, TypeOK, Committed
<1>11. ReportInv'
  BY <1>2 DEF ReportInv, TypeOK
<1> QED BY <1>6, <1>7, <1>8, <1>9, <1>10, <1>11

LEMMA BeginWriteIInv ==
  ASSUME IInv, NEW d \in Runs, BeginWrite(d)
  PROVE  IInv'
<1> USE DEF IInv
<1>1. /\ phase[d] = "validated" /\ phase' = [phase EXCEPT ![d] = "deleting"]
      /\ doomed' = [doomed EXCEPT ![d] = joins]
      /\ overlapped' = (overlapped \/ \E e \in Runs : phase[e] \in Writing)
      /\ UNCHANGED <<dataset, joins, report, packet, approved, lost, batches, unlinked>>
  BY DEF BeginWrite, Snapshot, Writing
<1>2. TypeOK'
  BY <1>1 DEF TypeOK, dataset, batches, Phases
<1>3. PacketInv' /\ AnnouncedInv' /\ ApprovedInv'
  BY <1>1 DEF PacketInv, AnnouncedInv, ApprovedInv, dataset, batches
<1>4. WritingInv'
  <2> SUFFICES ASSUME ~overlapped'
               PROVE  \A e \in Runs : phase'[e] \in Writing =>
                        joins' \subseteq doomed'[e] /\ \A f \in Runs : phase'[f] \in Writing => f = e
    BY DEF WritingInv
  <2>1. \A e \in Runs : phase[e] \notin Writing
    BY <1>1
  <2> QED BY <1>1, <2>1 DEF TypeOK
<1>5. JoinsInv' /\ JoinsRestOnTheirEvidence' /\ OneDiscoveryUnlessOverlapped' /\ HonestReports'
  BY <1>1, RunsThatStay DEF dataset, TypeOK, Committed
<1>6. ReportInv'
  BY <1>1 DEF ReportInv, TypeOK
<1> QED BY <1>2, <1>3, <1>4, <1>5, <1>6

LEMMA DeleteJoinsIInv ==
  ASSUME IInv, NEW d \in Runs, DeleteJoins(d)
  PROVE  IInv'
<1> USE DEF IInv
<1>1. /\ phase[d] = "deleting" /\ phase' = [phase EXCEPT ![d] = "writing"]
      /\ UNCHANGED <<dataset, joins, report, packet, writes, batches, unlinked, overlapped>>
  BY DEF DeleteJoins
<1>2. TypeOK'
  BY <1>1 DEF TypeOK, dataset, writes, batches, Phases
<1>3. PacketInv' /\ AnnouncedInv' /\ ApprovedInv'
  BY <1>1 DEF PacketInv, AnnouncedInv, ApprovedInv, dataset, writes, batches
<1>4. WritingInv'
  BY <1>1, WritersThatStay DEF Writing, TypeOK, writes
<1>5. JoinsInv' /\ JoinsRestOnTheirEvidence' /\ OneDiscoveryUnlessOverlapped' /\ HonestReports'
  BY <1>1, RunsThatStay DEF dataset, writes, TypeOK, Committed
<1>6. ReportInv'
  BY <1>1 DEF ReportInv, TypeOK
<1> QED BY <1>2, <1>3, <1>4, <1>5, <1>6

\* The foreign keys let a run commit only what it learned of tables still there.
LEMMA CommitWriteIInv ==
  ASSUME IInv, NEW d \in Runs, CommitWrite(d)
  PROVE  IInv'
<1> USE DEF IInv
<1>1. /\ phase[d] = "writing" /\ ReferencesExist(Rows(d))
      /\ joins' = (joins \ doomed[d]) \cup Rows(d)
      /\ doomed' = [doomed EXCEPT ![d] = {}]
      /\ UNCHANGED <<dataset, packet, batches, unlinked, overlapped>>
  BY DEF CommitWrite, ForgetAnswer
<1>2. PICK end \in {"committed", "done"}, status \in Reports, answer \in SUBSET approved[d] :
        /\ phase' = [phase EXCEPT ![d] = end] /\ report' = [report EXCEPT ![d] = status]
        /\ approved' = [approved EXCEPT ![d] = answer]
        /\ lost \subseteq lost' /\ lost' \subseteq lost \cup {d}
        /\ \/ end = "committed" /\ status = "none" /\ answer = approved[d]
           \/ end = "done" /\ d \in lost'
  <2>1. /\ report[d] = "none" /\ report = [report EXCEPT ![d] = "none"]
        /\ approved = [approved EXCEPT ![d] = approved[d]]
    BY <1>1 DEF ReportInv, TypeOK
  <2>2. CASE /\ phase' = [phase EXCEPT ![d] = "committed"] /\ UNCHANGED <<report, approved, lost>>
    BY <2>1, <2>2 DEF Reports
  <2>3. CASE End(d, "failed") /\ ForgetAnswer(d) /\ lost' = lost \cup {d}
    BY <2>3 DEF End, ForgetAnswer, Reports
  <2> QED BY <2>2, <2>3 DEF CommitWrite
<1>3. ASSUME NEW j \in Rows(d)
      PROVE  /\ j \in Joins /\ j.run = d /\ j.copy = 0 /\ Cardinality(j.on) = 2
             /\ \A c \in j.on : /\ c.generation = generation[c.key] /\ c.key \in Present
                                /\ c.generation = packet[d][c.key]
             /\ approved[d] # {}
  <2>1. PICK a \in approved[d] : j = RowIn(d, packet[d], a)
    BY DEF Rows, RowIn, ColumnId, IdIn
  <2>2. DOMAIN packet[d] \in SUBSET Keys /\ \A k \in DOMAIN packet[d] : packet[d][k] \in Nat
    BY DEF PacketInv
  <2>3. Approval(a, DOMAIN packet[d])
    BY DEF ApprovedInv
  <2>4. /\ j \in Joins /\ j.run = d /\ j.copy = 0 /\ Cardinality(j.on) = 2
        /\ \A c \in j.on : c.key \in DOMAIN packet[d] /\ c.generation = packet[d][c.key]
    BY <2>1, <2>2, <2>3, RowOfApproval
  <2>5. \A c \in j.on : c.generation = generation[c.key]
    BY <1>1 DEF ReferencesExist
  <2>6. \A c \in j.on : c.key \in Present
    BY <2>4, <2>5 DEF PacketInv, Present
  <2> QED BY <2>1, <2>4, <2>5, <2>6
<1>4. \A j \in joins \ doomed[d] : j.run \in Runs \ {d}
  BY <1>1 DEF TypeOK, Joins, JoinsInv, Committed
<1>5. /\ generation' = generation /\ packet' = packet /\ overlapped' = overlapped
      /\ phase'[d] \in {"committed", "done"} /\ \A e \in Runs \ {d} : phase'[e] = phase[e] /\ report'[e] = report[e]
      /\ doomed'[d] = {} /\ \A e \in Runs \ {d} : doomed'[e] = doomed[e]
  BY <1>1, <1>2 DEF dataset, TypeOK
<1>6. TypeOK'
  <2>1. joins' \subseteq Joins
    BY <1>1, <1>3 DEF TypeOK
  <2> QED BY <1>1, <1>2, <2>1 DEF TypeOK, dataset, batches, Phases
<1>7. PacketInv' /\ AnnouncedInv' /\ ApprovedInv' /\ ReportInv'
  BY <1>1, <1>2 DEF PacketInv, AnnouncedInv, ApprovedInv, ReportInv, TypeOK, dataset, batches
<1>8. JoinsInv'
  <2>1. \A e \in Runs \ {d} : phase'[e] = phase[e] /\ approved'[e] = approved[e]
    BY <1>2 DEF TypeOK
  <2>2. \A j \in Rows(d) : phase'[d] \in Committed /\ (phase'[d] = "committed" => approved'[d] # {})
    BY <1>2, <1>3 DEF TypeOK, Committed
  <2> QED BY <1>1, <1>3, <1>4, <2>1, <2>2 DEF JoinsInv
<1>9. WritingInv'
  <2> SUFFICES ASSUME ~overlapped, NEW e \in Runs, phase'[e] \in Writing
               PROVE  FALSE
    BY <1>5 DEF WritingInv
  <2>1. e # d /\ phase[e] \in Writing
    BY <1>5 DEF Writing
  <2> QED BY <1>1, <2>1 DEF WritingInv, Writing
<1>10. JoinsRestOnTheirEvidence'
  BY <1>1, <1>3, <1>5 DEF JoinsRestOnTheirEvidence, Present
<1>11. OneDiscoveryUnlessOverlapped'
  <2> SUFFICES ASSUME ~overlapped, NEW i \in joins', NEW j \in joins'
               PROVE  i.run = j.run /\ (i.on = j.on => i = j)
    BY <1>5 DEF OneDiscoveryUnlessOverlapped
  <2>1. joins \subseteq doomed[d]
    BY <1>1 DEF WritingInv, Writing
  <2>2. i \in Rows(d) /\ j \in Rows(d)
    BY <1>1, <2>1
  <2> QED BY <1>3, <2>2, RowsAreApart
<1>12. HonestReports'
  BY <1>1, <1>2, <1>3, <1>4, <1>5 DEF HonestReports, TypeOK
<1> QED BY <1>6, <1>7, <1>8, <1>9, <1>10, <1>11, <1>12

-----------------------------------------------------------------------------
(* The steps of the others *)

\* What a replaced table's joins rested on goes with them.
LEMMA TakenAway ==
  ASSUME IInv, NEW who \in Rebuilds \cup Batches, NEW keys \in SUBSET Keys, TakeAway(who, keys),
         generation' \in [Keys -> Nat], \A k \in Keys \ keys : generation'[k] = generation[k],
         \A d \in Runs : phase[d] \in Committed => phase'[d] = phase[d],
         \A d \in Runs : phase'[d] \in Writing => phase[d] \in Writing,
         UNCHANGED <<report, packet, writes, overlapped>>
  PROVE  /\ joins' \subseteq joins /\ unlinked' \subseteq unlinked \cup ({who} \cap Batches)
         /\ WritingInv'
         /\ JoinsInv' /\ JoinsRestOnTheirEvidence' /\ OneDiscoveryUnlessOverlapped' /\ HonestReports'
<1> USE DEF IInv
<1>1. joins' = joins \ JoinsOn(keys) /\ unlinked' \subseteq unlinked \cup ({who} \cap Batches)
  BY DEF TakeAway
<1>2. /\ joins' \subseteq joins
      /\ \A j \in joins' : \A c \in j.on : c.key \in Keys \ keys
  BY <1>1 DEF JoinsOn, TypeOK, Joins, ColumnIds
<1>3. WritingInv'
  BY <1>2, WritersThatStay DEF writes
<1>4. JoinsInv' /\ JoinsRestOnTheirEvidence' /\ OneDiscoveryUnlessOverlapped' /\ HonestReports'
  BY <1>2, JoinsThatStay DEF writes, JoinsInv, TypeOK, Joins
<1> QED BY <1>1, <1>2, <1>3, <1>4

LEMMA RebuildIInv ==
  ASSUME IInv, NEW r \in Rebuilds, Rebuild(r)
  PROVE  IInv'
<1> USE DEF IInv
<1>1. PICK scan \in SUBSET Keys :
        generation' = [k \in Keys |-> IF k \in scan THEN fresh ELSE Absent]
  BY DEF Rebuild
<1>2. PICK end \in {"rebuilt", "done"} : phase' = [phase EXCEPT ![r] = end]
  BY DEF Rebuild
<1>3. /\ phase[r] = "idle" /\ TakeAway(r, Keys) /\ fresh' = fresh + 1
      /\ UNCHANGED <<report, packet, writes, batches, overlapped>>
  BY DEF Rebuild
<1>4. r \in Runs /\ {r} \cap Batches = {}
  BY ActorsAssumption DEF Runs
<1>5. /\ fresh \in Nat /\ fresh' \in Nat /\ fresh < fresh' /\ fresh' # Absent
      /\ generation' \in [Keys -> Nat] /\ \A k \in Keys : generation'[k] < fresh'
  BY <1>1, <1>3 DEF TypeOK, Absent
<1>6. /\ joins' \subseteq joins /\ unlinked' \subseteq unlinked \cup ({r} \cap Batches)
      /\ WritingInv'
      /\ JoinsInv' /\ JoinsRestOnTheirEvidence' /\ OneDiscoveryUnlessOverlapped' /\ HonestReports'
  <2>1. \A d \in Runs : /\ phase[d] \in Committed => phase'[d] = phase[d]
                        /\ phase'[d] \in Writing => phase[d] \in Writing
    BY <1>2, <1>3 DEF TypeOK, Writing, Committed
  <2> QED BY <1>3, <1>5, <2>1, TakenAway
<1>7. TypeOK'
  <2>1. phase' \in [Runs \cup Batches -> Phases]
    BY <1>2 DEF TypeOK, Phases
  <2> QED BY <1>3, <1>4, <1>5, <1>6, <2>1 DEF TypeOK, writes, batches
<1>8. PacketInv'
  BY <1>3, <1>5 DEF PacketInv, TypeOK
<1>9. ApprovedInv' /\ AnnouncedInv' /\ ReportInv'
  BY <1>2, <1>3, <1>4, <1>6 DEF ApprovedInv, AnnouncedInv, ReportInv, TypeOK, writes, batches
<1> QED BY <1>6, <1>7, <1>8, <1>9

\* An applied event: whatever recommended a refresh before it still does.
LEMMA Applied ==
  ASSUME IInv, NEW b \in Batches, NEW recommends \in BOOLEAN, Apply(b, recommends)
  PROVE  /\ recommended' \in [Batches -> BOOLEAN] /\ items' \in [Batches -> Nat]
         /\ \A c \in Batches : recommended[c] => recommended'[c]
         /\ recommends => recommended'[b]
<1>1. recommended \in [Batches -> BOOLEAN] /\ items \in [Batches -> Nat]
  BY DEF IInv, TypeOK
<1>2. /\ items' = [items EXCEPT ![b] = @ + 1]
      /\ recommended' = [recommended EXCEPT ![b] = recommended[b] \/ recommends]
  BY DEF Apply, Merge
<1>3. items' \in [Batches -> Nat]
  BY <1>1, <1>2
<1>4. recommended' \in [Batches -> BOOLEAN]
  BY <1>1, <1>2
<1>5. recommends => recommended'[b]
  BY <1>1, <1>2
<1>6. \A c \in Batches : recommended[c] => recommended'[c]
  BY <1>1, <1>2
<1> QED BY <1>3, <1>4, <1>5, <1>6

\* A batch changes a table, and takes the joins of the table along.
LEMMA TableEventIInv ==
  ASSUME IInv, NEW b \in Batches, NEW k \in Keys, NEW g \in Nat,
         Apply(b, TRUE), TakeAway(b, {k}), generation' = [generation EXCEPT ![k] = g],
         fresh' \in Nat, g < fresh', fresh <= fresh',
         UNCHANGED <<phase, report, packet, writes, overlapped>>
  PROVE  IInv'
<1> USE DEF IInv
<1>1. /\ recommended' \in [Batches -> BOOLEAN] /\ items' \in [Batches -> Nat]
      /\ \A c \in Batches : recommended[c] => recommended'[c]
      /\ recommended'[b]
  BY Applied
<1>2. /\ generation' \in [Keys -> Nat] /\ \A key \in Keys : generation'[key] < fresh'
      /\ fresh' # Absent
  BY DEF TypeOK, Absent
<1>3. \A key \in Keys \ {k} : generation'[key] = generation[key]
  BY DEF TypeOK
<1>4. /\ joins' \subseteq joins /\ unlinked' \subseteq unlinked \cup ({b} \cap Batches)
      /\ WritingInv'
      /\ JoinsInv' /\ JoinsRestOnTheirEvidence' /\ OneDiscoveryUnlessOverlapped' /\ HonestReports'
  BY <1>2, <1>3, TakenAway
<1>5. TypeOK'
  BY <1>1, <1>2, <1>4 DEF TypeOK, writes
<1>6. PacketInv'
  BY DEF PacketInv, TypeOK
<1>7. ApprovedInv' /\ ReportInv'
  BY DEF ApprovedInv, ReportInv, writes
<1>8. AnnouncedInv'
  BY <1>1, <1>4 DEF AnnouncedInv, TypeOK
<1> QED BY <1>4, <1>5, <1>6, <1>7, <1>8

LEMMA OtherBatchStepsIInv ==
  ASSUME IInv, NEW b \in Batches, OtherEvent(b) \/ EndBatch(b)
  PROVE  IInv'
<1> USE DEF IInv
<1>1. /\ UNCHANGED <<dataset, joins, report, packet, writes, unlinked, overlapped>>
      /\ recommended' \in [Batches -> BOOLEAN] /\ items' \in [Batches -> Nat]
      /\ \A c \in Batches : recommended[c] => recommended'[c]
  BY Applied DEF OtherEvent, EndBatch, batches, TypeOK
<1>2. phase' \in [Runs \cup Batches -> Phases] /\ \A d \in Runs : phase'[d] = phase[d]
  BY ActorsAssumption DEF OtherEvent, EndBatch, TypeOK, Phases
<1>3. TypeOK'
  BY <1>1, <1>2 DEF TypeOK, dataset, writes
<1>4. PacketInv' /\ ApprovedInv' /\ ReportInv' /\ AnnouncedInv'
  BY <1>1, <1>2 DEF PacketInv, ApprovedInv, ReportInv, AnnouncedInv, TypeOK, dataset, writes
<1>5. WritingInv'
  BY <1>1, <1>2, WritersThatStay DEF writes
<1>6. JoinsInv' /\ JoinsRestOnTheirEvidence' /\ OneDiscoveryUnlessOverlapped' /\ HonestReports'
  BY <1>1, <1>2, JoinsThatStay DEF dataset, writes, TypeOK, Joins
<1> QED BY <1>3, <1>4, <1>5, <1>6

-----------------------------------------------------------------------------

\* Every step preserves the invariant.
LEMMA NextIInv == IInv /\ [Next]_vars => IInv'
<1> SUFFICES ASSUME IInv, [Next]_vars PROVE IInv'
  OBVIOUS
<1>1. CASE UNCHANGED vars
  BY <1>1 DEF vars, dataset, writes, batches, IInv, TypeOK, PacketInv, ApprovedInv, JoinsInv,
              ReportInv, WritingInv, AnnouncedInv, JoinsRestOnTheirEvidence, Present,
              OneDiscoveryUnlessOverlapped, HonestReports
<1>2. ASSUME NEW d \in Runs,
             \/ ReadResources(d) \/ DiscoveryFails(d) \/ ModelAnswers(d)
             \/ BeginWrite(d) \/ DeleteJoins(d) \/ CommitWrite(d) \/ ReportWrite(d)
             \/ WriteFails(d) \/ Crash(d)
      PROVE  IInv'
  <2>1. CASE phase[d] = "committed"
    <3>1. ReportWrite(d) \/ Crash(d)
      BY <1>2, <2>1 DEF ReadResources, DiscoveryFails, ModelAnswers, BeginWrite, DeleteJoins,
                        CommitWrite, WriteFails, Begins
    <3> QED BY <2>1, <3>1, EndsAfterWriting
  <2>2. CASE phase[d] # "committed"
    BY <1>2, <2>2, ReadResourcesIInv, RunsGiveUp, ModelAnswersIInv, BeginWriteIInv,
       DeleteJoinsIInv, CommitWriteIInv DEF ReportWrite
  <2> QED BY <2>1, <2>2
<1>3. ASSUME NEW r \in Rebuilds, Rebuild(r)
      PROVE  IInv'
  BY <1>3, RebuildIInv
<1>4. ASSUME NEW b \in Batches, RefreshTable(b) \/ DeleteTable(b)
      PROVE  IInv'
  <2>1. fresh \in Nat /\ Absent < fresh /\ fresh < fresh + 1 /\ fresh + 1 \in Nat /\ Absent \in Nat
    BY DEF IInv, TypeOK, Absent
  <2>2. CASE RefreshTable(b)
    <3>1. PICK k \in Keys : TakeAway(b, {k}) /\ generation' = [generation EXCEPT ![k] = fresh]
      BY <2>2 DEF RefreshTable
    <3>2. /\ Apply(b, TRUE) /\ fresh' = fresh + 1
          /\ UNCHANGED <<phase, report, packet, writes, overlapped>>
      BY <2>2 DEF RefreshTable
    <3>3. fresh' \in Nat /\ fresh < fresh' /\ fresh <= fresh'
      BY <2>1, <3>2
    <3> QED BY <2>1, <3>1, <3>2, <3>3, TableEventIInv
  <2>3. CASE DeleteTable(b)
    <3>1. PICK k \in Keys : TakeAway(b, {k}) /\ generation' = [generation EXCEPT ![k] = Absent]
      BY <2>3 DEF DeleteTable
    <3>2. /\ Apply(b, TRUE) /\ fresh' = fresh
          /\ UNCHANGED <<phase, report, packet, writes, overlapped>>
      BY <2>3 DEF DeleteTable
    <3>3. fresh' \in Nat /\ Absent < fresh' /\ fresh <= fresh'
      BY <2>1, <3>2
    <3> QED BY <2>1, <3>1, <3>2, <3>3, TableEventIInv
  <2> QED BY <1>4, <2>2, <2>3
<1>5. ASSUME NEW b \in Batches, OtherEvent(b) \/ EndBatch(b)
      PROVE  IInv'
  BY <1>5, OtherBatchStepsIInv
<1> QED BY <1>1, <1>2, <1>3, <1>4, <1>5 DEF Next

\* Whatever discoveries, rebuilds and batches do to the dataset, and in whatever
\* order they meet, the state stays one in which the argument above applies.
THEOREM JoinDiscoveryInvariance == Spec => []IInv
BY InitIInv, NextIInv, PTL DEF Spec

\* No join outlives the tables it was approved for: each relates two columns of
\* tables that are there, of the generation its discovery has read.
THEOREM JoinEvidence == Spec => []JoinsRestOnTheirEvidence
<1>1. IInv => JoinsRestOnTheirEvidence
  BY DEF IInv
<1> QED BY <1>1, JoinDiscoveryInvariance, PTL

\* Replacing the joins leaves those of one discovery, each once, however many
\* discoveries there are, as long as no two write at the same time.
THEOREM OneDiscovery == Spec => []OneDiscoveryUnlessOverlapped
<1>1. IInv => OneDiscoveryUnlessOverlapped
  BY DEF IInv
<1> QED BY <1>1, JoinDiscoveryInvariance, PTL

\* A run that reports a failure, a skip or no joins has left none behind, except
\* when the acknowledgement of its commit was lost; and joins nobody reported are
\* those of a run between its commit and its report, or killed there.
THEOREM ReportsAreHonest == Spec => []HonestReports
<1>1. IInv => HonestReports
  BY DEF IInv
<1> QED BY <1>1, JoinDiscoveryInvariance, PTL

\* A finished batch that took joins away recommends a refresh, however many
\* events of whatever kind were in it.
THEOREM AnnouncedLoss == Spec => []LossIsAnnounced
<1>1. IInv => LossIsAnnounced
  BY DEF IInv, AnnouncedInv, LossIsAnnounced
<1> QED BY <1>1, JoinDiscoveryInvariance, PTL
=============================================================================
