---------------------- MODULE StoreTransactionsProofs ----------------------
(***************************************************************************)
(* Proofs about StoreTransactions, for any sheets, keys and relations, any *)
(* number of transactions of each sort and every interleaving of their     *)
(* statements.                                                             *)
(* The argument: a relation that a transaction has dropped or created is   *)
(* its own until it ends, so rows with that relation come and go with it;  *)
(* a transaction drops before it deletes and deletes before it inserts,    *)
(* and creates a table right after its row; a row it deletes without       *)
(* having dropped the table was committed after it began; and a row whose  *)
(* table it drops without deleting the row was committed after it began    *)
(* too, from a file that contends for the relation.                        *)
(* A second layer says what a transaction of each sort can have done at    *)
(* each of its statements, and that no two delete the same row.  From it:  *)
(* no join outlives its resources, and a request waits in a circle only    *)
(* with a writer that holds something while it waits to drop a table.      *)
(***************************************************************************)
EXTENDS StoreTransactions, FiniteSetTheorems, WellFoundedInduction, TLAPS

Owners == Actors \cup {"loaded"}

RowIds == {<<a, k>> : a \in Owners, k \in Keys}

TableRows == {RowOf(a, s) : a \in Owners, s \in ToSet(Sheets)}

Links == {j \in SUBSET RowIds : Cardinality(j) \in 1..2}

PartialTables == UNION {[K -> RowIds \cup {NoTable}] : K \in SUBSET Relations}

Transactions ==
  [gone : SUBSET RowIds, added : SUBSET TableRows, tabs : PartialTables,
   shared : SUBSET Relations, wiped : SUBSET Links, approved : SUBSET Links]

Statements ==
  [op : {"drop", "read"}, arg : Relations] \cup [op : {"insert", "create"}, arg : ToSet(Sheets)]
  \cup [op : {"clear"}, arg : SUBSET Files] \cup [op : {"unjoin"}, arg : {{}}]
  \cup [op : {"remove", "cascade"}, arg : RowIds] \cup [op : {"unlink", "join"}, arg : Links]

StatesOK ==
  /\ rows \subseteq TableRows /\ IsFiniteSet(rows)
  /\ tables \in [Relations -> RowIds \cup {NoTable}]
  /\ joins \subseteq Links /\ IsFiniteSet(joins)
  /\ status \in [Actors -> {"idle", "running", "committed"} \cup Errors]
  /\ program \in [Actors -> Seq(Statements)] /\ tx \in [Actors -> Transactions]
  /\ schema \in [Readers -> SUBSET TableRows] /\ \A a \in Readers : IsFiniteSet(schema[a])
  /\ seen \in [Readers \cup Queries -> PartialTables]
  /\ overlapped \subseteq Relations
  /\ \A a \in Actors : IsFiniteSet(tx[a].approved) /\ IsFiniteSet(tx[a].added)

-----------------------------------------------------------------------------
(* Programs *)

Creating == {"insert", "create"}

Deleting == {"clear", "remove", "cascade"}

\* Once a program inserts it does nothing else; it drops nothing once it
\* deletes rows; and it inserts a row and creates its table one after the other.
WellFormed(p) ==
  /\ \A i, j \in DOMAIN p : i < j /\ p[i].op \in Creating => p[j].op \in Creating
  /\ \A i, j \in DOMAIN p : i < j /\ p[i].op \in Deleting => p[j].op # "drop"
  /\ \A i \in DOMAIN p : p[i].op = "insert" =>
       i + 1 \in DOMAIN p /\ p[i + 1] = [op |-> "create", arg |-> p[i].arg]
  /\ \A i \in DOMAIN p : p[i].op = "create" /\ i > 1 =>
       p[i - 1] = [op |-> "insert", arg |-> p[i].arg]

Pending(p, op, x) == [op |-> op, arg |-> x] \in ToSet(p)

PendingClear(p, f) == \E s \in ToSet(p) : s.op = "clear" /\ f \in s.arg

\* The row is deleted, is about to be, or is of a file still to be cleared.
Going(p, t, r) == r.id \in t.gone \/ Pending(p, "remove", r.id) \/ PendingClear(p, r.file)

-----------------------------------------------------------------------------
(* The inductive invariant.  p and t are the program and the transaction of *)
(* an actor, R, T and O what rows, tables and overlapped hold.               *)

Writers == Rebuilders \cup Refreshers

\* Two files contend for the relation, and one's table was committed while
\* another writer was at work.
Excused(O, k) == k \in O /\ Contested(k)

\* A committed row has its table, a table has its row, one key is one row's,
\* and the id of a table tells its relation.
DatasetOK ==
  /\ RowsHaveTables /\ Orphans \subseteq overlapped
  /\ \A r, s \in rows : r.key = s.key => r = s
  /\ \A k \in Relations : tables[k] # NoTable => RelationOf[tables[k][2]] = k

\* A transaction that is not running holds nothing; only writers delete rows.
ProgramInv(a, st, p, t) ==
  /\ st # "running" => t = Clean /\ p = << >>
  /\ WellFormed(p)
  /\ a \notin Writers =>
       t.gone = {} /\ \A s \in ToSet(p) : s.op \notin {"clear", "remove"}

\* A row is inserted before its table is created, and then the table is there.
CreationInv(a, p, t) ==
  /\ t.added # {} => \A s \in ToSet(p) : s.op \in Creating
  /\ p # << >> /\ p[1].op = "create" =>
       /\ RowOf(a, p[1].arg) \in t.added
       /\ \A k \in DOMAIN t.tabs : t.tabs[k] # <<a, p[1].arg.key>>
  /\ \A r \in t.added :
       /\ r.id = <<a, r.key>>
       /\ \/ p # << >> /\ p[1].op = "create" /\ r = RowOf(a, p[1].arg)
          \/ RelationFor(r) \in DOMAIN t.tabs /\ t.tabs[RelationFor(r)] = r.id
  /\ \A r, s \in t.added : r.key = s.key => r = s
  /\ \A k \in DOMAIN t.tabs : t.tabs[k] # NoTable =>
       \E r \in t.added : r.id = t.tabs[k] /\ RelationFor(r) = k

\* What a program will drop is of a file that it clears later.
DroppedInv(R, O, p) ==
  \A k \in Relations : Pending(p, "drop", k) =>
    /\ \E s \in ToSet(Sheets) : RelationFor(s) = k /\ PendingClear(p, s.file)
    /\ \A r \in R : RelationFor(r) = k => PendingClear(p, r.file) \/ Excused(O, k)

\* The row of a dropped table goes with it.
DropInv(R, T, O, p, t) ==
  \A k \in DOMAIN t.tabs :
    /\ T[k] = NoTable => t.tabs[k] # NoTable
    /\ \A r \in R : RelationFor(r) = k => Going(p, t, r) \/ Excused(O, k)

\* A row that goes without its table was committed while others were at work.
SelectedInv(R, O, p, t) ==
  \A r \in R : Going(p, t, r) =>
    \/ Pending(p, "drop", RelationFor(r))
    \/ RelationFor(r) \in DOMAIN t.tabs \/ RelationFor(r) \in O

\* The unique resource key.
KeyInv(R, t) == \A r \in t.added, s \in R : s.key = r.key => s.id \in t.gone

LockInv(T, t) == \A k \in t.shared : T[k] # NoTable

ReadInv(T, st, t, read) ==
  /\ st = "idle" => DOMAIN read = {}
  /\ st = "running" => \A k \in DOMAIN read : k \in t.shared /\ T[k] = read[k]

\* What two transactions cannot have locked together.
ExclusiveInv(t, u) ==
  /\ DOMAIN t.tabs \cap DOMAIN u.tabs = {}
  /\ t.shared \cap DOMAIN u.tabs = {}
  /\ \A r \in t.added, s \in u.added : r.key # s.key

ActorInv(a) ==
  /\ ProgramInv(a, status[a], program[a], tx[a])
  /\ CreationInv(a, program[a], tx[a])
  /\ DroppedInv(rows, overlapped, program[a])
  /\ DropInv(rows, tables, overlapped, program[a], tx[a])
  /\ SelectedInv(rows, overlapped, program[a], tx[a])
  /\ KeyInv(rows, tx[a])
  /\ LockInv(tables, tx[a])
  /\ a \in Readers \cup Queries => ReadInv(tables, status[a], tx[a], seen[a])

IInv ==
  /\ StatesOK /\ DatasetOK
  /\ \A a \in Actors : ActorInv(a)
  /\ \A a, b \in Actors : a # b => ExclusiveInv(tx[a], tx[b])

-----------------------------------------------------------------------------
(* A second layer, for the joins and the deadlocks *)

\* The statements that transactions of a's sort consist of.
OpsOf(a) ==
  IF a \in Rebuilders
  THEN {"drop", "clear", "remove", "cascade", "insert", "create", "unjoin", "unlink"}
  ELSE IF a \in Refreshers THEN {"drop", "clear", "remove", "cascade", "insert", "create"}
  ELSE IF a \in Discoverers THEN {"unjoin", "unlink", "join"} ELSE {"read"}

\* A transaction has done what statements of its sort do.
KindInv(a, p, t) ==
  /\ \A s \in ToSet(p) : s.op \in OpsOf(a)
  /\ a \in Writers => t.shared = {} /\ t.approved = {}
  /\ a \in Readers \cup Queries =>
       DOMAIN t.tabs = {} /\ t.gone = {} /\ t.added = {} /\ t.wiped = {} /\ t.approved = {}

\* The relations of the sheets of a file.
RelationsIn(f) == {RelationFor(s) : s \in SheetsOf(f)}

\* A transaction that still has tables to drop has deleted no row, a refresh no
\* join either, and a refresh drops tables of its file.
DroppingInv(a, p, t) ==
  \A k \in Relations : Pending(p, "drop", k) =>
    /\ t.gone = {}
    /\ a \in Refreshers =>
         t.wiped = {} /\ DOMAIN t.tabs \subseteq RelationsIn(FileOf[a]) /\ k \in RelationsIn(FileOf[a])

\* The transaction that wrote the row is over.
Settled(st, x) == x[1] = "loaded" \/ st[x[1]] = "committed"

OwnersInv == \A r \in rows : Settled(status, r.id)

\* The joins of a row are deleted after the row.
Cascades(p) ==
  \A i \in DOMAIN p : p[i].op = "remove" =>
    \E j \in DOMAIN p : i < j /\ p[j] = [op |-> "cascade", arg |-> p[i].arg]

\* Rows R are deleted while they are there, and of joins J those that refer to
\* them; a join is approved of rows that stay.
RemovalInv(R, J, st, p, t) ==
  /\ t.gone \subseteq Ids(R) /\ Cascades(p)
  /\ \A s \in ToSet(p) : s.op = "cascade" => Settled(st, s.arg)
  /\ \A x \in t.gone, j \in J : x \in j => j \in t.wiped \/ Pending(p, "cascade", x)
  /\ \A x \in Ids(R) : Pending(p, "cascade", x) => x \in t.gone \/ Pending(p, "remove", x)
  /\ \A j \in t.approved : j \subseteq Ids(R)

\* Nobody deletes what another has deleted, or has locked with a join.
ApartInv(t, u) == t.gone \cap u.gone = {} /\ \A j \in t.approved : j \cap u.gone = {}

LayerInv(a) ==
  /\ KindInv(a, program[a], tx[a])
  /\ DroppingInv(a, program[a], tx[a])
  /\ RemovalInv(rows, joins, status, program[a], tx[a])

DInv ==
  /\ JoinsReferToRows /\ OwnersInv
  /\ \A a \in Actors : LayerInv(a)
  /\ \A a, b \in Actors : a # b => ApartInv(tx[a], tx[b])
-----------------------------------------------------------------------------
(* Sequences and finite sets *)

\* What holds of zero and of the successor of what it holds of holds of every
\* natural number.
LEMMA NatSetInduction ==
  ASSUME NEW S, 0 \in S, \A n \in Nat : n \in S => n + 1 \in S
  PROVE  Nat \subseteq S
<1> DEFINE T == Nat \ S
<1> SUFFICES ASSUME T # {} PROVE FALSE
  OBVIOUS
<1>1. PICK x \in T : \A y \in T : ~(<<y, x>> \in OpToRel(<, Nat))
  BY NatLessThanWellFounded, WFMin
<1>2. x \in Nat /\ x # 0
  OBVIOUS
<1>3. x - 1 \in T
  BY <1>2
<1>4. <<x - 1, x>> \in OpToRel(<, Nat)
  BY <1>2 DEF OpToRel
<1> QED BY <1>1, <1>3, <1>4

\* What the empty sequence and concatenations have, a flattened sequence has if
\* its parts do.
LEMMA FlattenIn ==
  ASSUME NEW S, NEW Q \in SUBSET Seq(S), << >> \in Q,
         \A u, v \in Q : u \o v \in Q,
         NEW n \in Nat, NEW seqs \in [1..n -> Q]
  PROVE  FlattenSeq(seqs) \in Q
<1>0. CASE n = 0
  <2>1. seqs = << >> /\ Len(seqs) = 0
    BY <1>0
  <2> QED BY <2>1 DEF FlattenSeq
<1>1. CASE n > 0
  <2> DEFINE Part(f, i) == IF i = 1 THEN seqs[i] ELSE f[i - 1] \o seqs[i]
             Flat == CHOOSE h : h = [i \in 1..n |-> Part(h, i)]
             Fits(f, m) == \A i \in 1..m : i <= n => f[i] = Part(f, i)
             Doable == {m \in Nat : \E f \in [1..m -> Q] : Fits(f, m)}
  <2>1. 0 \in Doable
    <3>1. [i \in 1..0 |-> << >>] \in [1..0 -> Q]
      OBVIOUS
    <3> QED BY <3>1
  <2>2. ASSUME NEW m \in Nat, m \in Doable PROVE m + 1 \in Doable
    <3>1. PICK f \in [1..m -> Q] : Fits(f, m)
      BY <2>2
    <3> DEFINE w == IF m + 1 <= n THEN Part(f, m + 1) ELSE << >>
               g == [i \in 1..(m + 1) |-> IF i = m + 1 THEN w ELSE f[i]]
    <3>2. w \in Q
      <4>1. m + 1 <= n => seqs[m + 1] \in Q
        OBVIOUS
      <4>2. m # 0 => f[m] \in Q /\ (m + 1) - 1 = m
        OBVIOUS
      <4> QED BY <4>1, <4>2
    <3> HIDE DEF w
    <3>3. g \in [1..(m + 1) -> Q] /\ g[m + 1] = w /\ \A i \in 1..m : g[i] = f[i]
      BY <3>2
    <3> HIDE DEF g
    <3>4. ASSUME NEW i \in 1..(m + 1), i <= n PROVE g[i] = Part(g, i)
      <4>1. CASE i = 1
        <5>1. CASE m = 0
          BY <4>1, <5>1, <3>3, <3>4 DEF w
        <5>2. CASE m # 0
          <6>1. 1 \in 1..m
            BY <5>2
          <6> QED BY <4>1, <6>1, <3>1, <3>3, <3>4
        <5> QED BY <5>1, <5>2
      <4>2. CASE i # 1
        <5>1. i - 1 \in 1..m /\ g[i - 1] = f[i - 1]
          BY <4>2, <3>3
        <5>2. CASE i = m + 1
          BY <4>2, <5>1, <5>2, <3>3, <3>4 DEF w
        <5>3. CASE i # m + 1
          <6>1. i \in 1..m
            BY <5>3
          <6>2. f[i] = f[i - 1] \o seqs[i]
            BY <4>2, <6>1, <3>1, <3>4
          <6> QED BY <4>2, <5>1, <6>1, <6>2, <3>3
        <5> QED BY <5>2, <5>3
      <4> QED BY <4>1, <4>2
    <3>5. Fits(g, m + 1)
      BY <3>4
    <3> HIDE DEF Fits
    <3> QED BY <3>3, <3>5
  <2>3. Nat \subseteq Doable
    <3> HIDE DEF Doable
    <3> QED BY <2>1, <2>2, NatSetInduction
  <2>4. PICK f \in [1..n -> Q] : Fits(f, n)
    BY <2>3
  <2>5. \A i \in 1..n : f[i] = Part(f, i)
    <3> HIDE DEF Part
    <3> QED BY <2>4
  <2>6. f = [i \in 1..n |-> Part(f, i)]
    <3> HIDE DEF Part
    <3> QED BY <2>5
  <2>7. Flat = [i \in 1..n |-> Part(Flat, i)]
    <3> HIDE DEF Part
    <3> QED BY <2>6
  <2> HIDE DEF Flat
  <2>8. \A i \in 1..n : Flat[i] = Part(Flat, i)
    <3> HIDE DEF Part
    <3> QED BY <2>7
  <2> DEFINE Typed == {m \in Nat : m + 1 <= n => Flat[m + 1] \in Q}
  <2>9. 0 \in Typed
    <3>1. 1 \in 1..n /\ seqs[1] \in Q
      BY <1>1
    <3> QED BY <2>8, <3>1
  <2>10. ASSUME NEW m \in Nat, m \in Typed PROVE m + 1 \in Typed
    <3> SUFFICES ASSUME m + 2 <= n PROVE Flat[m + 2] \in Q
      OBVIOUS
    <3>1. m + 2 \in 1..n /\ m + 2 # 1 /\ (m + 2) - 1 = m + 1
      OBVIOUS
    <3>2. Flat[m + 2] = Flat[m + 1] \o seqs[m + 2]
      BY <2>8, <3>1
    <3>3. Flat[m + 1] \in Q /\ seqs[m + 2] \in Q
      BY <2>10, <3>1
    <3> QED BY <3>2, <3>3
  <2>11. Nat \subseteq Typed
    <3> HIDE DEF Typed
    <3> QED BY <2>9, <2>10, NatSetInduction
  <2>12. Flat[n] \in Q
    <3>1. n - 1 \in Nat /\ (n - 1) + 1 = n /\ n <= n
      BY <1>1
    <3>2. n - 1 \in Typed
      BY <2>11, <3>1
    <3> QED BY <3>1, <3>2
  <2>13. Len(seqs) = n /\ Len(seqs) # 0
    BY <1>1
  <2> QED BY <2>12, <2>13 DEF FlattenSeq, Flat
<1> QED BY <1>0, <1>1

\* A function that lists a finite set without repetition lists all of it.
LEMMA ListsAll ==
  ASSUME NEW S, IsFiniteSet(S), NEW f \in [1..Cardinality(S) -> S],
         \A i, j \in 1..Cardinality(S) : f[i] = f[j] => i = j
  PROVE  f \in Seq(S) /\ ToSet(f) = S
<1> DEFINE n == Cardinality(S)
<1>1. n \in Nat
  BY FS_CardinalityType
<1>2. f \in Injection(1..n, S)
  BY DEF Injection, IsInjective
<1>3. Cardinality(1..n) = n
  BY <1>1, FS_Interval
<1>4. f \in Surjection(1..n, S)
  BY <1>2, <1>3, FS_Injection
<1>5. \A x \in S : \E i \in 1..n : f[i] = x
  BY <1>4 DEF Surjection
<1>6. DOMAIN f = 1..n /\ \A i \in 1..n : f[i] \in S
  OBVIOUS
<1>7. f \in Seq(S)
  BY <1>1
<1> HIDE DEF n
<1> QED BY <1>5, <1>6, <1>7 DEF ToSet

\* A finite set, listed.
LEMMA SetToSeqLists ==
  ASSUME NEW S, IsFiniteSet(S)
  PROVE  SetToSeq(S) \in Seq(S) /\ ToSet(SetToSeq(S)) = S
<1>1. \E f \in [1..Cardinality(S) -> S] : IsInjective(f)
  BY FS_CardinalityType DEF ExistsBijection, Bijection, Injection
<1>2. SetToSeq(S) \in [1..Cardinality(S) -> S] /\ IsInjective(SetToSeq(S))
  BY <1>1 DEF SetToSeq
<1> QED BY <1>2, ListsAll DEF IsInjective

\* Each listing of a finite set has all of it.
LEMMA SetToSeqsList ==
  ASSUME NEW S, IsFiniteSet(S), NEW f \in SetToSeqs(S)
  PROVE  f \in Seq(S) /\ ToSet(f) = S
BY ListsAll DEF SetToSeqs

\* The sheets are a sequence, so there are finitely many.
LEMMA SheetsAreFinite == IsFiniteSet(ToSet(Sheets))
<1>1. Len(Sheets) \in Nat /\ DOMAIN Sheets = 1..Len(Sheets)
      /\ Sheets = [i \in 1..Len(Sheets) |-> Sheets[i]]
  BY SheetsAssumption
<1>2. Sheets \in Surjection(1..Len(Sheets), ToSet(Sheets))
  BY <1>1 DEF Surjection, ToSet
<1> QED BY <1>1, <1>2, FS_Surjection, FS_Interval

\* A sheet has a file, a key and the key's relation.
LEMMA SheetParts ==
  ASSUME NEW s \in ToSet(Sheets)
  PROVE  s.file \in Files /\ s.key \in Keys /\ RelationFor(s) \in Relations
BY DEF Files, Keys, Relations, RelationFor

-----------------------------------------------------------------------------
(* Statements and programs *)

\* Each statement has the argument its operation takes.
LEMMA StatementParts ==
  ASSUME NEW s \in Statements
  PROVE  /\ s = [op |-> s.op, arg |-> s.arg]
         /\ s.op \in {"drop", "insert", "create", "read", "clear", "unjoin", "remove", "cascade",
                      "unlink", "join"}
         /\ s.op \in {"drop", "read"} => s.arg \in Relations
         /\ s.op \in {"insert", "create"} => s.arg \in ToSet(Sheets)
         /\ s.op = "clear" => s.arg \in SUBSET Files
         /\ s.op \in {"remove", "cascade"} => s.arg \in RowIds
         /\ s.op \in {"unlink", "join"} => s.arg \in Links
BY DEF Statements

\* The statements of two programs run one after the other.
LEMMA ConcatStatements ==
  ASSUME NEW d \in Seq(Statements), NEW q \in Seq(Statements)
  PROVE  d \o q \in Seq(Statements) /\ ToSet(d \o q) = ToSet(d) \cup ToSet(q)
<1> DEFINE e == d \o q
<1>1. Len(d) \in Nat /\ Len(q) \in Nat /\ DOMAIN d = 1..Len(d) /\ DOMAIN q = 1..Len(q)
  OBVIOUS
<1>2. /\ e \in Seq(Statements) /\ DOMAIN e = 1..(Len(d) + Len(q))
      /\ \A i \in 1..Len(d) : e[i] = d[i]
      /\ \A i \in 1..Len(q) : e[Len(d) + i] = q[i]
      /\ \A i \in DOMAIN e : i \in 1..Len(d) \/ (i - Len(d) \in 1..Len(q) /\ e[i] = q[i - Len(d)])
  BY <1>1
<1> HIDE DEF e
<1>3. ASSUME NEW x \in ToSet(e) PROVE x \in ToSet(d) \cup ToSet(q)
  <2>1. PICK i \in DOMAIN e : x = e[i]
    BY DEF ToSet
  <2> QED BY <2>1, <1>1, <1>2 DEF ToSet
<1>4. ASSUME NEW x \in ToSet(d) PROVE x \in ToSet(e)
  <2>1. PICK i \in 1..Len(d) : x = d[i]
    BY <1>1 DEF ToSet
  <2>2. i \in DOMAIN e /\ e[i] = x
    BY <2>1, <1>1, <1>2
  <2> QED BY <2>2 DEF ToSet
<1>5. ASSUME NEW x \in ToSet(q) PROVE x \in ToSet(e)
  <2>1. PICK i \in 1..Len(q) : x = q[i]
    BY <1>1 DEF ToSet
  <2>2. Len(d) + i \in DOMAIN e /\ e[Len(d) + i] = x
    BY <2>1, <1>1, <1>2
  <2> QED BY <2>2 DEF ToSet
<1> QED BY <1>2, <1>3, <1>4, <1>5 DEF e

\* What runs next, and what a program becomes when its first statement has run
\* and put statements d before the others.
LEMMA Unfold ==
  ASSUME NEW p \in Seq(Statements), p # << >>, NEW d \in Seq(Statements)
  PROVE  /\ Head(p) \in Statements /\ Head(p) = p[1]
         /\ d \o Tail(p) \in Seq(Statements)
         /\ ToSet(d \o Tail(p)) = ToSet(d) \cup ToSet(Tail(p))
         /\ ToSet(p) = {Head(p)} \cup ToSet(Tail(p))
<1>1. /\ Head(p) \in Statements /\ Head(p) = p[1] /\ Tail(p) \in Seq(Statements)
      /\ Len(p) \in Nat /\ Len(p) > 0
      /\ DOMAIN p = 1..Len(p) /\ DOMAIN Tail(p) = 1..(Len(p) - 1)
      /\ \A i \in 1..(Len(p) - 1) : Tail(p)[i] = p[i + 1]
  OBVIOUS
<1>2. ToSet(p) = {Head(p)} \cup ToSet(Tail(p))
  <2>1. ASSUME NEW x \in ToSet(p) PROVE x \in {Head(p)} \cup ToSet(Tail(p))
    <3>1. PICK i \in 1..Len(p) : x = p[i]
      BY <1>1 DEF ToSet
    <3>2. CASE i = 1
      BY <3>1, <3>2, <1>1
    <3>3. CASE i # 1
      <4>1. i - 1 \in DOMAIN Tail(p) /\ Tail(p)[i - 1] = x
        BY <3>1, <3>3, <1>1
      <4> QED BY <4>1 DEF ToSet
    <3> QED BY <3>2, <3>3
  <2>2. Head(p) \in ToSet(p)
    BY <1>1 DEF ToSet
  <2>3. ASSUME NEW x \in ToSet(Tail(p)) PROVE x \in ToSet(p)
    <3>1. PICK i \in 1..(Len(p) - 1) : x = Tail(p)[i]
      BY <1>1 DEF ToSet
    <3>2. i + 1 \in DOMAIN p /\ p[i + 1] = x
      BY <3>1, <1>1
    <3> QED BY <3>2 DEF ToSet
  <2> QED BY <2>1, <2>2, <2>3
<1> QED BY <1>1, <1>2, ConcatStatements

\* What a well-formed program p says of the program e it becomes when its first
\* statement has run.
Continues(p, e) ==
  /\ WellFormed(e)
  /\ Head(p).op \in Creating => \A s \in ToSet(Tail(p)) : s.op \in Creating
  /\ Head(p).op \in Deleting => \A s \in ToSet(Tail(p)) : s.op # "drop"
  /\ Head(p).op = "insert" => e # << >> /\ e[1] = [op |-> "create", arg |-> Head(p).arg]
  /\ e # << >> /\ e[1].op = "create" => Head(p) = [op |-> "insert", arg |-> e[1].arg]

\* A program stays well-formed as it runs.
LEMMA WellFormedContinues ==
  ASSUME NEW p \in Seq(Statements), p # << >>, WellFormed(p),
         NEW d \in Seq(Statements),
         \A s \in ToSet(d) : s.op \in {"unlink", "remove", "cascade"},
         d # << >> => Head(p).op \in {"unjoin", "clear"},
         Head(p).op = "unjoin" => \A s \in ToSet(d) : s.op = "unlink"
  PROVE  Continues(p, d \o Tail(p))
<1> DEFINE n == Len(p)
           m == Len(d)
           e == d \o Tail(p)
<1>1. /\ n \in Nat /\ n > 0 /\ m \in Nat /\ Head(p) = p[1]
      /\ DOMAIN p = 1..n /\ DOMAIN d = 1..m /\ DOMAIN Tail(p) = 1..(n - 1)
      /\ \A i \in 1..(n - 1) : Tail(p)[i] = p[i + 1]
  OBVIOUS
<1>2. /\ e \in Seq(Statements) /\ DOMAIN e = 1..(m + (n - 1)) /\ Len(e) = m + (n - 1)
      /\ \A i \in 1..m : e[i] = d[i]
      /\ \A i \in DOMAIN e : i > m => i - m + 1 \in 1..n /\ i - m + 1 > 1 /\ e[i] = p[i - m + 1]
      /\ \A j \in 1..n : j > 1 => j - 1 + m \in DOMAIN e /\ e[j - 1 + m] = p[j]
  BY <1>1
<1>3. \A i \in 1..m : e[i].op \in {"unlink", "remove", "cascade"}
  BY <1>1, <1>2 DEF ToSet
<1>4. \A j \in 1..n : j > 1 => p[j] \in ToSet(Tail(p))
  <2> SUFFICES ASSUME NEW j \in 1..n, j > 1 PROVE p[j] \in ToSet(Tail(p))
    OBVIOUS
  <2>1. j - 1 \in DOMAIN Tail(p) /\ Tail(p)[j - 1] = p[j]
    BY <1>1
  <2> QED BY <2>1 DEF ToSet
<1>5. \A s \in ToSet(Tail(p)) : \E j \in 1..n : j > 1 /\ s = p[j]
  BY <1>1 DEF ToSet
<1>6. \A i, j \in 1..n : i < j /\ p[i].op \in Creating => p[j].op \in Creating
  BY <1>1 DEF WellFormed
<1>7. \A i, j \in 1..n : i < j /\ p[i].op \in Deleting => p[j].op # "drop"
  BY <1>1 DEF WellFormed
<1>c. \A j \in 1..n : j > 1 /\ p[1].op \in Deleting => p[j].op # "drop"
  <2>1. 1 \in 1..n
    BY <1>1
  <2> QED BY <2>1, <1>7
<1>u. p[1].op = "unjoin" => \A i \in 1..m : e[i].op = "unlink"
  BY <1>1, <1>2 DEF ToSet
<1>v. p[1].op # "unjoin" => m = 0 \/ p[1].op \in Deleting
  BY <1>1 DEF Deleting
<1>8. \A i \in 1..n : p[i].op = "insert" =>
        i + 1 \in 1..n /\ p[i + 1] = [op |-> "create", arg |-> p[i].arg]
  BY <1>1 DEF WellFormed
<1>9. \A i \in 1..n : p[i].op = "create" /\ i > 1 => p[i - 1] = [op |-> "insert", arg |-> p[i].arg]
  BY <1>1 DEF WellFormed
<1>10. m > 0 => p[1].op # "insert"
  BY <1>1 DEF Creating
<1>e. e = << >> <=> m + (n - 1) = 0
  BY <1>1, <1>2
<1>h. \A i \in DOMAIN e : e[i].op \in {"insert", "create", "drop"} => i > m
  <2> SUFFICES ASSUME NEW i \in DOMAIN e, ~(i > m) PROVE e[i].op \notin {"insert", "create", "drop"}
    OBVIOUS
  <2>1. i \in 1..m
    BY <1>1, <1>2
  <2>2. e[i].op \in {"unlink", "remove", "cascade"}
    BY <2>1, <1>3
  <2> HIDE DEF e
  <2> QED BY <2>2
<1>i. \A i \in DOMAIN e : i \in Int /\ i >= 1 /\ i <= m + (n - 1)
  BY <1>1, <1>2
<1> HIDE DEF n, m, e
<1>11. WellFormed(e)
  <2>1. ASSUME NEW i \in DOMAIN e, NEW j \in DOMAIN e, i < j, e[i].op \in Creating
        PROVE  e[j].op \in Creating
    <3>1. i > m
      BY <1>h, <2>1 DEF Creating
    <3>2. j > m /\ i - m + 1 < j - m + 1
      BY <3>1, <1>1, <1>i, <2>1
    <3>3. i - m + 1 \in 1..n /\ j - m + 1 \in 1..n /\ e[i] = p[i - m + 1] /\ e[j] = p[j - m + 1]
      BY <3>1, <3>2, <1>2
    <3> QED BY <3>2, <3>3, <1>6, <2>1
  <2>2. ASSUME NEW i \in DOMAIN e, NEW j \in DOMAIN e, i < j, e[i].op \in Deleting, e[j].op = "drop"
        PROVE  FALSE
    <3>1. j > m /\ j - m + 1 \in 1..n /\ j - m + 1 > 1 /\ e[j] = p[j - m + 1]
      BY <1>h, <1>2, <2>2
    <3>2. CASE i > m
      <4>1. i - m + 1 \in 1..n /\ i - m + 1 < j - m + 1 /\ e[i] = p[i - m + 1]
        BY <1>1, <1>2, <1>i, <2>2, <3>2
      <4> QED BY <4>1, <1>7, <2>2, <3>1
    <3>3. CASE ~(i > m)
      <4>1. i \in 1..m /\ m # 0
        BY <1>1, <1>i, <3>3
      <4>2. e[i].op # "unlink"
        BY <2>2 DEF Deleting
      <4>3. p[1].op \in Deleting
        BY <4>1, <4>2, <1>u, <1>v
      <4> QED BY <4>3, <1>c, <2>2, <3>1
    <3> QED BY <3>2, <3>3
  <2>3. ASSUME NEW i \in DOMAIN e, e[i].op = "insert"
        PROVE  i + 1 \in DOMAIN e /\ e[i + 1] = [op |-> "create", arg |-> e[i].arg]
    <3>1. i > m
      BY <1>h, <2>3
    <3>2. i - m + 1 \in 1..n /\ i - m + 1 > 1 /\ e[i] = p[i - m + 1]
      BY <3>1, <1>2
    <3>3. (i - m + 1) + 1 \in 1..n /\ p[(i - m + 1) + 1] = [op |-> "create", arg |-> e[i].arg]
      BY <3>2, <1>8, <2>3
    <3>4. ((i - m + 1) + 1) - 1 + m = i + 1
      BY <1>1, <1>2
    <3> QED BY <3>2, <3>3, <3>4, <1>2
  <2>4. ASSUME NEW i \in DOMAIN e, e[i].op = "create", i > 1
        PROVE  e[i - 1] = [op |-> "insert", arg |-> e[i].arg]
    <3>1. i > m
      BY <1>h, <2>4
    <3>2. i - m + 1 \in 1..n /\ i - m + 1 > 1 /\ e[i] = p[i - m + 1]
      BY <3>1, <1>2
    <3>3. p[(i - m + 1) - 1] = [op |-> "insert", arg |-> e[i].arg]
      BY <3>2, <1>9, <2>4
    <3>4. i - m + 1 # 2
      <4> SUFFICES ASSUME i - m + 1 = 2 PROVE FALSE
        OBVIOUS
      <4>1. m > 0 /\ (i - m + 1) - 1 = 1
        BY <1>1, <1>2, <2>4
      <4>2. p[1].op = "insert"
        BY <4>1, <3>3
      <4> QED BY <4>1, <4>2, <1>10
    <3>5. i - 1 > m /\ (i - 1) - m + 1 = (i - m + 1) - 1
      BY <1>1, <1>i, <3>1, <3>4
    <3>6. i - 1 \in 1..(m + (n - 1))
      BY <1>1, <1>i, <3>5
    <3> QED BY <3>3, <3>5, <3>6, <1>2
  <2> QED BY <2>1, <2>2, <2>3, <2>4 DEF WellFormed
<1>12. p[1].op \in Creating => \A s \in ToSet(Tail(p)) : s.op \in Creating
  <2>1. 1 \in 1..n
    BY <1>1
  <2> QED BY <2>1, <1>5, <1>6
<1>13. p[1].op \in Deleting => \A s \in ToSet(Tail(p)) : s.op # "drop"
  BY <1>5, <1>c
<1>14. p[1].op = "insert" => e # << >> /\ e[1] = [op |-> "create", arg |-> p[1].arg]
  <2> SUFFICES ASSUME p[1].op = "insert"
               PROVE  e # << >> /\ e[1] = [op |-> "create", arg |-> p[1].arg]
    OBVIOUS
  <2>1. m = 0 /\ 1 \in 1..n
    BY <1>1, <1>10
  <2>2. 2 \in 1..n /\ p[2] = [op |-> "create", arg |-> p[1].arg]
    BY <2>1, <1>8
  <2>3. 1 \in DOMAIN e /\ e[1] = p[2]
    BY <2>1, <2>2, <1>2
  <2> QED BY <2>2, <2>3, <1>2, <1>e
<1>15. e # << >> /\ e[1].op = "create" => p[1] = [op |-> "insert", arg |-> e[1].arg]
  <2> SUFFICES ASSUME e # << >>, e[1].op = "create" PROVE p[1] = [op |-> "insert", arg |-> e[1].arg]
    OBVIOUS
  <2>1. 1 \in DOMAIN e
    BY <1>1, <1>2, <1>e
  <2>2. m = 0
    <3> SUFFICES ASSUME m # 0 PROVE FALSE
      OBVIOUS
    <3>1. 1 \in 1..m
      BY <1>1
    <3> QED BY <3>1, <1>3
  <2>3. 2 \in 1..n /\ e[1] = p[2]
    BY <2>1, <2>2, <1>2
  <2>4. p[2 - 1] = [op |-> "insert", arg |-> p[2].arg]
    BY <2>3, <1>9
  <2> QED BY <2>3, <2>4
<1> QED BY <1>1, <1>11, <1>12, <1>13, <1>14, <1>15 DEF Continues, e

\* One statement for each of the arguments.
LEMMA EachLists ==
  ASSUME NEW op, NEW S, NEW args \in Seq(S),
         \A x \in S : [op |-> op, arg |-> x] \in Statements
  PROVE  /\ Each(op, args) \in Seq(Statements)
         /\ ToSet(Each(op, args)) = {[op |-> op, arg |-> x] : x \in ToSet(args)}
<1>1. Len(args) \in Nat /\ DOMAIN args = 1..Len(args) /\ \A i \in 1..Len(args) : args[i] \in S
  OBVIOUS
<1>2. Each(op, args) = [i \in 1..Len(args) |-> [op |-> op, arg |-> args[i]]]
  BY <1>1 DEF Each
<1>3. Each(op, args) \in Seq(Statements)
  BY <1>1, <1>2
<1>4. DOMAIN Each(op, args) = 1..Len(args)
      /\ \A i \in 1..Len(args) : Each(op, args)[i] = [op |-> op, arg |-> args[i]]
  BY <1>2
<1> QED BY <1>1, <1>3, <1>4 DEF ToSet

\* A function takes a finite set to a finite set.
LEMMA FiniteImage ==
  ASSUME NEW S, IsFiniteSet(S), NEW f, DOMAIN f = S, f = [x \in S |-> f[x]]
  PROVE  IsFiniteSet({f[x] : x \in S})
<1>1. f \in Surjection(S, {f[x] : x \in S})
  BY DEF Surjection
<1> QED BY <1>1, FS_Surjection

\* A row has an id with its key, which is not NoTable, a relation and a sheet.
LEMMA RowParts ==
  ASSUME NEW r \in TableRows
  PROVE  /\ r.key \in Keys /\ r.file \in Files /\ RelationFor(r) \in Relations
         /\ r.id \in RowIds /\ r.id # NoTable /\ r.id[2] = r.key
         /\ \E s \in ToSet(Sheets) : s.file = r.file /\ s.key = r.key /\ RelationFor(s) = RelationFor(r)
<1>1. PICK a \in Owners, s \in ToSet(Sheets) : r = RowOf(a, s)
  BY DEF TableRows
<1>2. r.id = <<a, s.key>> /\ r.key = s.key /\ r.file = s.file
  BY <1>1 DEF RowOf
<1>3. RelationFor(r) = RelationFor(s)
  BY <1>2 DEF RelationFor
<1>4. <<a, s.key>> # NoTable
  BY SheetParts, SheetsAssumption DEF Owners
<1> QED BY <1>2, <1>3, <1>4, SheetParts DEF RowIds

\* One id is one row's among rows of which each has a key of its own.
LEMMA RowsTellApart ==
  ASSUME DatasetOK, StatesOK, NEW r \in rows, NEW s \in rows, r.id = s.id
  PROVE  r = s
<1>1. r.key = s.key
  BY RowParts DEF StatesOK
<1> QED BY <1>1 DEF DatasetOK

\* The ids of finitely many rows.
LEMMA IdsAreIds ==
  ASSUME NEW R \in SUBSET TableRows
  PROVE  /\ Ids(R) \in SUBSET RowIds
         /\ IsFiniteSet(R) => IsFiniteSet(Ids(R))
<1>1. Ids(R) \in SUBSET RowIds
  BY RowParts DEF Ids
<1>2. ASSUME IsFiniteSet(R) PROVE IsFiniteSet(Ids(R))
  <2> DEFINE f == [r \in R |-> r.id]
  <2>1. DOMAIN f = R /\ f = [r \in R |-> f[r]] /\ Ids(R) = {f[r] : r \in R}
    BY DEF Ids
  <2> HIDE DEF f
  <2> QED BY <1>2, <2>1, FiniteImage
<1> QED BY <1>1, <1>2

\* The relations of finitely many rows.
LEMMA RelationsAreRelations ==
  ASSUME NEW R \in SUBSET TableRows
  PROVE  /\ RelationsOf(R) \in SUBSET Relations
         /\ IsFiniteSet(R) => IsFiniteSet(RelationsOf(R))
<1>1. RelationsOf(R) \in SUBSET Relations
  BY RowParts DEF RelationsOf
<1>2. ASSUME IsFiniteSet(R) PROVE IsFiniteSet(RelationsOf(R))
  <2> DEFINE f == [r \in R |-> RelationFor(r)]
  <2>1. DOMAIN f = R /\ f = [r \in R |-> f[r]] /\ RelationsOf(R) = {f[r] : r \in R}
    BY DEF RelationsOf
  <2> HIDE DEF f
  <2> QED BY <1>2, <2>1, FiniteImage
<1> QED BY <1>1, <1>2

\* What the start of a DELETE puts before the rest of the program: to remove
\* the rows of its files there are, and no others.
LEMMA DeletionLists ==
  ASSUME StatesOK, DatasetOK, NEW s \in Statements
  PROVE  /\ Deletion(s) \in Seq(Statements)
         /\ Deletion(s) # << >> => s.op \in {"unjoin", "clear"}
         /\ \A u \in ToSet(Deletion(s)) :
              /\ u.op \in {"unlink", "remove", "cascade"}
              /\ u.op \in {"remove", "cascade"} => s.op = "clear"
              /\ u.op = "unlink" => s.op = "unjoin"
         /\ \A r \in rows : s.op = "clear" /\ r.file \in s.arg <=>
                            [op |-> "remove", arg |-> r.id] \in ToSet(Deletion(s))
<1>1. CASE s.op = "unjoin"
  <2>1. Deletion(s) = Each("unlink", SetToSeq(joins))
    BY <1>1 DEF Deletion, ForEach
  <2>2. SetToSeq(joins) \in Seq(joins) /\ ToSet(SetToSeq(joins)) = joins
    BY SetToSeqLists DEF StatesOK
  <2>3. \A x \in joins : [op |-> "unlink", arg |-> x] \in Statements
    BY DEF Statements, StatesOK
  <2>4. Deletion(s) \in Seq(Statements)
        /\ ToSet(Deletion(s)) = {[op |-> "unlink", arg |-> x] : x \in joins}
    BY <2>1, <2>2, <2>3, EachLists
  <2>5. \A u \in ToSet(Deletion(s)) : u.op = "unlink"
    BY <2>4
  <2>6. \A r \in rows : [op |-> "remove", arg |-> r.id] \notin ToSet(Deletion(s))
    BY <2>5
  <2> QED BY <1>1, <2>4, <2>5, <2>6
<1>2. CASE s.op = "clear"
  <2> DEFINE cleared == {r \in rows : r.file \in s.arg}
             ids == Ids(cleared)
  <2>1. Deletion(s) = Each("remove", SetToSeq(ids)) \o Each("cascade", SetToSeq(ids))
    BY <1>2 DEF Deletion, ForEach
  <2>2. IsFiniteSet(cleared) /\ cleared \in SUBSET TableRows
    BY FS_Subset DEF StatesOK
  <2>3. IsFiniteSet(ids) /\ ids \in SUBSET RowIds
    <3> HIDE DEF cleared
    <3> QED BY <2>2, IdsAreIds
  <2>4. \A r \in rows : r.file \in s.arg <=> r.id \in ids
    BY RowsTellApart DEF Ids
  <2> HIDE DEF cleared, ids
  <2>5. SetToSeq(ids) \in Seq(ids) /\ ToSet(SetToSeq(ids)) = ids
    BY <2>3, SetToSeqLists
  <2>6. \A x \in ids : [op |-> "remove", arg |-> x] \in Statements
                       /\ [op |-> "cascade", arg |-> x] \in Statements
    BY <2>3 DEF Statements
  <2>7. Each("remove", SetToSeq(ids)) \in Seq(Statements)
        /\ ToSet(Each("remove", SetToSeq(ids))) = {[op |-> "remove", arg |-> x] : x \in ids}
    BY <2>5, <2>6, EachLists
  <2>8. Each("cascade", SetToSeq(ids)) \in Seq(Statements)
        /\ ToSet(Each("cascade", SetToSeq(ids))) = {[op |-> "cascade", arg |-> x] : x \in ids}
    BY <2>5, <2>6, EachLists
  <2>9. /\ Deletion(s) \in Seq(Statements)
        /\ ToSet(Deletion(s)) = {[op |-> "remove", arg |-> x] : x \in ids}
                                \cup {[op |-> "cascade", arg |-> x] : x \in ids}
    BY <2>1, <2>7, <2>8, ConcatStatements
  <2>10. \A r \in rows : [op |-> "remove", arg |-> r.id] \in ToSet(Deletion(s)) <=> r.id \in ids
    BY <2>9
  <2>11. \A u \in ToSet(Deletion(s)) : u.op \in {"remove", "cascade"}
    BY <2>9
  <2> QED BY <1>2, <2>4, <2>9, <2>10, <2>11
<1>3. CASE s.op \notin {"unjoin", "clear"}
  <2>1. Deletion(s) = << >>
    BY <1>3 DEF Deletion
  <2>2. << >> \in Seq(Statements) /\ ToSet(<< >>) = {}
    BY DEF ToSet
  <2> QED BY <1>3, <2>1, <2>2
<1> QED BY <1>1, <1>2, <1>3

\* Map g is table map f with one entry more, or another one for the key.
HasEntry(g, f, k, v) ==
  /\ g \in PartialTables /\ DOMAIN g = DOMAIN f \cup {k} /\ g[k] = v
  /\ \A x \in DOMAIN f : x # k => g[x] = f[x]

\* What With makes of a function.
LEMMA WithEntry ==
  ASSUME NEW f \in PartialTables, NEW k \in Relations, NEW v \in RowIds \cup {NoTable}
  PROVE  HasEntry(With(f, k, v), f, k, v)
<1>1. DOMAIN f \in SUBSET Relations /\ \A x \in DOMAIN f : f[x] \in RowIds \cup {NoTable}
  BY DEF PartialTables
<1>2. With(f, k, v) = [x \in DOMAIN f \cup {k} |-> IF x = k THEN v ELSE f[x]]
  BY DEF With
<1>3. With(f, k, v) \in [DOMAIN f \cup {k} -> RowIds \cup {NoTable}]
  BY <1>1, <1>2
<1>4. DOMAIN f \cup {k} \in SUBSET Relations
  BY <1>1
<1> QED BY <1>2, <1>3, <1>4 DEF PartialTables, HasEntry

\* A transaction that has done nothing.
LEMMA CleanIsATransaction == Clean \in Transactions
<1>1. << >> \in PartialTables
  <2>1. << >> \in [{} -> RowIds \cup {NoTable}]
    OBVIOUS
  <2> QED BY <2>1 DEF PartialTables
<1> QED BY <1>1 DEF Clean, Transactions

\* What statement s of a adds to its transaction t.
Adds(a, s, t, u) ==
  /\ u \in Transactions /\ IsFiniteSet(u.approved) /\ IsFiniteSet(u.added)
  /\ u.gone = IF s.op = "remove" /\ s.arg \in Ids(rows) THEN t.gone \cup {s.arg} ELSE t.gone
  /\ u.added = IF s.op = "insert" THEN t.added \cup {RowOf(a, s.arg)} ELSE t.added
  /\ u.tabs = IF s.op = "drop" /\ tables[s.arg] # NoTable THEN With(t.tabs, s.arg, NoTable)
              ELSE IF s.op = "create" THEN With(t.tabs, RelationFor(s.arg), <<a, s.arg.key>>)
              ELSE t.tabs
  /\ u.shared = IF s.op = "read" THEN t.shared \cup {s.arg} ELSE t.shared
  /\ u.wiped = t.wiped \cup IF s.op = "cascade" THEN {j \in joins : s.arg \in j}
                            ELSE IF s.op = "unlink" THEN {s.arg} \cap joins ELSE {}
  /\ u.approved = IF s.op = "join" THEN {s.arg} ELSE t.approved

\* The effect of a statement is what Adds says of it.
LEMMA EffectParts ==
  ASSUME StatesOK, NEW a \in Actors, program[a] # << >>
  PROVE  Adds(a, Statement(a), tx[a], Effect(a))
<1> DEFINE s == Statement(a)
           t == tx[a]
           u == Effect(a)
<1> SUFFICES Adds(a, s, t, u)
  OBVIOUS
<1>1. s \in Statements /\ t \in Transactions /\ IsFiniteSet(t.approved) /\ IsFiniteSet(t.added)
  <2>1. program[a] \in Seq(Statements)
    BY DEF StatesOK
  <2> QED BY <2>1, Unfold, CleanIsATransaction DEF StatesOK, Statement
<1>t. /\ t.gone \in SUBSET RowIds /\ t.added \in SUBSET TableRows /\ t.tabs \in PartialTables
      /\ t.shared \in SUBSET Relations /\ t.wiped \in SUBSET Links /\ t.approved \in SUBSET Links
      /\ t = [gone |-> t.gone, added |-> t.added, tabs |-> t.tabs, shared |-> t.shared,
              wiped |-> t.wiped, approved |-> t.approved]
  BY <1>1 DEF Transactions
<1> HIDE DEF s, t, u
<1>2. CASE s.op = "drop"
  <2>1. s.arg \in Relations
    BY <1>1, <1>2, StatementParts
  <2>2. CASE tables[s.arg] # NoTable
    <3>1. u = [t EXCEPT !.tabs = With(t.tabs, s.arg, NoTable)]
      BY <1>2, <2>2 DEF Effect, s, t, u
    <3>2. With(t.tabs, s.arg, NoTable) \in PartialTables
      BY <1>t, <2>1, WithEntry DEF HasEntry
    <3> QED BY <1>1, <1>2, <1>t, <2>2, <3>1, <3>2 DEF Transactions, Adds
  <2>3. CASE tables[s.arg] = NoTable
    <3>1. u = t
      BY <1>2, <2>3 DEF Effect, s, t, u
    <3> QED BY <1>1, <1>2, <2>3, <3>1 DEF Adds
  <2> QED BY <2>2, <2>3
<1>3. CASE s.op = "remove"
  <2>1. s.arg \in RowIds
    BY <1>1, <1>3, StatementParts
  <2>2. CASE s.arg \in Ids(rows)
    <3>1. u = [t EXCEPT !.gone = t.gone \cup {s.arg}]
      BY <1>3, <2>2 DEF Effect, s, t, u
    <3> QED BY <1>1, <1>3, <1>t, <2>1, <2>2, <3>1 DEF Transactions, Adds
  <2>3. CASE s.arg \notin Ids(rows)
    <3>1. u = t
      BY <1>3, <2>3 DEF Effect, s, t, u
    <3> QED BY <1>1, <1>3, <2>3, <3>1 DEF Adds
  <2> QED BY <2>2, <2>3
<1>4. CASE s.op = "cascade"
  <2>1. u = [t EXCEPT !.wiped = t.wiped \cup {j \in joins : s.arg \in j}]
    BY <1>4 DEF Effect, s, t, u
  <2>2. joins \subseteq Links
    BY DEF StatesOK
  <2> QED BY <1>1, <1>4, <1>t, <2>1, <2>2 DEF Transactions, Adds
<1>5. CASE s.op = "insert"
  <2>1. u = [t EXCEPT !.added = t.added \cup {RowOf(a, s.arg)}]
    BY <1>5 DEF Effect, s, t, u
  <2>2. s.arg \in ToSet(Sheets)
    BY <1>1, <1>5, StatementParts
  <2>3. RowOf(a, s.arg) \in TableRows
    BY <2>2 DEF TableRows, Owners
  <2>4. IsFiniteSet(t.added \cup {RowOf(a, s.arg)})
    BY <1>1, FS_AddElement
  <2> QED BY <1>1, <1>5, <1>t, <2>1, <2>3, <2>4 DEF Transactions, Adds
<1>6. CASE s.op = "create"
  <2>1. u = [t EXCEPT !.tabs = With(t.tabs, RelationFor(s.arg), <<a, s.arg.key>>)]
    BY <1>6 DEF Effect, s, t, u
  <2>2. RelationFor(s.arg) \in Relations /\ s.arg.key \in Keys
    BY <1>1, <1>6, StatementParts, SheetParts
  <2>3. <<a, s.arg.key>> \in RowIds \cup {NoTable}
    BY <2>2 DEF RowIds, Owners
  <2>4. With(t.tabs, RelationFor(s.arg), <<a, s.arg.key>>) \in PartialTables
    BY <1>t, <2>2, <2>3, WithEntry DEF HasEntry
  <2> QED BY <1>1, <1>6, <1>t, <2>1, <2>4 DEF Transactions, Adds
<1>7. CASE s.op = "read"
  <2>1. u = [t EXCEPT !.shared = t.shared \cup {s.arg}]
    BY <1>7 DEF Effect, ReadLocks, s, t, u
  <2>2. s.arg \in Relations
    BY <1>1, <1>7, StatementParts
  <2> QED BY <1>1, <1>7, <1>t, <2>1, <2>2 DEF Transactions, Adds
<1>8. CASE s.op = "unlink"
  <2>1. s.arg \in Links
    BY <1>1, <1>8, StatementParts
  <2>2. CASE s.arg \in joins
    <3>1. u = [t EXCEPT !.wiped = t.wiped \cup {s.arg}]
      BY <1>8, <2>2 DEF Effect, s, t, u
    <3>2. {s.arg} \cap joins = {s.arg}
      BY <2>2
    <3> QED BY <1>1, <1>8, <1>t, <2>1, <3>1, <3>2 DEF Transactions, Adds
  <2>3. CASE s.arg \notin joins
    <3>1. u = t
      BY <1>8, <2>3 DEF Effect, s, t, u
    <3>2. {s.arg} \cap joins = {}
      BY <2>3
    <3> QED BY <1>1, <1>8, <3>1, <3>2 DEF Adds
  <2> QED BY <2>2, <2>3
<1>9. CASE s.op = "join"
  <2>1. u = [t EXCEPT !.approved = {s.arg}]
    BY <1>9 DEF Effect, s, t, u
  <2>2. s.arg \in Links
    BY <1>1, <1>9, StatementParts
  <2>3. IsFiniteSet({s.arg})
    BY FS_Singleton
  <2> QED BY <1>1, <1>9, <1>t, <2>1, <2>2, <2>3 DEF Transactions, Adds
<1>10. CASE s.op \in {"clear", "unjoin"}
  <2>1. u = t
    BY <1>10 DEF Effect, s, t, u
  <2> QED BY <1>1, <1>10, <2>1 DEF Adds
<1> QED BY <1>1, <1>2, <1>3, <1>4, <1>5, <1>6, <1>7, <1>8, <1>9, <1>10, StatementParts

-----------------------------------------------------------------------------
(* A statement that runs *)

\* Statement s of a runs next: nobody it conflicts with is at work, and PostgreSQL
\* finds no fault with it.
MayRun(a, s, t) ==
  /\ s \in Statements /\ t \in Transactions /\ status[a] = "running"
  /\ \A b \in Actors : b # a /\ status[b] = "running" => ~Holds(b, s)
  /\ s.op = "insert" => /\ \A r \in rows : r.key = s.arg.key => r.id \in t.gone
                        /\ \A r \in t.added : r.key # s.arg.key
  /\ s.op = "create" => IF RelationFor(s.arg) \in DOMAIN t.tabs
                        THEN t.tabs[RelationFor(s.arg)] = NoTable
                        ELSE tables[RelationFor(s.arg)] = NoTable
  /\ s.op = "read" => tables[s.arg] # NoTable
  /\ s.op = "join" => s.arg \subseteq Ids(rows)

\* Program p becomes q as its first statement s runs.
Becomes(p, s, q) ==
  /\ p \in Seq(Statements) /\ p # << >> /\ s = Head(p) /\ s = p[1]
  /\ q \in Seq(Statements)
  /\ ToSet(p) = {s} \cup ToSet(Tail(p))
  /\ ToSet(q) = ToSet(Deletion(s)) \cup ToSet(Tail(p))

\* A statement that is executed may run, and leaves what it unfolds to and the rest of the program.
LEMMA StatementRuns ==
  ASSUME StatesOK, DatasetOK, NEW a \in Actors, Execute(a)
  PROVE  /\ MayRun(a, Statement(a), tx[a])
         /\ Becomes(program[a], Statement(a), Deletion(Statement(a)) \o Tail(program[a]))
         /\ Adds(a, Statement(a), tx[a], Effect(a))
<1> DEFINE p == program[a]
           t == tx[a]
           s == Statement(a)
           q == Deletion(s) \o Tail(p)
<1>1. p \in Seq(Statements) /\ p # << >> /\ t \in Transactions /\ status[a] = "running"
  BY DEF StatesOK, Execute, Running
<1>2. s = Head(p) /\ s = p[1] /\ s \in Statements /\ ToSet(p) = {s} \cup ToSet(Tail(p))
  <2>1. << >> \in Seq(Statements)
    OBVIOUS
  <2> QED BY <1>1, <2>1, Unfold DEF Statement
<1>3. q \in Seq(Statements) /\ ToSet(q) = ToSet(Deletion(s)) \cup ToSet(Tail(p))
  BY <1>1, <1>2, DeletionLists, Unfold
<1>4. Adds(a, s, t, Effect(a))
  BY <1>1, EffectParts
<1>5. \A b \in Actors : b # a /\ status[b] = "running" => ~Holds(b, s)
  BY DEF Execute, Blockers, Running
<1>6. s.op = "insert" => /\ \A r \in rows : r.key = s.arg.key => r.id \in t.gone
                        /\ \A r \in t.added : r.key # s.arg.key
  BY DEF Execute, Fault, KeyTaken
<1>7. s.op = "create" => IF RelationFor(s.arg) \in DOMAIN t.tabs
                        THEN t.tabs[RelationFor(s.arg)] = NoTable
                        ELSE tables[RelationFor(s.arg)] = NoTable
  <2> SUFFICES ASSUME s.op = "create", TableSeen(a, RelationFor(s.arg)) # NoTable PROVE FALSE
    BY DEF TableSeen
  <2>1. Fault(a) = "duplicate_table"
    BY DEF Fault
  <2> QED BY <2>1 DEF Execute
<1>8. s.op = "read" => tables[s.arg] # NoTable
  <2> SUFFICES ASSUME s.op = "read", tables[s.arg] = NoTable PROVE FALSE
    OBVIOUS
  <2>1. Fault(a) = "undefined_table"
    BY DEF Fault
  <2> QED BY <2>1 DEF Execute
<1>11. s.op = "join" => s.arg \subseteq Ids(rows)
  BY DEF Execute, Fault, ReferencesExist
<1> HIDE DEF p, t, s, q
<1>9. MayRun(a, s, t)
  BY <1>1, <1>2, <1>5, <1>6, <1>7, <1>8, <1>11 DEF MayRun
<1>10. Becomes(p, s, q)
  BY <1>1, <1>2, <1>3 DEF Becomes
<1> QED BY <1>4, <1>9, <1>10 DEF p, t, s, q

\* The tables of its transaction as a statement leaves them.
TabsAfter(a, s, t, u) ==
  /\ DOMAIN t.tabs \subseteq DOMAIN u.tabs
  /\ \A k \in DOMAIN u.tabs :
       \/ k \in DOMAIN t.tabs /\ u.tabs[k] = t.tabs[k]
       \/ k = s.arg /\ s.op = "drop" /\ tables[k] # NoTable /\ u.tabs[k] = NoTable
       \/ k = RelationFor(s.arg) /\ s.op = "create" /\ u.tabs[k] = <<a, s.arg.key>>
  /\ \A k \in DOMAIN t.tabs : s.op \notin {"drop", "create"} => u.tabs[k] = t.tabs[k]
  /\ s.op = "drop" /\ tables[s.arg] # NoTable => s.arg \in DOMAIN u.tabs
  /\ s.op = "create" => /\ RelationFor(s.arg) \in DOMAIN u.tabs
                        /\ u.tabs[RelationFor(s.arg)] = <<a, s.arg.key>>
                        /\ \A k \in DOMAIN t.tabs : k # RelationFor(s.arg) => u.tabs[k] = t.tabs[k]

\* What a statement adds to the tables of its transaction.
LEMMA AddsTabs ==
  ASSUME NEW a \in Actors, NEW s \in Statements, NEW t \in Transactions, NEW u, Adds(a, s, t, u)
  PROVE  TabsAfter(a, s, t, u)
<1>1. u.tabs = IF s.op = "drop" /\ tables[s.arg] # NoTable THEN With(t.tabs, s.arg, NoTable)
               ELSE IF s.op = "create" THEN With(t.tabs, RelationFor(s.arg), <<a, s.arg.key>>)
               ELSE t.tabs
  BY DEF Adds
<1>2. t.tabs \in PartialTables
  BY DEF Transactions
<1>3. CASE s.op = "drop" /\ tables[s.arg] # NoTable
  <2>1. s.arg \in Relations
    BY <1>3, StatementParts
  <2>2. u.tabs = With(t.tabs, s.arg, NoTable)
    BY <1>1, <1>3
  <2>3. HasEntry(u.tabs, t.tabs, s.arg, NoTable)
    <3>1. NoTable \in RowIds \cup {NoTable}
      OBVIOUS
    <3>2. HasEntry(With(t.tabs, s.arg, NoTable), t.tabs, s.arg, NoTable)
      BY <1>2, <2>1, <3>1, WithEntry
    <3> QED BY <2>2, <3>2
  <2> QED BY <1>3, <2>3 DEF TabsAfter, HasEntry
<1>4. CASE s.op = "create"
  <2> DEFINE k == RelationFor(s.arg)
             v == <<a, s.arg.key>>
  <2>1. k \in Relations /\ v \in RowIds \cup {NoTable}
    BY <1>4, StatementParts, SheetParts DEF RowIds, Owners
  <2>2. u.tabs = With(t.tabs, k, v)
    BY <1>1, <1>4
  <2> HIDE DEF k, v
  <2>3. HasEntry(With(t.tabs, k, v), t.tabs, k, v)
    BY <1>2, <2>1, WithEntry
  <2>4. HasEntry(u.tabs, t.tabs, k, v)
    BY <2>2, <2>3
  <2> QED BY <1>4, <2>4 DEF TabsAfter, HasEntry, k, v
<1>5. CASE ~(s.op = "drop" /\ tables[s.arg] # NoTable) /\ s.op # "create"
  <2>1. u.tabs = t.tabs
    BY <1>1, <1>5
  <2> QED BY <1>5, <2>1 DEF TabsAfter
<1> QED BY <1>3, <1>4, <1>5

\* What the invariant says of the actor's program and transaction still holds.
LEMMA ExecuteOwn ==
  ASSUME StatesOK, DatasetOK, NEW a \in Actors, Execute(a), ActorInv(a),
         NEW s, s = Statement(a),
         NEW q, q = Deletion(s) \o Tail(program[a]), NEW u, u = Effect(a)
  PROVE  /\ ProgramInv(a, status[a], q, u) /\ CreationInv(a, q, u)
         /\ DroppedInv(rows, overlapped, q) /\ DropInv(rows, tables, overlapped, q, u)
         /\ SelectedInv(rows, overlapped, q, u) /\ KeyInv(rows, u) /\ LockInv(tables, u)
<1> DEFINE p == program[a]
           t == tx[a]
           d == Deletion(s)
<1>0. MayRun(a, s, t) /\ Becomes(p, s, q) /\ Adds(a, s, t, u)
  BY StatementRuns
<1>1. /\ p \in Seq(Statements) /\ p # << >> /\ t \in Transactions /\ s \in Statements
      /\ s = Head(p) /\ s = p[1] /\ status[a] = "running"
      /\ q \in Seq(Statements) /\ u \in Transactions
      /\ ToSet(p) = {s} \cup ToSet(Tail(p))
      /\ ToSet(q) = ToSet(d) \cup ToSet(Tail(p))
      /\ s.op = "insert" => /\ \A r \in rows : r.key = s.arg.key => r.id \in t.gone
                            /\ \A r \in t.added : r.key # s.arg.key
      /\ s.op = "create" => IF RelationFor(s.arg) \in DOMAIN t.tabs
                            THEN t.tabs[RelationFor(s.arg)] = NoTable
                            ELSE tables[RelationFor(s.arg)] = NoTable
      /\ s.op = "read" => tables[s.arg] # NoTable
  <2> HIDE DEF p, t
  <2> QED BY <1>0 DEF MayRun, Becomes, Adds
<1>2. /\ ProgramInv(a, status[a], p, t) /\ CreationInv(a, p, t)
      /\ DroppedInv(rows, overlapped, p) /\ DropInv(rows, tables, overlapped, p, t)
      /\ SelectedInv(rows, overlapped, p, t) /\ KeyInv(rows, t) /\ LockInv(tables, t)
  BY DEF ActorInv
<1>3. /\ d \in Seq(Statements) /\ (d # << >> => s.op \in {"unjoin", "clear"})
      /\ \A v \in ToSet(d) : v.op \in {"unlink", "remove", "cascade"}
      /\ \A v \in ToSet(d) : v.op \in {"remove", "cascade"} => s.op = "clear"
      /\ \A r \in rows : s.op = "clear" /\ r.file \in s.arg <=>
                         [op |-> "remove", arg |-> r.id] \in ToSet(d)
  BY <1>1, DeletionLists
<1>4. /\ WellFormed(q)
      /\ s.op \in Creating => \A v \in ToSet(Tail(p)) : v.op \in Creating
      /\ s.op \in Deleting => \A v \in ToSet(Tail(p)) : v.op # "drop"
      /\ s.op = "insert" => q # << >> /\ q[1] = [op |-> "create", arg |-> s.arg]
      /\ q # << >> /\ q[1].op = "create" => s = [op |-> "insert", arg |-> q[1].arg]
  <2>1. WellFormed(p)
    BY <1>2 DEF ProgramInv
  <2>2. s.op = "unjoin" => \A v \in ToSet(d) : v.op = "unlink"
    BY <1>3
  <2>3. q = d \o Tail(p)
    OBVIOUS
  <2> HIDE DEF d, p
  <2>4. Continues(p, q)
    BY <1>1, <1>3, <2>1, <2>2, <2>3, WellFormedContinues
  <2> QED BY <1>1, <2>4 DEF Continues
<1>5. /\ u.gone = IF s.op = "remove" /\ s.arg \in Ids(rows) THEN t.gone \cup {s.arg} ELSE t.gone
      /\ u.added = IF s.op = "insert" THEN t.added \cup {RowOf(a, s.arg)} ELSE t.added
      /\ u.shared = IF s.op = "read" THEN t.shared \cup {s.arg} ELSE t.shared
  <2> HIDE DEF p, t
  <2> QED BY <1>0 DEF Adds
<1>6. /\ DOMAIN t.tabs \subseteq DOMAIN u.tabs
      /\ \A k \in DOMAIN u.tabs :
           \/ k \in DOMAIN t.tabs /\ u.tabs[k] = t.tabs[k]
           \/ k = s.arg /\ s.op = "drop" /\ tables[k] # NoTable /\ u.tabs[k] = NoTable
           \/ k = RelationFor(s.arg) /\ s.op = "create" /\ u.tabs[k] = <<a, s.arg.key>>
      /\ \A k \in DOMAIN t.tabs : s.op \notin {"drop", "create"} => u.tabs[k] = t.tabs[k]
      /\ s.op = "drop" /\ tables[s.arg] # NoTable => s.arg \in DOMAIN u.tabs
      /\ s.op = "create" => /\ RelationFor(s.arg) \in DOMAIN u.tabs
                            /\ u.tabs[RelationFor(s.arg)] = <<a, s.arg.key>>
                            /\ \A k \in DOMAIN t.tabs : k # RelationFor(s.arg) => u.tabs[k] = t.tabs[k]
  <2> HIDE DEF p, t
  <2>1. TabsAfter(a, s, t, u)
    BY <1>0, <1>1, AddsTabs
  <2> QED BY <2>1 DEF TabsAfter
<1>r. \A r \in rows : /\ r \in TableRows /\ r.id # NoTable /\ r.id \in Ids(rows)
                      /\ tables[RelationFor(r)] = r.id \/ Excused(overlapped, RelationFor(r))
  BY RowParts DEF StatesOK, DatasetOK, RowsHaveTables, Ids, Excused
<1> HIDE DEF p, t, d
<1>7. t.gone \subseteq u.gone
  BY <1>5
<1>8. s.op \in Creating => \A v \in ToSet(p) : v.op \in Creating
  BY <1>1, <1>4
<1>9. t.added # {} => s.op \in Creating
  BY <1>1, <1>2 DEF CreationInv
<1>10. s.op = "create" => RowOf(a, s.arg) \in t.added
  BY <1>1, <1>2 DEF CreationInv
<1>11. ProgramInv(a, status[a], q, u)
  <2> SUFFICES ASSUME a \notin Writers
               PROVE  u.gone = {} /\ \A v \in ToSet(q) : v.op \notin {"clear", "remove"}
    BY <1>1, <1>4 DEF ProgramInv
  <2>1. t.gone = {} /\ \A v \in ToSet(p) : v.op \notin {"clear", "remove"}
    BY <1>2 DEF ProgramInv
  <2>2. s.op \notin {"clear", "remove"}
    BY <1>1, <2>1
  <2>3. u.gone = {}
    BY <1>5, <2>1, <2>2
  <2>4. ASSUME NEW v \in ToSet(q) PROVE v.op \notin {"clear", "remove"}
    BY <1>1, <1>3, <2>1, <2>2
  <2> QED BY <2>3, <2>4
<1>12. CreationInv(a, q, u)
  <2>1. ASSUME u.added # {} PROVE \A v \in ToSet(q) : v.op \in Creating
    <3>1. s.op \in Creating
      BY <1>5, <1>9, <2>1 DEF Creating
    <3>2. d = << >>
      BY <1>3, <3>1 DEF Creating
    <3>3. ToSet(d) = {}
      BY <3>2 DEF ToSet
    <3> QED BY <1>1, <1>4, <3>1, <3>3
  <2>2. ASSUME q # << >>, q[1].op = "create"
        PROVE  RowOf(a, q[1].arg) \in u.added /\ \A k \in DOMAIN u.tabs : u.tabs[k] # <<a, q[1].arg.key>>
    <3>1. s.op = "insert" /\ s.arg = q[1].arg
      BY <1>4, <2>2
    <3>2. ASSUME NEW k \in DOMAIN u.tabs, u.tabs[k] = <<a, s.arg.key>> PROVE FALSE
      <4>1. k \in DOMAIN t.tabs /\ t.tabs[k] = <<a, s.arg.key>>
        BY <1>6, <3>1, <3>2
      <4>2. t.tabs[k] # NoTable
        <5>1. s.arg.key \in Keys
          BY <1>1, <3>1, StatementParts, SheetParts
        <5> QED BY <4>1, <5>1, SheetsAssumption
      <4>3. PICK r \in t.added : r.id = t.tabs[k]
        BY <1>2, <4>1, <4>2 DEF CreationInv
      <4>4. r.id = <<a, r.key>>
        BY <1>2 DEF CreationInv
      <4>5. r.key = s.arg.key
        BY <4>1, <4>3, <4>4
      <4> QED BY <1>1, <3>1, <4>5
    <3> QED BY <1>5, <3>1, <3>2
  <2>3. ASSUME NEW r \in u.added
        PROVE  /\ r.id = <<a, r.key>>
               /\ \/ q # << >> /\ q[1].op = "create" /\ r = RowOf(a, q[1].arg)
                  \/ RelationFor(r) \in DOMAIN u.tabs /\ u.tabs[RelationFor(r)] = r.id
    <3>1. CASE r \in t.added
      <4>1. r.id = <<a, r.key>>
        BY <1>2, <3>1 DEF CreationInv
      <4>2. CASE p[1].op = "create" /\ r = RowOf(a, p[1].arg)
        <5>1. s.op = "create" /\ r = RowOf(a, s.arg)
          BY <1>1, <4>2
        <5>2. r.key = s.arg.key /\ RelationFor(r) = RelationFor(s.arg)
          BY <5>1 DEF RowOf, RelationFor
        <5> QED BY <1>6, <4>1, <5>1, <5>2
      <4>3. CASE RelationFor(r) \in DOMAIN t.tabs /\ t.tabs[RelationFor(r)] = r.id
        <5>1. s.op # "drop"
          BY <1>9, <3>1 DEF Creating
        <5>2. s.op = "create" => RelationFor(r) # RelationFor(s.arg)
          <6>1. r.id # NoTable
            <7>1. r \in TableRows
              BY <1>1, <3>1 DEF Transactions
            <7> QED BY <7>1, RowParts
          <6> QED BY <1>1, <4>3, <6>1
        <5> QED BY <1>6, <4>1, <4>3, <5>1, <5>2
      <4> QED BY <1>2, <3>1, <4>1, <4>2, <4>3 DEF CreationInv
    <3>2. CASE r \notin t.added
      <4>1. s.op = "insert" /\ r = RowOf(a, s.arg)
        BY <1>5, <3>2
      <4>2. r.id = <<a, r.key>>
        BY <4>1 DEF RowOf
      <4> QED BY <1>4, <4>1, <4>2
    <3> QED BY <3>1, <3>2
  <2>4. ASSUME NEW r \in u.added, NEW v \in u.added, r.key = v.key PROVE r = v
    <3>1. CASE r \in t.added /\ v \in t.added
      BY <1>2, <2>4, <3>1 DEF CreationInv
    <3>2. CASE ~(r \in t.added /\ v \in t.added)
      <4>1. s.op = "insert" /\ RowOf(a, s.arg).key = s.arg.key
        BY <1>5, <3>2 DEF RowOf
      <4> QED BY <1>1, <1>5, <2>4, <3>2, <4>1
    <3> QED BY <3>1, <3>2
  <2>5. ASSUME NEW k \in DOMAIN u.tabs, u.tabs[k] # NoTable
        PROVE  \E r \in u.added : r.id = u.tabs[k] /\ RelationFor(r) = k
    <3>1. CASE k \in DOMAIN t.tabs /\ u.tabs[k] = t.tabs[k]
      <4>1. PICK r \in t.added : r.id = t.tabs[k] /\ RelationFor(r) = k
        BY <1>2, <2>5, <3>1 DEF CreationInv
      <4> QED BY <1>5, <3>1, <4>1
    <3>2. CASE k = RelationFor(s.arg) /\ s.op = "create" /\ u.tabs[k] = <<a, s.arg.key>>
      <4>1. RowOf(a, s.arg) \in u.added
        BY <1>5, <1>10, <3>2
      <4>2. RowOf(a, s.arg).id = u.tabs[k] /\ RelationFor(RowOf(a, s.arg)) = k
        BY <3>2 DEF RowOf, RelationFor
      <4> QED BY <4>1, <4>2
    <3> QED BY <1>6, <2>5, <3>1, <3>2
  <2> QED BY <2>1, <2>2, <2>3, <2>4, <2>5 DEF CreationInv
<1>13. \A r \in rows : Going(p, t, r) => Going(q, u, r)
  <2> SUFFICES ASSUME NEW r \in rows, Going(p, t, r) PROVE Going(q, u, r)
    OBVIOUS
  <2>1. CASE r.id \in t.gone
    BY <1>7, <2>1 DEF Going
  <2>2. CASE Pending(p, "remove", r.id)
    <3>1. [op |-> "remove", arg |-> r.id] \in {s} \cup ToSet(Tail(p))
      BY <1>1, <2>2 DEF Pending
    <3>2. CASE [op |-> "remove", arg |-> r.id] = s
      <4>1. s.op = "remove" /\ s.arg = r.id
        BY <3>2
      <4> QED BY <1>5, <1>r, <4>1 DEF Going
    <3>3. CASE [op |-> "remove", arg |-> r.id] \in ToSet(Tail(p))
      BY <1>1, <3>3 DEF Going, Pending
    <3> QED BY <3>1, <3>2, <3>3
  <2>3. CASE PendingClear(p, r.file)
    <3>1. PICK v \in {s} \cup ToSet(Tail(p)) : v.op = "clear" /\ r.file \in v.arg
      BY <1>1, <2>3 DEF PendingClear
    <3>2. CASE v = s
      BY <1>1, <1>3, <3>1, <3>2 DEF Going, Pending
    <3>3. CASE v \in ToSet(Tail(p))
      BY <1>1, <3>1, <3>3 DEF Going, PendingClear
    <3> QED BY <3>2, <3>3
  <2> QED BY <2>1, <2>2, <2>3 DEF Going
<1>14. \A r \in rows : Going(q, u, r) => Going(p, t, r)
  <2> SUFFICES ASSUME NEW r \in rows, Going(q, u, r) PROVE Going(p, t, r)
    OBVIOUS
  <2>1. CASE r.id \in u.gone
    <3>1. CASE r.id \in t.gone
      BY <3>1 DEF Going
    <3>2. CASE r.id \notin t.gone
      <4>1. s.op = "remove" /\ s.arg = r.id
        BY <1>5, <2>1, <3>2
      <4>2. s = [op |-> "remove", arg |-> r.id]
        BY <1>1, <4>1, StatementParts
      <4> QED BY <1>1, <4>2 DEF Going, Pending
    <3> QED BY <3>1, <3>2
  <2>2. CASE Pending(q, "remove", r.id)
    <3>1. CASE [op |-> "remove", arg |-> r.id] \in ToSet(d)
      BY <1>1, <1>3, <3>1 DEF Going, PendingClear
    <3>2. CASE [op |-> "remove", arg |-> r.id] \in ToSet(Tail(p))
      BY <1>1, <3>2 DEF Going, Pending
    <3> QED BY <1>1, <2>2, <3>1, <3>2 DEF Pending
  <2>3. CASE PendingClear(q, r.file)
    <3>1. PICK v \in ToSet(d) \cup ToSet(Tail(p)) : v.op = "clear" /\ r.file \in v.arg
      BY <1>1, <2>3 DEF PendingClear
    <3>2. v \in ToSet(Tail(p))
      BY <1>3, <3>1
    <3> QED BY <1>1, <3>1, <3>2 DEF Going, PendingClear
  <2> QED BY <2>1, <2>2, <2>3 DEF Going
<1>d. DroppedInv(rows, overlapped, q)
  <2> SUFFICES ASSUME NEW k \in Relations, Pending(q, "drop", k)
               PROVE  /\ \E v \in ToSet(Sheets) : RelationFor(v) = k /\ PendingClear(q, v.file)
                      /\ \A r \in rows : RelationFor(r) = k =>
                           PendingClear(q, r.file) \/ Excused(overlapped, k)
    BY DEF DroppedInv
  <2>1. [op |-> "drop", arg |-> k] \in ToSet(Tail(p))
    BY <1>1, <1>3 DEF Pending
  <2>2. Pending(p, "drop", k)
    BY <1>1, <2>1 DEF Pending
  <2>3. s.op # "clear"
    BY <1>4, <2>1 DEF Deleting
  <2>4. \A f : PendingClear(p, f) => PendingClear(q, f)
    BY <1>1, <2>3 DEF PendingClear
  <2> QED BY <1>2, <2>2, <2>4 DEF DroppedInv
<1>15. DropInv(rows, tables, overlapped, q, u)
  <2> SUFFICES ASSUME NEW k \in DOMAIN u.tabs
               PROVE  /\ tables[k] = NoTable => u.tabs[k] # NoTable
                      /\ \A r \in rows : RelationFor(r) = k => Going(q, u, r) \/ Excused(overlapped, k)
    BY DEF DropInv
  <2>1. CASE k \in DOMAIN t.tabs /\ u.tabs[k] = t.tabs[k]
    BY <1>2, <1>13, <2>1 DEF DropInv
  <2>2. CASE k = s.arg /\ s.op = "drop" /\ tables[k] # NoTable /\ u.tabs[k] = NoTable
    <3>1. Pending(p, "drop", k) /\ k \in Relations
      BY <1>1, <2>2, StatementParts DEF Pending
    <3>2. \A f : PendingClear(p, f) => PendingClear(q, f)
      BY <1>1, <2>2 DEF PendingClear
    <3> QED BY <1>2, <2>2, <3>1, <3>2 DEF DroppedInv, Going
  <2>3. CASE k = RelationFor(s.arg) /\ s.op = "create" /\ u.tabs[k] = <<a, s.arg.key>>
    <3>1. <<a, s.arg.key>> # NoTable
      <4>1. s.arg.key \in Keys
        BY <1>1, <2>3, StatementParts, SheetParts
      <4> QED BY <4>1, SheetsAssumption
    <3>2. CASE k \in DOMAIN t.tabs
      BY <1>2, <1>13, <2>3, <3>1, <3>2 DEF DropInv
    <3>3. CASE k \notin DOMAIN t.tabs
      <4>1. tables[k] = NoTable
        BY <1>1, <2>3, <3>3
      <4> QED BY <1>r, <2>3, <3>1, <4>1
    <3> QED BY <3>2, <3>3
  <2> QED BY <1>6, <2>1, <2>2, <2>3
<1>16. SelectedInv(rows, overlapped, q, u)
  <2> SUFFICES ASSUME NEW r \in rows, Going(q, u, r)
               PROVE  \/ Pending(q, "drop", RelationFor(r))
                      \/ RelationFor(r) \in DOMAIN u.tabs \/ RelationFor(r) \in overlapped
    BY DEF SelectedInv
  <2>1. Pending(p, "drop", RelationFor(r)) \/ RelationFor(r) \in DOMAIN t.tabs \/ RelationFor(r) \in overlapped
    BY <1>2, <1>14 DEF SelectedInv
  <2>2. CASE Pending(p, "drop", RelationFor(r))
    <3>1. CASE s = [op |-> "drop", arg |-> RelationFor(r)]
      BY <1>6, <1>r, <3>1 DEF Excused
    <3>2. CASE s # [op |-> "drop", arg |-> RelationFor(r)]
      BY <1>1, <2>2, <3>2 DEF Pending
    <3> QED BY <3>1, <3>2
  <2> QED BY <1>6, <2>1, <2>2
<1>17. KeyInv(rows, u)
  <2> SUFFICES ASSUME NEW r \in u.added, NEW v \in rows, v.key = r.key PROVE v.id \in u.gone
    BY DEF KeyInv
  <2>1. CASE r \in t.added
    BY <1>2, <1>7, <2>1 DEF KeyInv
  <2>2. CASE r \notin t.added
    <3>1. s.op = "insert" /\ r = RowOf(a, s.arg)
      BY <1>5, <2>2
    <3>2. r.key = s.arg.key
      BY <3>1 DEF RowOf
    <3> QED BY <1>1, <1>7, <3>1, <3>2
  <2> QED BY <2>1, <2>2
<1>18. LockInv(tables, u)
  BY <1>1, <1>2, <1>5 DEF LockInv
<1> QED BY <1>11, <1>12, <1>d, <1>15, <1>16, <1>17, <1>18

\* What an actor locks nobody else has locked.
LEMMA ExecuteExclusive ==
  ASSUME StatesOK, DatasetOK, NEW a \in Actors, Execute(a), ActorInv(a),
         NEW b \in Actors, b # a, ActorInv(b),
         ExclusiveInv(tx[a], tx[b]), ExclusiveInv(tx[b], tx[a]),
         NEW u, u = Effect(a)
  PROVE  ExclusiveInv(u, tx[b]) /\ ExclusiveInv(tx[b], u)
<1> DEFINE t == tx[a]
           w == tx[b]
           s == Statement(a)
<1>0. MayRun(a, s, t) /\ Adds(a, s, t, u)
  BY StatementRuns
<1> HIDE DEF t, s
<1>1. /\ t \in Transactions /\ s \in Statements
      /\ status[b] = "running" => ~Holds(b, s)
      /\ s.op = "create" => tables[RelationFor(s.arg)] = NoTable \/ RelationFor(s.arg) \in DOMAIN t.tabs
      /\ s.op = "read" => tables[s.arg] # NoTable
  BY <1>0 DEF MayRun
<1>2. /\ u.added = IF s.op = "insert" THEN t.added \cup {RowOf(a, s.arg)} ELSE t.added
      /\ u.shared = IF s.op = "read" THEN t.shared \cup {s.arg} ELSE t.shared
  BY <1>0 DEF Adds
<1>3. \A k \in DOMAIN u.tabs :
        \/ k \in DOMAIN t.tabs
        \/ k = s.arg /\ s.op = "drop" /\ tables[k] # NoTable
        \/ k = RelationFor(s.arg) /\ s.op = "create"
  <2>1. TabsAfter(a, s, t, u)
    BY <1>0, <1>1, AddsTabs
  <2> QED BY <2>1 DEF TabsAfter
<1>4. /\ DropInv(rows, tables, overlapped, program[b], w) /\ LockInv(tables, w)
      /\ status[b] # "running" => w = Clean
  BY DEF ActorInv, ProgramInv
<1>5. /\ DOMAIN t.tabs \cap DOMAIN w.tabs = {}
      /\ t.shared \cap DOMAIN w.tabs = {} /\ w.shared \cap DOMAIN t.tabs = {}
      /\ \A r \in t.added, v \in w.added : r.key # v.key
  BY DEF ExclusiveInv, t
<1>6. CASE status[b] # "running"
  <2>1. DOMAIN w.tabs = {} /\ w.shared = {} /\ w.added = {}
    BY <1>4, <1>6 DEF Clean
  <2> QED BY <2>1 DEF ExclusiveInv
<1>7. CASE status[b] = "running"
  <2>1. ~Holds(b, s)
    BY <1>1, <1>7
  <2>2. s.op = "drop" /\ tables[s.arg] # NoTable => s.arg \notin DOMAIN w.tabs /\ s.arg \notin w.shared
    BY <2>1 DEF Holds, Dropped
  <2>3. s.op = "create" => RelationFor(s.arg) \notin DOMAIN w.tabs /\ RelationFor(s.arg) \notin w.shared
    <3> SUFFICES ASSUME s.op = "create" PROVE RelationFor(s.arg) \notin DOMAIN w.tabs /\ RelationFor(s.arg) \notin w.shared
      OBVIOUS
    <3>1. ~(RelationFor(s.arg) \in Created(b) /\ tables[RelationFor(s.arg)] = NoTable)
      BY <2>1 DEF Holds
    <3>2. CASE tables[RelationFor(s.arg)] = NoTable
      <4>1. RelationFor(s.arg) \notin DOMAIN w.tabs
        BY <1>4, <3>1, <3>2 DEF Created, DropInv
      <4>2. RelationFor(s.arg) \notin w.shared
        BY <1>4, <3>2 DEF LockInv
      <4> QED BY <4>1, <4>2
    <3>3. CASE RelationFor(s.arg) \in DOMAIN t.tabs
      BY <1>5, <3>3
    <3> QED BY <1>1, <3>2, <3>3
  <2>4. s.op = "read" => s.arg \notin DOMAIN w.tabs
    BY <1>1, <2>1 DEF Holds, Dropped
  <2>5. s.op = "insert" => \A v \in w.added : v.key # s.arg.key
    BY <2>1 DEF Holds
  <2>6. DOMAIN u.tabs \cap DOMAIN w.tabs = {} /\ w.shared \cap DOMAIN u.tabs = {}
    BY <1>3, <1>5, <2>2, <2>3
  <2>7. u.shared \cap DOMAIN w.tabs = {}
    BY <1>2, <1>5, <2>4
  <2>8. \A r \in u.added, v \in w.added : r.key # v.key
    BY <1>2, <1>5, <2>5 DEF RowOf
  <2>9. ExclusiveInv(u, w)
    BY <2>6, <2>7, <2>8 DEF ExclusiveInv
  <2>10. ExclusiveInv(w, u)
    <3>1. \A v \in w.added, r \in u.added : v.key # r.key
      BY <2>8
    <3> HIDE DEF w
    <3> QED BY <2>6, <3>1 DEF ExclusiveInv
  <2> QED BY <2>9, <2>10
<1> QED BY <1>6, <1>7

\* A step of another actor that leaves the dataset alone leaves an actor alone.
LEMMA OtherStays ==
  ASSUME NEW b \in Actors, ActorInv(b), UNCHANGED <<rows, tables, overlapped>>,
         status'[b] = status[b], program'[b] = program[b], tx'[b] = tx[b],
         b \in Readers \cup Queries => seen'[b] = seen[b]
  PROVE  ActorInv(b)'
BY DEF ActorInv

\* The same of what is asked of the dataset alone.
LEMMA DatasetStays ==
  ASSUME DatasetOK, UNCHANGED <<rows, tables, overlapped>>
  PROVE  DatasetOK'
<1>1. RowsHaveTables'
  BY DEF DatasetOK, RowsHaveTables
<1>2. Orphans' = Orphans
  BY DEF Orphans
<1> QED BY <1>1, <1>2 DEF DatasetOK

\* Executing a statement preserves the invariant.
LEMMA ExecuteKeeps ==
  ASSUME IInv, NEW a \in Actors, Execute(a)
  PROVE  IInv'
<1> DEFINE s == Statement(a)
           u == Effect(a)
           q == Deletion(s) \o Tail(program[a])
<1>1. /\ UNCHANGED <<rows, tables, joins, status, schema, overlapped>>
      /\ tx' = [tx EXCEPT ![a] = u]
      /\ program' = [program EXCEPT ![a] = q]
      /\ seen' = IF s.op = "read" THEN [seen EXCEPT ![a] = With(@, s.arg, tables[s.arg])] ELSE seen
  BY DEF Execute
<1>2. /\ StatesOK /\ DatasetOK /\ ActorInv(a)
      /\ \A b \in Actors : ActorInv(b)
      /\ \A b, c \in Actors : b # c => ExclusiveInv(tx[b], tx[c])
  BY DEF IInv
<1>3. MayRun(a, s, tx[a]) /\ Becomes(program[a], s, q) /\ Adds(a, s, tx[a], u)
  BY <1>2, StatementRuns
<1>4. /\ ProgramInv(a, status[a], q, u) /\ CreationInv(a, q, u)
      /\ DroppedInv(rows, overlapped, q) /\ DropInv(rows, tables, overlapped, q, u)
      /\ SelectedInv(rows, overlapped, q, u) /\ KeyInv(rows, u) /\ LockInv(tables, u)
  BY <1>2, ExecuteOwn
<1>5. \A b \in Actors : b # a => ExclusiveInv(u, tx[b]) /\ ExclusiveInv(tx[b], u)
  BY <1>2, ExecuteExclusive
<1> HIDE DEF s, u, q
<1>6. /\ s \in Statements /\ status[a] = "running" /\ q \in Seq(Statements)
      /\ u \in Transactions /\ IsFiniteSet(u.approved) /\ IsFiniteSet(u.added)
      /\ u.shared = IF s.op = "read" THEN tx[a].shared \cup {s.arg} ELSE tx[a].shared
  BY <1>3 DEF MayRun, Becomes, Adds
<1>7. /\ tx'[a] = u /\ program'[a] = q
      /\ \A b \in Actors : b # a => tx'[b] = tx[b] /\ program'[b] = program[b]
      /\ \A b \in Readers \cup Queries : b # a => seen'[b] = seen[b]
      /\ a \in Readers \cup Queries =>
           seen'[a] = IF s.op = "read" THEN With(seen[a], s.arg, tables[s.arg]) ELSE seen[a]
  BY <1>1, <1>2 DEF StatesOK
<1>8. a \in Readers \cup Queries /\ s.op = "read" => HasEntry(seen'[a], seen[a], s.arg, tables[s.arg])
  <2> SUFFICES ASSUME a \in Readers \cup Queries, s.op = "read"
               PROVE  HasEntry(seen'[a], seen[a], s.arg, tables[s.arg])
    OBVIOUS
  <2>1. s.arg \in Relations
    BY <1>6, StatementParts
  <2>2. seen[a] \in PartialTables /\ tables[s.arg] \in RowIds \cup {NoTable}
    BY <1>2, <2>1 DEF StatesOK
  <2>3. HasEntry(With(seen[a], s.arg, tables[s.arg]), seen[a], s.arg, tables[s.arg])
    BY <2>1, <2>2, WithEntry
  <2> QED BY <1>7, <2>3
<1>9. StatesOK'
  <2>1. tx' \in [Actors -> Transactions]
    BY <1>1, <1>2, <1>6 DEF StatesOK
  <2>2. program' \in [Actors -> Seq(Statements)]
    BY <1>1, <1>2, <1>6 DEF StatesOK
  <2>3. seen' \in [Readers \cup Queries -> PartialTables]
    <3>1. CASE s.op = "read" /\ a \in Readers \cup Queries
      BY <1>1, <1>2, <1>7, <1>8, <3>1 DEF StatesOK, HasEntry
    <3>2. CASE ~(s.op = "read" /\ a \in Readers \cup Queries)
      BY <1>1, <1>2, <3>2 DEF StatesOK
    <3> QED BY <3>1, <3>2
  <2>4. \A b \in Actors : IsFiniteSet(tx'[b].approved) /\ IsFiniteSet(tx'[b].added)
    BY <1>2, <1>6, <1>7 DEF StatesOK
  <2> QED BY <1>1, <1>2, <2>1, <2>2, <2>3, <2>4 DEF StatesOK
<1>10. DatasetOK'
  BY <1>1, <1>2, DatasetStays
<1>11. ASSUME NEW b \in Actors PROVE ActorInv(b)'
  <2>1. CASE b = a
    <3>1. ASSUME a \in Readers \cup Queries PROVE ReadInv(tables, status[a], u, seen'[a])
      <4>1. ReadInv(tables, status[a], tx[a], seen[a])
        BY <1>2, <3>1 DEF ActorInv
      <4>2. CASE s.op = "read"
        <5>1. HasEntry(seen'[a], seen[a], s.arg, tables[s.arg])
          BY <1>8, <3>1, <4>2
        <5> QED BY <1>6, <4>1, <4>2, <5>1 DEF ReadInv, HasEntry
      <4>3. CASE s.op # "read"
        BY <1>6, <1>7, <3>1, <4>1, <4>3 DEF ReadInv
      <4> QED BY <4>2, <4>3
    <3> QED BY <1>1, <1>4, <1>7, <2>1, <3>1 DEF ActorInv
  <2>2. CASE b # a
    BY <1>1, <1>2, <1>7, <2>2, OtherStays
  <2> QED BY <2>1, <2>2
<1>12. ASSUME NEW b \in Actors, NEW c \in Actors, b # c PROVE ExclusiveInv(tx'[b], tx'[c])
  BY <1>2, <1>5, <1>7, <1>12
<1> QED BY <1>9, <1>10, <1>11, <1>12 DEF IInv

-----------------------------------------------------------------------------
(* A transaction that is rolled back *)

\* A transaction that does nothing is in nobody's way.
LEMMA CleanExcludes ==
  ASSUME NEW t
  PROVE  ExclusiveInv(Clean, t) /\ ExclusiveInv(t, Clean)
<1>1. DOMAIN Clean.tabs = {} /\ Clean.shared = {} /\ Clean.added = {}
  BY DEF Clean
<1> QED BY <1>1 DEF ExclusiveInv

\* A program that is at its end.
LEMMA EmptyIsWellFormed == WellFormed(<< >>) /\ ToSet(<< >>) = {}
<1>1. DOMAIN << >> = {}
  OBVIOUS
<1> QED BY <1>1 DEF WellFormed, ToSet

\* An actor that is not at work has nothing to do and nothing to keep.
LEMMA RestingActor ==
  ASSUME NEW a, NEW st, st # "running", NEW R, NEW T, NEW O,
         NEW read, st = "idle" => DOMAIN read = {}
  PROVE  /\ ProgramInv(a, st, << >>, Clean) /\ CreationInv(a, << >>, Clean)
         /\ DroppedInv(R, O, << >>) /\ DropInv(R, T, O, << >>, Clean)
         /\ SelectedInv(R, O, << >>, Clean) /\ KeyInv(R, Clean) /\ LockInv(T, Clean) /\ ReadInv(T, st, Clean, read)
<1>1. DOMAIN Clean.tabs = {} /\ Clean.shared = {} /\ Clean.added = {} /\ Clean.gone = {}
  BY DEF Clean
<1>3. ProgramInv(a, st, << >>, Clean)
  BY <1>1, EmptyIsWellFormed DEF ProgramInv
<1>4. CreationInv(a, << >>, Clean)
  BY <1>1 DEF CreationInv
<1>2. DroppedInv(R, O, << >>)
  BY EmptyIsWellFormed DEF DroppedInv, Pending
<1>5. DropInv(R, T, O, << >>, Clean) /\ KeyInv(R, Clean) /\ LockInv(T, Clean) /\ ReadInv(T, st, Clean, read)
  BY <1>1 DEF DropInv, KeyInv, LockInv, ReadInv
<1>6. SelectedInv(R, O, << >>, Clean)
  BY <1>1, EmptyIsWellFormed DEF SelectedInv, Going, Pending, PendingClear
<1> QED BY <1>2, <1>3, <1>4, <1>5, <1>6

\* A rollback preserves the invariant: the transaction never was.
LEMMA RollBackKeeps ==
  ASSUME IInv, NEW a \in Actors, NEW error \in Errors, status[a] = "running", RollBack(a, error)
  PROVE  IInv'
<1>1. /\ UNCHANGED <<rows, tables, joins, schema, seen, overlapped>>
      /\ status' = [status EXCEPT ![a] = error]
      /\ program' = [program EXCEPT ![a] = << >>]
      /\ tx' = [tx EXCEPT ![a] = Clean]
  BY DEF RollBack
<1>2. /\ StatesOK /\ DatasetOK
      /\ \A b \in Actors : ActorInv(b)
      /\ \A b, c \in Actors : b # c => ExclusiveInv(tx[b], tx[c])
  BY DEF IInv
<1>3. /\ tx'[a] = Clean /\ program'[a] = << >> /\ status'[a] = error
      /\ \A b \in Actors : b # a =>
           tx'[b] = tx[b] /\ program'[b] = program[b] /\ status'[b] = status[b]
  BY <1>1, <1>2 DEF StatesOK
<1>4. error \notin {"running", "idle"}
  BY DEF Errors
<1>5. StatesOK'
  <2>1. tx' \in [Actors -> Transactions]
    BY <1>1, <1>2, CleanIsATransaction DEF StatesOK
  <2>2. program' \in [Actors -> Seq(Statements)]
    <3>1. << >> \in Seq(Statements)
      OBVIOUS
    <3> QED BY <1>1, <1>2, <3>1 DEF StatesOK
  <2>3. status' \in [Actors -> {"idle", "running", "committed"} \cup Errors]
    BY <1>1, <1>2 DEF StatesOK
  <2>4. \A b \in Actors : IsFiniteSet(tx'[b].approved) /\ IsFiniteSet(tx'[b].added)
    <3>1. IsFiniteSet(Clean.approved) /\ IsFiniteSet(Clean.added)
      BY FS_EmptySet DEF Clean
    <3> QED BY <1>2, <1>3, <3>1 DEF StatesOK
  <2> QED BY <1>1, <1>2, <2>1, <2>2, <2>3, <2>4 DEF StatesOK
<1>6. DatasetOK'
  BY <1>1, <1>2, DatasetStays
<1>7. ASSUME NEW b \in Actors PROVE ActorInv(b)'
  <2>1. CASE b = a
    BY <1>3, <1>4, <2>1, RestingActor DEF ActorInv
  <2>2. CASE b # a
    BY <1>1, <1>2, <1>3, <2>2, OtherStays
  <2> QED BY <2>1, <2>2
<1>8. ASSUME NEW b \in Actors, NEW c \in Actors, b # c PROVE ExclusiveInv(tx'[b], tx'[c])
  BY <1>2, <1>3, <1>8, CleanExcludes
<1> QED BY <1>5, <1>6, <1>7, <1>8 DEF IInv

\* A fault is one of the errors.
LEMMA FaultIsAnError ==
  ASSUME NEW a, Fault(a) # "none"
  PROVE  Fault(a) \in Errors
BY DEF Fault, Errors

\* A transaction that fails, is chosen in a deadlock or dies is rolled back.
LEMMA EndingsKeep ==
  ASSUME IInv, NEW a \in Actors, Fail(a) \/ DetectDeadlock(a) \/ Crash(a)
  PROVE  IInv'
<1>1. CASE Fail(a)
  <2>1. Fault(a) \in Errors /\ status[a] = "running" /\ RollBack(a, Fault(a))
    BY <1>1, FaultIsAnError DEF Fail, Running
  <2> QED BY <2>1, RollBackKeeps
<1>2. CASE DetectDeadlock(a)
  <2>1. status[a] = "running" /\ RollBack(a, "deadlock_detected")
    BY <1>2 DEF DetectDeadlock, Deadlocked, Blockers, Running
  <2>2. "deadlock_detected" \in Errors
    BY DEF Errors
  <2> QED BY <2>1, <2>2, RollBackKeeps
<1>3. CASE Crash(a)
  <2>1. status[a] = "running" /\ RollBack(a, "crashed")
    BY <1>3 DEF Crash, Running
  <2>2. "crashed" \in Errors
    BY DEF Errors
  <2> QED BY <2>1, <2>2, RollBackKeeps
<1> QED BY <1>1, <1>2, <1>3

-----------------------------------------------------------------------------
(* A transaction that commits *)

\* What a transaction with nothing left to run has done: the tables it made are
\* those of the rows it added, the rows of the tables it dropped are gone, and a
\* row gone without its table is known to have been committed late.
Complete(a, t) ==
  /\ \A r \in t.added : r.id = <<a, r.key>> /\ RelationFor(r) \in DOMAIN t.tabs /\ t.tabs[RelationFor(r)] = r.id
  /\ \A r, s \in t.added : r.key = s.key => r = s
  /\ \A k \in DOMAIN t.tabs : t.tabs[k] # NoTable =>
       \E r \in t.added : r.id = t.tabs[k] /\ RelationFor(r) = k
  /\ \A r \in rows : RelationFor(r) \in DOMAIN t.tabs =>
       r.id \in t.gone \/ Excused(overlapped, RelationFor(r))
  /\ \A r \in rows : r.id \in t.gone => RelationFor(r) \in DOMAIN t.tabs \/ RelationFor(r) \in overlapped
  /\ KeyInv(rows, t)

\* A program at its end leaves its transaction complete.
LEMMA CommitsComplete ==
  ASSUME NEW a \in Actors, ActorInv(a), program[a] = << >>
  PROVE  Complete(a, tx[a])
<1>1. /\ CreationInv(a, << >>, tx[a]) /\ DropInv(rows, tables, overlapped, << >>, tx[a])
      /\ SelectedInv(rows, overlapped, << >>, tx[a]) /\ KeyInv(rows, tx[a])
  BY DEF ActorInv
<1>2. \A r : Going(<< >>, tx[a], r) <=> r.id \in tx[a].gone
  BY EmptyIsWellFormed DEF Going, Pending, PendingClear
<1>3. \A k : ~Pending(<< >>, "drop", k)
  BY EmptyIsWellFormed DEF Pending
<1>4. /\ \A r \in rows : RelationFor(r) \in DOMAIN tx[a].tabs =>
           r.id \in tx[a].gone \/ Excused(overlapped, RelationFor(r))
      /\ \A r \in rows : r.id \in tx[a].gone =>
           RelationFor(r) \in DOMAIN tx[a].tabs \/ RelationFor(r) \in overlapped
  BY <1>1, <1>2, <1>3 DEF DropInv, SelectedInv
<1>5. /\ \A r \in tx[a].added :
           r.id = <<a, r.key>> /\ RelationFor(r) \in DOMAIN tx[a].tabs /\ tx[a].tabs[RelationFor(r)] = r.id
      /\ \A r, s \in tx[a].added : r.key = s.key => r = s
      /\ \A k \in DOMAIN tx[a].tabs : tx[a].tabs[k] # NoTable =>
           \E r \in tx[a].added : r.id = tx[a].tabs[k] /\ RelationFor(r) = k
  BY <1>1 DEF CreationInv
<1> QED BY <1>1, <1>4, <1>5 DEF Complete

\* A commit preserves the invariant: it publishes a complete transaction.
LEMMA CommitKeeps ==
  ASSUME IInv, NEW a \in Actors, Commit(a)
  PROVE  IInv'
<1> DEFINE t == tx[a]
<1>1. /\ status[a] = "running" /\ program[a] = << >>
      /\ rows' = {r \in rows : r.id \notin t.gone} \cup t.added
      /\ tables' = [k \in Relations |-> IF k \in DOMAIN t.tabs THEN t.tabs[k] ELSE tables[k]]
      /\ joins' = (joins \ t.wiped) \cup t.approved
      /\ overlapped' = overlapped \cup IF WriterBeside(a) THEN RelationsOf(t.added) ELSE {}
      /\ status' = [status EXCEPT ![a] = "committed"]
      /\ tx' = [tx EXCEPT ![a] = Clean]
      /\ UNCHANGED <<program, schema, seen>>
  BY DEF Commit, Running
<1>2. /\ StatesOK /\ DatasetOK
      /\ \A b \in Actors : ActorInv(b)
      /\ \A b, c \in Actors : b # c => ExclusiveInv(tx[b], tx[c])
  BY DEF IInv
<1>3. /\ tx'[a] = Clean /\ program'[a] = << >> /\ status'[a] = "committed"
      /\ \A b \in Actors : b # a =>
           tx'[b] = tx[b] /\ program'[b] = program[b] /\ status'[b] = status[b]
  BY <1>1, <1>2 DEF StatesOK
<1>4. Complete(a, t)
  BY <1>1, <1>2, CommitsComplete
<1>5. /\ t \in Transactions /\ IsFiniteSet(t.approved) /\ IsFiniteSet(t.added) /\ t.added \subseteq TableRows
      /\ t.tabs \in PartialTables /\ t.approved \subseteq Links
  BY <1>2 DEF StatesOK, Transactions
<1>6. DOMAIN t.tabs \subseteq Relations /\ \A k \in DOMAIN t.tabs : t.tabs[k] \in RowIds \cup {NoTable}
  BY <1>5 DEF PartialTables
<1> HIDE DEF t
<1>7. StatesOK'
  <2>1. tx' \in [Actors -> Transactions]
    BY <1>1, <1>2, CleanIsATransaction DEF StatesOK
  <2>2. status' \in [Actors -> {"idle", "running", "committed"} \cup Errors]
    BY <1>1, <1>2 DEF StatesOK
  <2>3. \A b \in Actors : IsFiniteSet(tx'[b].approved) /\ IsFiniteSet(tx'[b].added)
    <3>1. IsFiniteSet(Clean.approved) /\ IsFiniteSet(Clean.added)
      BY FS_EmptySet DEF Clean
    <3> QED BY <1>2, <1>3, <3>1 DEF StatesOK
  <2>4. rows' \subseteq TableRows /\ IsFiniteSet(rows')
    <3>1. IsFiniteSet({r \in rows : r.id \notin t.gone})
      BY <1>2, FS_Subset DEF StatesOK
    <3>2. IsFiniteSet(rows')
      BY <1>1, <1>5, <3>1, FS_Union
    <3> QED BY <1>1, <1>2, <1>5, <3>2 DEF StatesOK
  <2>5. tables' \in [Relations -> RowIds \cup {NoTable}]
    BY <1>1, <1>2, <1>6 DEF StatesOK
  <2>6. joins' \subseteq Links /\ IsFiniteSet(joins')
    <3>1. IsFiniteSet(joins \ t.wiped)
      BY <1>2, FS_Subset DEF StatesOK
    <3>2. IsFiniteSet(joins')
      BY <1>1, <1>5, <3>1, FS_Union
    <3> QED BY <1>1, <1>2, <1>5, <3>2 DEF StatesOK
  <2>7. overlapped' \subseteq Relations
    BY <1>1, <1>2, <1>5, RelationsAreRelations DEF StatesOK
  <2> QED BY <1>1, <1>2, <2>1, <2>2, <2>3, <2>4, <2>5, <2>6, <2>7 DEF StatesOK
<1>8. /\ \A r \in rows : RelationFor(r) \in Relations /\ r.id[2] = r.key
                       /\ (tables[RelationFor(r)] = r.id \/ Excused(overlapped, RelationFor(r)))
      /\ \A r \in t.added : RelationFor(r) \in Relations /\ r.id[2] = r.key
  BY <1>2, <1>5, RowParts DEF StatesOK, DatasetOK, RowsHaveTables, Excused
<1>9. \A k \in Relations : tables'[k] = IF k \in DOMAIN t.tabs THEN t.tabs[k] ELSE tables[k]
  BY <1>1
<1>10. RowsHaveTables'
  <2> SUFFICES ASSUME NEW r \in rows'
               PROVE  tables'[RelationFor(r)] = r.id \/ Excused(overlapped', RelationFor(r))
    BY DEF RowsHaveTables, Excused
  <2>1. CASE r \in t.added
    BY <1>4, <1>6, <1>9, <2>1 DEF Complete
  <2>2. CASE r \in rows /\ r.id \notin t.gone
    BY <1>1, <1>4, <1>8, <1>9, <2>2 DEF Complete, Excused
  <2> QED BY <1>1, <2>1, <2>2
<1>11. DatasetOK'
  <2>1. ASSUME NEW k \in Orphans' PROVE k \in overlapped'
    <3>1. k \in Relations /\ tables'[k] # NoTable /\ \A r \in rows' : r.id # tables'[k]
      BY <2>1 DEF Orphans
    <3>2. k \notin DOMAIN t.tabs
      <4> SUFFICES ASSUME k \in DOMAIN t.tabs PROVE FALSE
        OBVIOUS
      <4>1. PICK r \in t.added : r.id = t.tabs[k]
        BY <1>4, <1>9, <3>1 DEF Complete
      <4> QED BY <1>1, <1>9, <3>1, <4>1
    <3>3. tables'[k] = tables[k] /\ tables[k] # NoTable
      BY <1>9, <3>1, <3>2
    <3>4. CASE k \in Orphans
      BY <1>1, <1>2, <3>4 DEF DatasetOK
    <3>5. CASE k \notin Orphans
      <4>1. PICK r \in rows : r.id = tables[k]
        BY <3>1, <3>3, <3>5 DEF Orphans
      <4>2. r.id \in t.gone
        BY <1>1, <3>1, <3>3, <4>1
      <4>3. RelationOf[tables[k][2]] = k
        BY <1>2, <3>1, <3>3 DEF DatasetOK
      <4>4. RelationFor(r) = k
        BY <1>8, <4>1, <4>3 DEF RelationFor
      <4> QED BY <1>1, <1>4, <3>2, <4>2, <4>4 DEF Complete
    <3> QED BY <3>4, <3>5
  <2>2. ASSUME NEW r \in rows', NEW s \in rows', r.key = s.key PROVE r = s
    <3>1. CASE r \in t.added /\ s \in t.added
      BY <1>4, <2>2, <3>1 DEF Complete
    <3>2. CASE r \in rows /\ s \in rows
      BY <1>2, <2>2, <3>2 DEF DatasetOK
    <3>3. ASSUME NEW v \in t.added, NEW w \in rows, w.id \notin t.gone PROVE v.key # w.key
      BY <1>4, <3>3 DEF Complete, KeyInv
    <3> QED BY <1>1, <2>2, <3>1, <3>2, <3>3
  <2>3. ASSUME NEW k \in Relations, tables'[k] # NoTable PROVE RelationOf[tables'[k][2]] = k
    <3>1. CASE k \in DOMAIN t.tabs
      <4>1. PICK r \in t.added : r.id = t.tabs[k] /\ RelationFor(r) = k
        BY <1>4, <1>9, <2>3, <3>1 DEF Complete
      <4> QED BY <1>8, <1>9, <3>1, <4>1 DEF RelationFor
    <3>2. CASE k \notin DOMAIN t.tabs
      BY <1>2, <1>9, <2>3, <3>2 DEF DatasetOK
    <3> QED BY <3>1, <3>2
  <2> QED BY <1>10, <2>1, <2>2, <2>3 DEF DatasetOK
<1>12. ASSUME NEW b \in Actors, b # a PROVE ActorInv(b)'
  <2> DEFINE w == tx[b]
             p == program[b]
  <2>1. /\ ProgramInv(b, status[b], p, w) /\ CreationInv(b, p, w)
        /\ DroppedInv(rows, overlapped, p) /\ DropInv(rows, tables, overlapped, p, w)
        /\ SelectedInv(rows, overlapped, p, w)
        /\ KeyInv(rows, w) /\ LockInv(tables, w)
        /\ b \in Readers \cup Queries => ReadInv(tables, status[b], w, seen[b])
    BY <1>2 DEF ActorInv
  <2>2. /\ \A k \in DOMAIN w.tabs : k \notin DOMAIN t.tabs
        /\ \A k \in w.shared : k \notin DOMAIN t.tabs
        /\ \A r \in t.added, v \in w.added : r.key # v.key
    BY <1>2, <1>12 DEF ExclusiveInv, t
  <2>3. DOMAIN w.tabs \subseteq Relations /\ w.shared \subseteq Relations
    BY <1>2 DEF StatesOK, Transactions, PartialTables
  <2> HIDE DEF w, p
  <2>4. \A r \in rows' : r \in rows \/ (r \in t.added /\ RelationFor(r) \in DOMAIN t.tabs)
    BY <1>1, <1>4 DEF Complete
  <2>5. \A k \in DOMAIN w.tabs \cup w.shared : tables'[k] = tables[k]
    BY <1>9, <2>2, <2>3
  <2>6. DropInv(rows', tables', overlapped', p, w)
    BY <1>1, <2>1, <2>2, <2>4, <2>5 DEF DropInv, Excused
  <2>w. ASSUME NEW f, PendingClear(p, f) \/ \E x : Pending(p, "remove", x) \/ x \in w.gone
        PROVE  RelationsOf(t.added) \subseteq overlapped'
    <3>1. b \in Writers
      <4> SUFFICES ASSUME b \notin Writers PROVE FALSE
        OBVIOUS
      <4>1. w.gone = {} /\ \A v \in ToSet(p) : v.op \notin {"clear", "remove"}
        BY <2>1 DEF ProgramInv
      <4> QED BY <4>1, <2>w DEF Pending, PendingClear
    <3>2. status[b] = "running"
      <4> SUFFICES ASSUME status[b] # "running" PROVE FALSE
        OBVIOUS
      <4>1. w = Clean /\ p = << >>
        BY <2>1 DEF ProgramInv
      <4> QED BY <4>1, <2>w, EmptyIsWellFormed DEF Pending, PendingClear, Clean
    <3>3. WriterBeside(a)
      BY <1>12, <3>1, <3>2 DEF WriterBeside, Writers
    <3> QED BY <1>1, <3>3
  <2>7. SelectedInv(rows', overlapped', p, w)
    <3> SUFFICES ASSUME NEW r \in rows', Going(p, w, r)
                 PROVE  \/ Pending(p, "drop", RelationFor(r))
                        \/ RelationFor(r) \in DOMAIN w.tabs \/ RelationFor(r) \in overlapped'
      BY DEF SelectedInv
    <3>1. CASE r \in rows
      BY <1>1, <2>1, <3>1 DEF SelectedInv
    <3>2. CASE r \in t.added
      <4>1. RelationsOf(t.added) \subseteq overlapped'
        BY <2>w DEF Going
      <4> QED BY <3>2, <4>1 DEF RelationsOf
    <3> QED BY <2>4, <3>1, <3>2
  <2>d. DroppedInv(rows', overlapped', p)
    <3> SUFFICES ASSUME NEW k \in Relations, Pending(p, "drop", k), NEW r \in rows', RelationFor(r) = k
                 PROVE  PendingClear(p, r.file) \/ Excused(overlapped', k)
      BY <2>1 DEF DroppedInv
    <3>1. CASE r \in rows
      BY <1>1, <2>1, <3>1 DEF DroppedInv, Excused
    <3>2. CASE r \in t.added
      <4>1. PICK s \in ToSet(Sheets) : RelationFor(s) = k /\ PendingClear(p, s.file)
        BY <2>1 DEF DroppedInv
      <4>2. k \in overlapped'
        BY <2>w, <3>2, <4>1 DEF RelationsOf
      <4>3. PICK v \in ToSet(Sheets) : v.file = r.file /\ RelationFor(v) = k
        BY <1>5, <3>2, RowParts
      <4>4. CASE v.file = s.file
        BY <4>1, <4>3, <4>4
      <4>5. CASE v.file # s.file
        BY <4>1, <4>2, <4>3, <4>5 DEF Excused, Contested
      <4> QED BY <4>4, <4>5
    <3> QED BY <2>4, <3>1, <3>2
  <2>8. KeyInv(rows', w)
    BY <2>1, <2>2, <2>4 DEF KeyInv
  <2>9. LockInv(tables', w)
    BY <2>1, <2>5 DEF LockInv
  <2>10. b \in Readers \cup Queries => ReadInv(tables', status[b], w, seen[b])
    BY <2>1, <2>5 DEF ReadInv
  <2>11. tx'[b] = w /\ program'[b] = p /\ status'[b] = status[b] /\ seen' = seen
    BY <1>1, <1>3, <1>12 DEF w, p
  <2> QED BY <2>1, <2>6, <2>7, <2>d, <2>8, <2>9, <2>10, <2>11 DEF ActorInv
<1>13. ActorInv(a)'
  BY <1>3, RestingActor DEF ActorInv
<1>14. ASSUME NEW b \in Actors, NEW c \in Actors, b # c PROVE ExclusiveInv(tx'[b], tx'[c])
  BY <1>2, <1>3, <1>14, CleanExcludes
<1> QED BY <1>7, <1>11, <1>12, <1>13, <1>14 DEF IInv

-----------------------------------------------------------------------------
(* A transaction that begins *)

\* A program p that actor a may begin with: it has dropped, deleted and created
\* nothing yet, and drops the table of every row it is to clear.
MayStart(a, p) ==
  /\ p \in Seq(Statements) /\ WellFormed(p)
  /\ p # << >> => p[1].op # "create"
  /\ a \notin Writers => \A s \in ToSet(p) : s.op # "clear"
  /\ \A s \in ToSet(p) : s.op \in OpsOf(a) \ {"remove", "cascade"}
  /\ a \in Refreshers => \A k : Pending(p, "drop", k) => k \in RelationsIn(FileOf[a])
  /\ DroppedInv(rows, overlapped, p)
  /\ \A r \in rows : PendingClear(p, r.file) => Pending(p, "drop", RelationFor(r))

\* Actor a begins program p.
Starts(a, p) ==
  /\ a \in Actors /\ MayStart(a, p) /\ Begin(a, p)
  /\ schema' \in [Readers -> SUBSET TableRows] /\ \A b \in Readers : IsFiniteSet(schema'[b])

\* Beginning a program that may start preserves the invariant.
LEMMA BeginKeeps ==
  ASSUME IInv, NEW a, NEW p, Starts(a, p)
  PROVE  IInv'
<1>0. a \in Actors /\ MayStart(a, p) /\ Begin(a, p)
      /\ schema' \in [Readers -> SUBSET TableRows] /\ \A b \in Readers : IsFiniteSet(schema'[b])
  BY DEF Starts
<1>1. /\ UNCHANGED <<rows, tables, joins, tx, seen, overlapped>> /\ status[a] = "idle"
      /\ status' = [status EXCEPT ![a] = "running"]
      /\ program' = [program EXCEPT ![a] = p]
  BY <1>0 DEF Begin
<1>2. /\ StatesOK /\ DatasetOK
      /\ \A b \in Actors : ActorInv(b)
      /\ \A b, c \in Actors : b # c => ExclusiveInv(tx[b], tx[c])
  BY DEF IInv
<1>3. /\ program'[a] = p /\ status'[a] = "running"
      /\ \A b \in Actors : b # a => program'[b] = program[b] /\ status'[b] = status[b]
  BY <1>0, <1>1, <1>2 DEF StatesOK
<1>4. tx[a] = Clean
  BY <1>0, <1>1, <1>2 DEF ActorInv, ProgramInv
<1>5. StatesOK'
  <2>1. status' \in [Actors -> {"idle", "running", "committed"} \cup Errors]
    BY <1>1, <1>2 DEF StatesOK
  <2>2. program' \in [Actors -> Seq(Statements)]
    BY <1>0, <1>1, <1>2 DEF StatesOK, MayStart
  <2> QED BY <1>0, <1>1, <1>2, <2>1, <2>2 DEF StatesOK
<1>6. DatasetOK'
  BY <1>1, <1>2, DatasetStays
<1>7. ASSUME NEW b \in Actors PROVE ActorInv(b)'
  <2>1. CASE b = a
    <3>1. DOMAIN Clean.tabs = {} /\ Clean.shared = {} /\ Clean.added = {} /\ Clean.gone = {}
      BY DEF Clean
    <3>2. ProgramInv(a, "running", p, Clean)
      BY <1>0, <3>1 DEF ProgramInv, MayStart
    <3>3. CreationInv(a, p, Clean)
      BY <1>0, <3>1 DEF CreationInv, MayStart
    <3>d. DroppedInv(rows, overlapped, p)
      BY <1>0 DEF MayStart
    <3>4. DropInv(rows, tables, overlapped, p, Clean) /\ KeyInv(rows, Clean) /\ LockInv(tables, Clean)
      BY <3>1 DEF DropInv, KeyInv, LockInv
    <3>5. SelectedInv(rows, overlapped, p, Clean)
      <4>1. \A r : ~Pending(p, "remove", r.id)
        BY <1>0 DEF MayStart, Pending
      <4> QED BY <1>0, <3>1, <4>1 DEF SelectedInv, Going, MayStart
    <3>6. a \in Readers \cup Queries => ReadInv(tables, "running", Clean, seen[a])
      <4>1. a \in Readers \cup Queries => ReadInv(tables, "idle", Clean, seen[a])
        BY <1>0, <1>1, <1>2, <1>4 DEF ActorInv
      <4> QED BY <4>1 DEF ReadInv
    <3> QED BY <1>1, <1>3, <1>4, <2>1, <3>2, <3>3, <3>d, <3>4, <3>5, <3>6 DEF ActorInv
  <2>2. CASE b # a
    BY <1>1, <1>2, <1>3, <2>2, OtherStays
  <2> QED BY <2>1, <2>2
<1> QED BY <1>1, <1>2, <1>5, <1>6, <1>7 DEF IInv

\* A program that neither drops, deletes nor creates.
LEMMA HarmlessStart ==
  ASSUME NEW a, a \notin Writers, NEW p \in Seq(Statements),
         \A s \in ToSet(p) : s.op \in OpsOf(a) \cap {"read", "unjoin", "join"}
  PROVE  MayStart(a, p)
<1>1. \A i \in DOMAIN p : p[i].op \in {"read", "unjoin", "join"}
  BY DEF ToSet
<1>2. WellFormed(p)
  BY <1>1 DEF WellFormed, Creating, Deleting
<1>3. p # << >> => p[1].op # "create"
  <2>1. p # << >> => 1 \in DOMAIN p
    OBVIOUS
  <2> QED BY <1>1, <2>1
<1>4. (\A k : ~Pending(p, "drop", k)) /\ (\A f : ~PendingClear(p, f))
  BY <1>1 DEF Pending, PendingClear, ToSet
<1>5. DroppedInv(rows, overlapped, p)
  BY <1>4 DEF DroppedInv
<1>6. \A s \in ToSet(p) : s.op \in OpsOf(a) \ {"remove", "cascade"} /\ s.op # "clear"
  OBVIOUS
<1> QED BY <1>2, <1>3, <1>4, <1>5, <1>6 DEF MayStart, Writers

\* The creation of resources: the row and the table of one after the other's.
Creations ==
  {c \in Seq(Statements) :
     \A i \in DOMAIN c :
       /\ c[i].op \in Creating
       /\ c[i].op = "insert" => i + 1 \in DOMAIN c /\ c[i + 1] = [op |-> "create", arg |-> c[i].arg]
       /\ c[i].op = "create" => i - 1 \in DOMAIN c /\ c[i - 1] = [op |-> "insert", arg |-> c[i].arg]}

\* Creations one after the other are creations.
LEMMA CreationsConcat ==
  ASSUME NEW c \in Creations, NEW e \in Creations
  PROVE  c \o e \in Creations
<1> DEFINE m == Len(c)
           n == Len(e)
           f == c \o e
<1>1. /\ c \in Seq(Statements) /\ e \in Seq(Statements)
      /\ m \in Nat /\ n \in Nat /\ DOMAIN c = 1..m /\ DOMAIN e = 1..n
  BY DEF Creations
<1>2. /\ f \in Seq(Statements) /\ DOMAIN f = 1..(m + n)
      /\ \A i \in 1..m : f[i] = c[i]
      /\ \A i \in 1..n : m + i \in DOMAIN f /\ f[m + i] = e[i]
      /\ \A i \in DOMAIN f : i \in 1..m \/ (i - m \in 1..n /\ m + (i - m) = i)
  BY <1>1
<1>3. \A i \in 1..m :
        /\ c[i].op \in Creating
        /\ c[i].op = "insert" => i + 1 \in 1..m /\ c[i + 1] = [op |-> "create", arg |-> c[i].arg]
        /\ c[i].op = "create" => i - 1 \in 1..m /\ c[i - 1] = [op |-> "insert", arg |-> c[i].arg]
  BY <1>1 DEF Creations
<1>4. \A i \in 1..n :
        /\ e[i].op \in Creating
        /\ e[i].op = "insert" => i + 1 \in 1..n /\ e[i + 1] = [op |-> "create", arg |-> e[i].arg]
        /\ e[i].op = "create" => i - 1 \in 1..n /\ e[i - 1] = [op |-> "insert", arg |-> e[i].arg]
  BY <1>1 DEF Creations
<1> HIDE DEF m, n, f
<1>5. ASSUME NEW i \in DOMAIN f
      PROVE  /\ f[i].op \in Creating
             /\ f[i].op = "insert" => i + 1 \in DOMAIN f /\ f[i + 1] = [op |-> "create", arg |-> f[i].arg]
             /\ f[i].op = "create" => i - 1 \in DOMAIN f /\ f[i - 1] = [op |-> "insert", arg |-> f[i].arg]
  <2>1. CASE i \in 1..m
    <3>1. f[i] = c[i] /\ \A j \in 1..m : j \in DOMAIN f /\ f[j] = c[j]
      BY <1>1, <1>2, <2>1
    <3> QED BY <1>3, <2>1, <3>1
  <2>2. CASE i - m \in 1..n /\ m + (i - m) = i
    <3>1. f[i] = e[i - m] /\ m + ((i - m) + 1) = i + 1 /\ m + ((i - m) - 1) = i - 1
      BY <1>1, <1>2, <2>2
    <3>2. f[i].op = "insert" => (i - m) + 1 \in 1..n /\ e[(i - m) + 1] = [op |-> "create", arg |-> f[i].arg]
      BY <1>4, <2>2, <3>1
    <3>3. f[i].op = "create" => (i - m) - 1 \in 1..n /\ e[(i - m) - 1] = [op |-> "insert", arg |-> f[i].arg]
      BY <1>4, <2>2, <3>1
    <3>4. (i - m) + 1 \in 1..n => i + 1 \in DOMAIN f /\ f[i + 1] = e[(i - m) + 1]
      BY <1>2, <3>1
    <3>5. (i - m) - 1 \in 1..n => i - 1 \in DOMAIN f /\ f[i - 1] = e[(i - m) - 1]
      BY <1>2, <3>1
    <3> QED BY <1>4, <2>2, <3>1, <3>2, <3>3, <3>4, <3>5
  <2> QED BY <1>2, <2>1, <2>2
<1>6. f \in Creations
  BY <1>2, <1>5 DEF Creations
<1> QED BY <1>6 DEF f

\* No creation and one creation are creations.
LEMMA CreationIsOne ==
  /\ << >> \in Creations
  /\ \A k \in ToSet(Sheets) : Creation(k) \in Creations
<1>1. << >> \in Creations
  BY DEF Creations
<1>2. ASSUME NEW k \in ToSet(Sheets) PROVE Creation(k) \in Creations
  <2> DEFINE x == [op |-> "insert", arg |-> k]
             y == [op |-> "create", arg |-> k]
             c == <<x>> \o <<y>>
  <2>1. Creation(k) = c
    BY DEF Creation, Do
  <2>2. x \in Statements /\ y \in Statements
    BY DEF Statements
  <2> HIDE DEF x, y
  <2>3. c \in Seq(Statements) /\ DOMAIN c = 1..2 /\ c[1] = x /\ c[2] = y
    BY <2>2
  <2>4. c[1] = [op |-> "insert", arg |-> k] /\ c[2] = [op |-> "create", arg |-> k]
    BY <2>3 DEF x, y
  <2> HIDE DEF c
  <2>5. ASSUME NEW i \in DOMAIN c
        PROVE  /\ c[i].op \in Creating
               /\ c[i].op = "insert" => i + 1 \in DOMAIN c /\ c[i + 1] = [op |-> "create", arg |-> c[i].arg]
               /\ c[i].op = "create" => i - 1 \in DOMAIN c /\ c[i - 1] = [op |-> "insert", arg |-> c[i].arg]
    <3>1. CASE i = 1
      BY <2>3, <2>4, <3>1 DEF Creating
    <3>2. CASE i = 2
      BY <2>3, <2>4, <3>2 DEF Creating
    <3> QED BY <2>3, <3>1, <3>2
  <2>6. c \in Creations
    BY <2>3, <2>5 DEF Creations
  <2> QED BY <2>1, <2>6
<1> QED BY <1>1, <1>2

\* What is created of a scan is a program of creations.
LEMMA ScanIsCreated ==
  ASSUME NEW sheets
  PROVE  Import(sheets) \in Creations
<1> DEFINE n == Len(Sheets)
           f == [i \in DOMAIN Sheets |-> IF Sheets[i] \in sheets THEN Creation(Sheets[i]) ELSE << >>]
<1>1. n \in Nat /\ DOMAIN Sheets = 1..n /\ \A i \in 1..n : Sheets[i] \in ToSet(Sheets)
  BY SheetsAssumption DEF ToSet
<1>2. f \in [1..n -> Creations]
  BY <1>1, CreationIsOne
<1>3. Creations \in SUBSET Seq(Statements)
  BY DEF Creations
<1>4. Import(sheets) = FlattenSeq(f)
  BY DEF Import
<1> HIDE DEF f, n
<1>5. \A c, e \in Creations : c \o e \in Creations
  BY CreationsConcat
<1> QED BY <1>1, <1>2, <1>3, <1>4, <1>5, CreationIsOne, FlattenIn

Reads == [op : {"read"}, arg : Relations]

\* What a schema read runs: a read for each key there is a row of.
Listing == FlattenSeq([i \in DOMAIN KeyOrder |->
             IF \E r \in rows : r.key = KeyOrder[i] THEN Do("read", RelationOf[KeyOrder[i]]) ELSE << >>])

\* What is read of some keys is a program of reads.
LEMMA ListingReads == Listing \in Seq(Reads)
<1> DEFINE n == Len(KeyOrder)
           f == [i \in DOMAIN KeyOrder |->
                   IF \E r \in rows : r.key = KeyOrder[i] THEN Do("read", RelationOf[KeyOrder[i]]) ELSE << >>]
<1>1. n \in Nat /\ DOMAIN KeyOrder = 1..n /\ \A i \in 1..n : KeyOrder[i] \in Keys
  BY SheetsAssumption
<1>2. << >> \in Seq(Reads) /\ \A c, e \in Seq(Reads) : c \o e \in Seq(Reads)
  OBVIOUS
<1>3. ASSUME NEW k \in Keys PROVE Do("read", RelationOf[k]) \in Seq(Reads)
  <2> DEFINE x == [op |-> "read", arg |-> RelationOf[k]]
  <2>1. Do("read", RelationOf[k]) = <<x>>
    BY DEF Do
  <2>2. x \in Reads
    BY DEF Reads, Relations
  <2> HIDE DEF x
  <2>3. ASSUME NEW S, NEW y \in S PROVE <<y>> \in Seq(S)
    OBVIOUS
  <2> QED BY <2>1, <2>2, <2>3
<1>4. Listing = FlattenSeq(f)
  BY DEF Listing
<1>5. f \in [1..n -> Seq(Reads)]
  BY <1>1, <1>2, <1>3
<1>6. Seq(Reads) \in SUBSET Seq(Reads)
  OBVIOUS
<1> HIDE DEF f, n
<1> QED BY <1>1, <1>2, <1>4, <1>5, <1>6, FlattenIn

\* A program that only reads may start.
LEMMA ReadingStart ==
  ASSUME NEW a \in Readers \cup Queries, NEW p \in Seq(Reads)
  PROVE  MayStart(a, p)
<1>1. p \in Seq(Reads)
  OBVIOUS
<1>2. Reads \subseteq Statements /\ \A s \in Reads : s.op = "read"
  BY DEF Reads, Statements
<1>3. p \in Seq(Statements) /\ \A s \in ToSet(p) : s.op = "read"
  <2>1. Len(p) \in Nat /\ DOMAIN p = 1..Len(p) /\ \A i \in 1..Len(p) : p[i] \in Reads
    BY <1>1
  <2>2. p = [i \in 1..Len(p) |-> p[i]]
    BY <1>1
  <2>3. p \in Seq(Statements)
    BY <1>2, <2>1, <2>2
  <2> QED BY <1>2, <2>1, <2>3 DEF ToSet
<1>4. a \notin Writers /\ OpsOf(a) = {"read"}
  BY ActorsAssumption DEF Writers, OpsOf
<1> QED BY <1>3, <1>4, HarmlessStart

\* Statements v, then the rows of files K deleted, then resources created.
LEMMA ClearingStart ==
  ASSUME NEW v \in Seq(Statements), NEW K \in SUBSET Files, NEW c \in Creations,
         \A s \in ToSet(v) : s.op \in {"unjoin", "drop"}
  PROVE  LET p == (v \o Do("clear", K)) \o c
         IN  /\ p \in Seq(Statements) /\ WellFormed(p) /\ p # << >> /\ p[1].op # "create"
             /\ \A s \in ToSet(v) : s \in ToSet(p)
             /\ \A s \in ToSet(p) : s.op \in {"drop", "unjoin"} => s \in ToSet(v)
             /\ [op |-> "clear", arg |-> K] \in ToSet(p)
             /\ \A s \in ToSet(p) : s.op \in {"drop", "clear", "insert", "create", "unjoin"}
             /\ \A s \in ToSet(p) : s.op = "clear" => s.arg = K
<1> DEFINE m == Len(v)
           n == Len(c)
           last == [op |-> "clear", arg |-> K]
           p == (v \o Do("clear", K)) \o c
<1>1. /\ m \in Nat /\ n \in Nat /\ DOMAIN v = 1..m /\ DOMAIN c = 1..n /\ c \in Seq(Statements)
      /\ last \in Statements
  BY DEF Creations, Statements
<1>2. Do("clear", K) = <<last>>
  BY DEF Do
<1> DEFINE w == v \o <<last>>
<1>w. p = w \o c
  BY <1>2
<1> HIDE DEF last, p
<1>x. /\ w \in Seq(Statements) /\ Len(w) = m + 1
      /\ \A i \in 1..m : w[i] = v[i]
      /\ w[m + 1] = last
  BY <1>1
<1> HIDE DEF w
<1>3. p \in Seq(Statements) /\ DOMAIN p = 1..((m + 1) + n)
  <2>1. Len(w \o c) = (m + 1) + n /\ w \o c \in Seq(Statements)
    BY <1>1, <1>x
  <2> QED BY <1>w, <2>1
<1>y. \A i \in 1..(m + 1) : p[i] = w[i]
  BY <1>1, <1>w, <1>x
<1>4. \A i \in 1..m : p[i] = v[i]
  BY <1>1, <1>x, <1>y
<1>5. p[m + 1] = last
  BY <1>1, <1>x, <1>y
<1>6. \A i \in 1..n : p[(m + 1) + i] = c[i]
  BY <1>1, <1>w, <1>x
<1>7. \A i \in 1..m : v[i].op \in {"unjoin", "drop"}
  BY <1>1 DEF ToSet
<1>8. \A i \in 1..n :
        /\ c[i].op \in Creating
        /\ c[i].op = "insert" => i + 1 \in 1..n /\ c[i + 1] = [op |-> "create", arg |-> c[i].arg]
        /\ c[i].op = "create" => i - 1 \in 1..n /\ c[i - 1] = [op |-> "insert", arg |-> c[i].arg]
  BY <1>1 DEF Creations
<1>9. \A i \in DOMAIN p :
        i \in 1..m \/ i = m + 1 \/ (i - (m + 1) \in 1..n /\ (m + 1) + (i - (m + 1)) = i)
  BY <1>1, <1>3
<1> HIDE DEF m, n
<1>10. \A i \in DOMAIN p : \/ i \in 1..m /\ p[i].op \in {"unjoin", "drop"}
                           \/ i = m + 1 /\ p[i] = last
                           \/ i > m + 1 /\ p[i].op \in Creating
  <2> SUFFICES ASSUME NEW i \in DOMAIN p
               PROVE  \/ i \in 1..m /\ p[i].op \in {"unjoin", "drop"}
                      \/ i = m + 1 /\ p[i] = last
                      \/ i > m + 1 /\ p[i].op \in Creating
    OBVIOUS
  <2>1. CASE i \in 1..m
    BY <1>4, <1>7, <2>1
  <2>2. CASE i = m + 1
    BY <1>5, <2>2
  <2>3. CASE i - (m + 1) \in 1..n /\ (m + 1) + (i - (m + 1)) = i
    <3>1. p[i] = c[i - (m + 1)]
      BY <1>6, <2>3
    <3>2. p[i].op \in Creating
      BY <1>8, <2>3, <3>1
    <3>3. i \in Int /\ i > m + 1
      BY <1>1, <1>3, <2>3
    <3> QED BY <3>2, <3>3
  <2> QED BY <1>9, <2>1, <2>2, <2>3
<1>11. \A i \in DOMAIN p : i \in Int /\ (p[i].op \in Creating => i > m + 1)
  <2>1. \A i \in DOMAIN p : i \in Int
    BY <1>1, <1>3
  <2> QED BY <1>10, <2>1 DEF Creating, last
<1>12. ASSUME NEW i \in DOMAIN p, NEW j \in DOMAIN p, i < j, p[i].op \in Creating
       PROVE  p[j].op \in Creating
  <2>1. j > m + 1
    BY <1>1, <1>11, <1>12
  <2>2. ~(j \in 1..m) /\ j # m + 1
    BY <1>1, <2>1
  <2> QED BY <1>10, <2>2
<1>13. ASSUME NEW i \in DOMAIN p, NEW j \in DOMAIN p, i < j, p[i].op \in Deleting, p[j].op = "drop"
       PROVE  FALSE
  <2>1. j \in 1..m
    BY <1>10, <1>13 DEF Creating, last
  <2>2. i \in 1..m
    BY <1>1, <1>11, <1>3, <1>13, <2>1
  <2>3. p[i].op \in {"unjoin", "drop"}
    BY <1>4, <1>7, <2>2
  <2> QED BY <1>13, <2>3 DEF Deleting
<1>14. ASSUME NEW i \in DOMAIN p, p[i].op \in Creating
       PROVE  /\ p[i].op = "insert" => i + 1 \in DOMAIN p /\ p[i + 1] = [op |-> "create", arg |-> p[i].arg]
              /\ p[i].op = "create" => p[i - 1] = [op |-> "insert", arg |-> p[i].arg]
  <2> DEFINE j == i - (m + 1)
  <2>1. j \in 1..n /\ (m + 1) + j = i /\ p[i] = c[j]
    <3>1. i > m + 1
      BY <1>11, <1>14
    <3>2. ~(i \in 1..m) /\ i # m + 1
      BY <1>1, <3>1
    <3> QED BY <1>6, <1>9, <3>2
  <2>2. i \in Int /\ (m + 1) + (j + 1) = i + 1 /\ (m + 1) + (j - 1) = i - 1
    BY <1>1, <1>3
  <2> HIDE DEF j
  <2>3. j + 1 \in 1..n => i + 1 \in DOMAIN p /\ p[i + 1] = c[j + 1]
    <3>1. j + 1 \in 1..n => (m + 1) + (j + 1) \in DOMAIN p
      BY <1>1, <1>3
    <3> QED BY <1>6, <2>2, <3>1
  <2>4. j - 1 \in 1..n => p[i - 1] = c[j - 1]
    BY <1>6, <2>2
  <2> QED BY <1>8, <2>1, <2>3, <2>4
<1>15. WellFormed(p)
  BY <1>12, <1>13, <1>14 DEF WellFormed, Creating
<1>16. p # << >> /\ p[1].op # "create"
  <2>1. 1 \in DOMAIN p
    BY <1>1, <1>3
  <2>2. ~(1 > m + 1)
    BY <1>1
  <2> QED BY <1>11, <2>1, <2>2 DEF Creating
<1>17. \A s \in ToSet(v) : s \in ToSet(p)
  <2> SUFFICES ASSUME NEW i \in 1..m PROVE v[i] \in ToSet(p)
    BY <1>1 DEF ToSet
  <2>1. i \in DOMAIN p /\ p[i] = v[i]
    BY <1>1, <1>3, <1>4
  <2> QED BY <2>1 DEF ToSet
<1>18. \A s \in ToSet(p) : s.op \in {"drop", "clear", "insert", "create", "unjoin"}
  BY <1>10 DEF ToSet, Creating, last
<1>19. \A s \in ToSet(p) : s.op = "clear" => s.arg = K
  BY <1>10 DEF ToSet, Creating, last
<1>20. last \in ToSet(p)
  <2>1. m + 1 \in DOMAIN p
    BY <1>1, <1>3
  <2> QED BY <1>5, <2>1 DEF ToSet
<1>21. \A s \in ToSet(p) : s.op \in {"drop", "unjoin"} => s \in ToSet(v)
  <2> SUFFICES ASSUME NEW i \in DOMAIN p, p[i].op \in {"drop", "unjoin"} PROVE p[i] \in ToSet(v)
    BY DEF ToSet
  <2>1. i \in 1..m
    BY <1>10 DEF Creating, last
  <2> QED BY <1>1, <1>4, <2>1 DEF ToSet
<1> QED BY <1>3, <1>15, <1>16, <1>17, <1>18, <1>19, <1>20, <1>21 DEF p, last

\* A program of one statement.
LEMMA DoIsOne ==
  ASSUME NEW op, NEW x, [op |-> op, arg |-> x] \in Statements
  PROVE  Do(op, x) \in Seq(Statements) /\ ToSet(Do(op, x)) = {[op |-> op, arg |-> x]}
<1> DEFINE s == [op |-> op, arg |-> x]
<1>1. Do(op, x) = <<s>> /\ s \in Statements
  BY DEF Do
<1> HIDE DEF s
<1>2. <<s>> \in Seq(Statements) /\ DOMAIN <<s>> = {1} /\ <<s>>[1] = s
  BY <1>1
<1>3. ToSet(<<s>>) = {s}
  BY <1>2 DEF ToSet
<1> QED BY <1>1, <1>2, <1>3 DEF s

\* Where the rows of files K are cleared after statements v, which drop the tables
\* of those rows, and resources are created.
LEMMA ReplacingStart ==
  ASSUME StatesOK, DatasetOK,
         NEW a \in Writers, NEW v \in Seq(Statements), NEW K \in SUBSET Files, NEW c \in Creations,
         \A s \in ToSet(v) : \/ s.op = "unjoin" /\ a \in Rebuilders
                             \/ s.op = "drop" /\ \E r \in rows : r.file \in K /\ RelationFor(r) = s.arg,
         \A r \in rows : r.file \in K => [op |-> "drop", arg |-> RelationFor(r)] \in ToSet(v),
         a \in Refreshers => K = {FileOf[a]}
  PROVE  MayStart(a, (v \o Do("clear", K)) \o c)
<1> DEFINE p == (v \o Do("clear", K)) \o c
<1>1. /\ p \in Seq(Statements) /\ WellFormed(p) /\ p # << >> /\ p[1].op # "create"
      /\ \A s \in ToSet(v) : s \in ToSet(p)
      /\ \A s \in ToSet(p) : s.op \in {"drop", "unjoin"} => s \in ToSet(v)
      /\ [op |-> "clear", arg |-> K] \in ToSet(p)
      /\ \A s \in ToSet(p) : s.op \in {"drop", "clear", "insert", "create", "unjoin"}
      /\ \A s \in ToSet(p) : s.op = "clear" => s.arg = K
  BY ClearingStart
<1> HIDE DEF p
<1>2. \A f : PendingClear(p, f) <=> f \in K
  BY <1>1 DEF PendingClear
<1>3. \A k : Pending(p, "drop", k) => \E r \in rows : r.file \in K /\ RelationFor(r) = k
  BY <1>1 DEF Pending
<1>4. \A r \in rows : PendingClear(p, r.file) => Pending(p, "drop", RelationFor(r))
  BY <1>1, <1>2 DEF Pending
<1>5. \A s \in ToSet(p) : s.op \in OpsOf(a) \ {"remove", "cascade"}
  <2>1. \A s \in ToSet(p) : s.op = "unjoin" => a \in Rebuilders
    BY <1>1
  <2> QED BY <1>1, <2>1 DEF OpsOf, Writers
<1>6. DroppedInv(rows, overlapped, p)
  <2> SUFFICES ASSUME NEW k \in Relations, Pending(p, "drop", k)
               PROVE  /\ \E s \in ToSet(Sheets) : RelationFor(s) = k /\ PendingClear(p, s.file)
                      /\ \A r \in rows : RelationFor(r) = k =>
                           PendingClear(p, r.file) \/ Excused(overlapped, k)
    BY DEF DroppedInv
  <2>1. PICK w \in rows : w.file \in K /\ RelationFor(w) = k
    BY <1>3
  <2>2. \E s \in ToSet(Sheets) : RelationFor(s) = k /\ s.file = w.file
    BY <2>1, RowParts DEF StatesOK
  <2>3. ASSUME NEW r \in rows, RelationFor(r) = k, ~Excused(overlapped, k) PROVE r.file \in K
    <3>1. tables[k] = r.id /\ tables[k] = w.id
      BY <2>1, <2>3 DEF DatasetOK, RowsHaveTables, Excused
    <3>2. r = w
      BY <3>1, RowsTellApart
    <3> QED BY <2>1, <3>2
  <2> QED BY <1>2, <2>1, <2>2, <2>3
<1>7. a \in Refreshers => \A k : Pending(p, "drop", k) => k \in RelationsIn(FileOf[a])
  <2> SUFFICES ASSUME a \in Refreshers, NEW k, Pending(p, "drop", k) PROVE k \in RelationsIn(FileOf[a])
    OBVIOUS
  <2>1. PICK r \in rows : r.file = FileOf[a] /\ RelationFor(r) = k
    BY <1>3
  <2>2. \E s \in ToSet(Sheets) : s.file = r.file /\ RelationFor(s) = RelationFor(r)
    BY RowParts DEF StatesOK
  <2> QED BY <2>1, <2>2 DEF RelationsIn, SheetsOf
<1>8. MayStart(a, p)
  BY <1>1, <1>4, <1>5, <1>6, <1>7 DEF MayStart
<1> QED BY <1>8 DEF p

\* The tables of some rows are dropped, each of them.
LEMMA DropsAll ==
  ASSUME NEW R \in SUBSET TableRows, IsFiniteSet(R), NEW order \in SetToSeqs(RelationsOf(R))
  PROVE  /\ Drops(order) \in Seq(Statements)
         /\ ToSet(Drops(order)) = {[op |-> "drop", arg |-> k] : k \in RelationsOf(R)}
<1>1. RelationsOf(R) \in SUBSET Relations /\ IsFiniteSet(RelationsOf(R))
  BY RelationsAreRelations
<1>2. order \in Seq(RelationsOf(R)) /\ ToSet(order) = RelationsOf(R)
  BY <1>1, SetToSeqsList
<1>3. \A k \in RelationsOf(R) : [op |-> "drop", arg |-> k] \in Statements
  BY <1>1 DEF Statements
<1> QED BY <1>2, <1>3, EachLists DEF Drops

\* The rest of the schemas that readers have read stays.
SchemasOK == schema' \in [Readers -> SUBSET TableRows] /\ \A b \in Readers : IsFiniteSet(schema'[b])

\* Each method begins a program that may start.
LEMMA ReplaceDatasetStarts ==
  ASSUME IInv, ReplaceDataset
  PROVE  \E a, p : Starts(a, p)
<1>1. PICK a \in Rebuilders, scan \in SUBSET ToSet(Sheets), order \in SetToSeqs(RelationsOf(rows)) :
        Begin(a, ClearDataset(order) \o Import(scan)) /\ UNCHANGED schema
  BY DEF ReplaceDataset
<1>2. StatesOK /\ DatasetOK
  BY DEF IInv
<1>3. /\ Drops(order) \in Seq(Statements)
      /\ ToSet(Drops(order)) = {[op |-> "drop", arg |-> k] : k \in RelationsOf(rows)}
  BY <1>2, DropsAll DEF StatesOK
<1> DEFINE v == Do("unjoin", {}) \o Drops(order)
           c == Import(scan)
<1>6. Do("unjoin", {}) \in Seq(Statements) /\ ToSet(Do("unjoin", {})) = {[op |-> "unjoin", arg |-> {}]}
  <2>1. [op |-> "unjoin", arg |-> {}] \in Statements
    BY DEF Statements
  <2> QED BY <2>1, DoIsOne
<1>7. v \in Seq(Statements)
      /\ ToSet(v) = {[op |-> "unjoin", arg |-> {}]} \cup {[op |-> "drop", arg |-> k] : k \in RelationsOf(rows)}
  BY <1>3, <1>6, ConcatStatements
<1>8. c \in Creations
  BY ScanIsCreated
<1>9. ClearDataset(order) = v \o Do("clear", Files)
  BY DEF ClearDataset
<1> HIDE DEF v, c
<1>f. \A r \in rows : r.file \in Files
  BY <1>2, RowParts DEF StatesOK
<1>10. ASSUME NEW s \in ToSet(v)
       PROVE  \/ s.op = "unjoin" /\ a \in Rebuilders
              \/ s.op = "drop" /\ \E r \in rows : r.file \in Files /\ RelationFor(r) = s.arg
  <2>1. CASE s = [op |-> "unjoin", arg |-> {}]
    <3>1. s.op = "unjoin"
      BY <2>1
    <3> QED BY <3>1
  <2>2. CASE \E k \in RelationsOf(rows) : s = [op |-> "drop", arg |-> k]
    BY <1>f, <2>2 DEF RelationsOf
  <2> QED BY <1>7, <2>1, <2>2
<1>11. \A r \in rows : [op |-> "drop", arg |-> RelationFor(r)] \in ToSet(v)
  BY <1>7 DEF RelationsOf
<1>12. a \in Writers /\ Files \in SUBSET Files /\ a \notin Refreshers
  BY ActorsAssumption DEF Writers
<1>13. MayStart(a, (v \o Do("clear", Files)) \o c)
  BY <1>2, <1>7, <1>8, <1>10, <1>11, <1>12, ReplacingStart
<1>14. a \in Actors
  BY DEF Actors
<1>15. SchemasOK
  BY <1>1, <1>2 DEF StatesOK, SchemasOK
<1> QED BY <1>1, <1>9, <1>13, <1>14, <1>15 DEF c, Starts, SchemasOK

LEMMA RefreshStructuredStarts ==
  ASSUME IInv, RefreshStructured
  PROVE  \E a, p : Starts(a, p)
<1>0. PICK a \in Refreshers :
        \E held \in SUBSET SheetsOf(FileOf[a]) :
          \E order \in SetToSeqs(RelationsOf(RowsFrom(FileOf[a]))) :
            Begin(a, DeleteStructured(FileOf[a], order) \o Import(held)) /\ UNCHANGED schema
  BY DEF RefreshStructured
<1>1. PICK held \in SUBSET SheetsOf(FileOf[a]), order \in SetToSeqs(RelationsOf(RowsFrom(FileOf[a]))) :
        Begin(a, DeleteStructured(FileOf[a], order) \o Import(held)) /\ UNCHANGED schema
  BY <1>0
<1> DEFINE f == FileOf[a]
           v == Drops(order)
           c == Import(held)
<1>2. StatesOK /\ DatasetOK
  BY DEF IInv
<1>3. f \in Files
  BY ActorsAssumption
<1>4. DeleteStructured(f, order) = v \o Do("clear", {f})
  BY DEF DeleteStructured
<1>5. RowsFrom(f) \in SUBSET TableRows /\ IsFiniteSet(RowsFrom(f))
  BY <1>2, FS_Subset DEF RowsFrom, StatesOK
<1>6. v \in Seq(Statements) /\ ToSet(v) = {[op |-> "drop", arg |-> k] : k \in RelationsOf(RowsFrom(f))}
  BY <1>5, DropsAll
<1>7. c \in Creations
  BY ScanIsCreated
<1> HIDE DEF v, c
<1>8. \A s \in ToSet(v) : s.op = "drop" /\ \E r \in rows : r.file \in {f} /\ RelationFor(r) = s.arg
  BY <1>6 DEF RelationsOf, RowsFrom
<1>9. \A r \in rows : r.file \in {f} => [op |-> "drop", arg |-> RelationFor(r)] \in ToSet(v)
  BY <1>6 DEF RelationsOf, RowsFrom
<1>10. a \in Writers /\ {f} \in SUBSET Files
  BY <1>3 DEF Writers
<1>11. MayStart(a, (v \o Do("clear", {f})) \o c)
  BY <1>2, <1>6, <1>7, <1>8, <1>9, <1>10, ReplacingStart
<1>12. a \in Actors
  BY DEF Actors
<1>13. SchemasOK
  BY <1>1, <1>2 DEF StatesOK, SchemasOK
<1> QED BY <1>1, <1>4, <1>11, <1>12, <1>13 DEF c, Starts, SchemasOK

LEMMA ListStructuredResourcesStarts ==
  ASSUME IInv, ListStructuredResources
  PROVE  \E a, p : Starts(a, p)
<1>1. PICK a \in Readers : Begin(a, Listing) /\ schema' = [schema EXCEPT ![a] = rows]
  BY DEF ListStructuredResources, Listing
<1>2. SchemasOK
  <2>1. /\ schema \in [Readers -> SUBSET TableRows] /\ rows \in SUBSET TableRows
        /\ IsFiniteSet(rows) /\ \A b \in Readers : IsFiniteSet(schema[b])
    BY DEF IInv, StatesOK
  <2> QED BY <1>1, <2>1 DEF SchemasOK
<1>3. a \in Actors
  BY DEF Actors
<1> QED BY <1>1, <1>2, <1>3, ListingReads, ReadingStart DEF Starts, SchemasOK

LEMMA ExecuteReadOnlySqlStarts ==
  ASSUME IInv, ExecuteReadOnlySql
  PROVE  \E a, p : Starts(a, p)
<1>1. PICK a \in Queries :
        /\ \E names \in SUBSET RelationsOf(schema[SchemaOf[a]]) :
             \E order \in SetToSeqs(names) : Begin(a, Each("read", order))
        /\ UNCHANGED schema
  BY DEF ExecuteReadOnlySql
<1>0. PICK names \in SUBSET RelationsOf(schema[SchemaOf[a]]) :
        \E order \in SetToSeqs(names) : Begin(a, Each("read", order))
  BY <1>1
<1>2. PICK order \in SetToSeqs(names) : Begin(a, Each("read", order))
  BY <1>0
<1>3. SchemasOK
  BY <1>1 DEF IInv, StatesOK, SchemasOK
<1>4. schema[SchemaOf[a]] \in SUBSET TableRows /\ IsFiniteSet(schema[SchemaOf[a]])
  BY ActorsAssumption DEF IInv, StatesOK
<1>5. names \in SUBSET Relations /\ IsFiniteSet(names)
  BY <1>4, RelationsAreRelations, FS_Subset
<1>6. order \in Seq(names)
  BY <1>5, SetToSeqsList
<1>7. Each("read", order) \in Seq(Reads)
  <2>1. Len(order) \in Nat /\ DOMAIN order = 1..Len(order) /\ \A i \in 1..Len(order) : order[i] \in Relations
    BY <1>5, <1>6
  <2>2. Each("read", order) = [i \in 1..Len(order) |-> [op |-> "read", arg |-> order[i]]]
    BY <2>1 DEF Each
  <2>3. \A i \in 1..Len(order) : [op |-> "read", arg |-> order[i]] \in Reads
    BY <2>1 DEF Reads
  <2> QED BY <2>1, <2>2, <2>3
<1>8. a \in Actors
  BY DEF Actors
<1> QED BY <1>2, <1>3, <1>7, <1>8, ReadingStart DEF Starts, SchemasOK

LEMMA ReplaceApprovedJoinsStarts ==
  ASSUME IInv, ReplaceApprovedJoins
  PROVE  \E a, p : Starts(a, p)
<1> DEFINE unjoin == Do("unjoin", {})
<1>1. PICK a \in Discoverers :
        /\ \/ Begin(a, unjoin)
           \/ \E j \in JoinsOver(Ids(schema[SchemaOf[a]])) : Begin(a, unjoin \o Do("join", j))
        /\ UNCHANGED schema
  BY DEF ReplaceApprovedJoins
<1>2. SchemasOK /\ schema[SchemaOf[a]] \in SUBSET TableRows
  BY <1>1, ActorsAssumption DEF IInv, StatesOK, SchemasOK
<1>3. a \in Actors
  BY DEF Actors
<1>4. unjoin \in Seq(Statements) /\ ToSet(unjoin) = {[op |-> "unjoin", arg |-> {}]}
  <2>1. [op |-> "unjoin", arg |-> {}] \in Statements
    BY DEF Statements
  <2> QED BY <2>1, DoIsOne
<1> HIDE DEF unjoin
<1>o. a \notin Writers /\ OpsOf(a) = {"unjoin", "unlink", "join"}
  BY <1>1, ActorsAssumption DEF Writers, OpsOf
<1>5. MayStart(a, unjoin)
  <2>1. \A s \in ToSet(unjoin) : s.op = "unjoin"
    BY <1>4
  <2> QED BY <1>4, <1>o, <2>1, HarmlessStart
<1>6. ASSUME NEW j \in JoinsOver(Ids(schema[SchemaOf[a]])) PROVE MayStart(a, unjoin \o Do("join", j))
  <2>1. j \in Links
    BY <1>2, <1>6, IdsAreIds DEF JoinsOver, Links
  <2>2. [op |-> "join", arg |-> j] \in Statements
    BY <2>1 DEF Statements
  <2>3. Do("join", j) \in Seq(Statements) /\ ToSet(Do("join", j)) = {[op |-> "join", arg |-> j]}
    BY <2>2, DoIsOne
  <2>4. unjoin \o Do("join", j) \in Seq(Statements)
        /\ ToSet(unjoin \o Do("join", j)) = ToSet(unjoin) \cup ToSet(Do("join", j))
    BY <1>4, <2>3, ConcatStatements
  <2>5. \A s \in ToSet(unjoin \o Do("join", j)) : s.op \in {"unjoin", "join"}
    BY <1>4, <2>3, <2>4
  <2> QED BY <1>o, <2>4, <2>5, HarmlessStart
<1> QED BY <1>1, <1>2, <1>3, <1>5, <1>6 DEF Starts, SchemasOK

-----------------------------------------------------------------------------
(* The theorems *)

\* The tables at the start are those of the rows.
LEMMA LoadedTables ==
  ASSUME NEW loaded \in SUBSET ToSet(Sheets),
         \A s, t \in loaded : RelationFor(s) = RelationFor(t) => s = t,
         rows = {RowOf("loaded", s) : s \in loaded},
         tables = [k \in Relations |->
                IF \E s \in loaded : RelationFor(s) = k
                THEN (CHOOSE r \in rows : RelationFor(r) = k).id ELSE NoTable]
  PROVE  /\ rows \in SUBSET TableRows /\ IsFiniteSet(rows)
         /\ tables \in [Relations -> RowIds \cup {NoTable}]
         /\ \A r \in rows : r.id[1] = "loaded" /\ tables[RelationFor(r)] = r.id
         /\ \A k \in Relations : tables[k] # NoTable => \E r \in rows : r.id = tables[k] /\ RelationFor(r) = k
         /\ \A r, s \in rows : r.key = s.key => r = s
<1>1. rows \in SUBSET TableRows
  BY DEF TableRows, Owners
<1>2. IsFiniteSet(rows)
  <2> DEFINE f == [s \in loaded |-> RowOf("loaded", s)]
  <2>1. IsFiniteSet(loaded)
    BY SheetsAreFinite, FS_Subset
  <2>2. rows = {f[s] : s \in loaded} /\ DOMAIN f = loaded /\ f = [s \in loaded |-> f[s]]
    OBVIOUS
  <2> HIDE DEF f
  <2>3. DOMAIN f = loaded /\ f = [s \in loaded |-> f[s]]
    BY <2>2
  <2>4. IsFiniteSet({f[s] : s \in loaded})
    BY <2>1, <2>3, FiniteImage
  <2> QED BY <2>2, <2>4
<1>3. \A s \in loaded : RowOf("loaded", s) \in rows /\ RelationFor(RowOf("loaded", s)) = RelationFor(s)
  BY DEF RowOf, RelationFor
<1>4. \A r \in rows : \E s \in loaded : r = RowOf("loaded", s) /\ RelationFor(r) = RelationFor(s)
  BY <1>3
<1>5. \A r, s \in rows : RelationFor(r) = RelationFor(s) => r = s
  BY <1>4
<1>6. ASSUME NEW k \in Relations, NEW s \in loaded, RelationFor(s) = k
      PROVE  \E r \in rows : tables[k] = r.id /\ RelationFor(r) = k
  <2> DEFINE r == CHOOSE w \in rows : RelationFor(w) = k
  <2>1. r \in rows /\ RelationFor(r) = k
    BY <1>3, <1>6
  <2>2. tables[k] = r.id
    BY <1>6
  <2> HIDE DEF r
  <2> QED BY <2>1, <2>2
<1>7. \A k \in Relations : (\A s \in loaded : RelationFor(s) # k) => tables[k] = NoTable
  OBVIOUS
<1>8. DOMAIN tables = Relations
  OBVIOUS
<1>9. \A k \in Relations : tables[k] # NoTable => \E r \in rows : r.id = tables[k] /\ RelationFor(r) = k
  BY <1>6, <1>7
<1>10. \A k \in Relations : tables[k] \in RowIds \cup {NoTable}
  BY <1>1, <1>9, RowParts
<1>11. ASSUME NEW r \in rows PROVE r.id[1] = "loaded" /\ tables[RelationFor(r)] = r.id
  <2>1. PICK s \in loaded : r = RowOf("loaded", s) /\ RelationFor(r) = RelationFor(s)
    BY <1>4
  <2>2. RelationFor(r) \in Relations
    BY <1>1, RowParts
  <2>3. PICK w \in rows : tables[RelationFor(r)] = w.id /\ RelationFor(w) = RelationFor(r)
    BY <1>6, <2>1, <2>2
  <2>4. w = r
    BY <1>5, <2>3
  <2>5. r.id[1] = "loaded"
    BY <2>1 DEF RowOf
  <2> QED BY <2>3, <2>4, <2>5
<1>12. \A r, s \in rows : r.key = s.key => r = s
  BY <1>5 DEF RelationFor
<1>13. tables \in [Relations -> RowIds \cup {NoTable}]
  <2>1. tables = [k \in Relations |-> tables[k]]
    OBVIOUS
  <2> QED BY <1>10, <2>1
<1> QED BY <1>1, <1>2, <1>9, <1>11, <1>12, <1>13

\* The invariant holds at the start.
LEMMA InitIInv == Init => IInv
<1> SUFFICES ASSUME Init PROVE IInv
  OBVIOUS
<1>1. PICK loaded \in SUBSET ToSet(Sheets) :
        /\ \A s, t \in loaded : RelationFor(s) = RelationFor(t) => s = t
        /\ rows = {RowOf("loaded", s) : s \in loaded}
        /\ tables = [k \in Relations |->
                       IF \E s \in loaded : RelationFor(s) = k
                       THEN (CHOOSE r \in rows : RelationFor(r) = k).id ELSE NoTable]
  BY DEF Init
<1>2. /\ joins \in {{j} : j \in JoinsOver(Ids(rows))} \cup {{}}
      /\ status = [a \in Actors |-> "idle"] /\ program = [a \in Actors |-> << >>]
      /\ tx = [a \in Actors |-> Clean] /\ schema = [a \in Readers |-> {}]
      /\ seen = [a \in Readers \cup Queries |-> << >>] /\ overlapped = {}
  BY DEF Init
<1>3. /\ rows \in SUBSET TableRows /\ IsFiniteSet(rows)
      /\ tables \in [Relations -> RowIds \cup {NoTable}]
      /\ \A r \in rows : tables[RelationFor(r)] = r.id
      /\ \A k \in Relations : tables[k] # NoTable => \E r \in rows : r.id = tables[k] /\ RelationFor(r) = k
      /\ \A r, s \in rows : r.key = s.key => r = s
  BY <1>1, LoadedTables
<1>5. joins \subseteq Links /\ IsFiniteSet(joins)
  <2>1. \A j \in JoinsOver(Ids(rows)) : j \in Links
    BY <1>3, IdsAreIds DEF JoinsOver, Links
  <2> QED BY <1>2, <2>1, FS_Singleton, FS_EmptySet
<1>6. << >> \in PartialTables /\ << >> \in Seq(Statements) /\ DOMAIN << >> = {}
  BY CleanIsATransaction DEF Clean, Transactions
<1>7. StatesOK
  <2>1. IsFiniteSet(Clean.approved) /\ IsFiniteSet(Clean.added)
    BY FS_EmptySet DEF Clean
  <2> QED BY <1>2, <1>3, <1>5, <1>6, <2>1, CleanIsATransaction, FS_EmptySet DEF StatesOK
<1>8. DatasetOK
  <2>1. RowsHaveTables
    BY <1>3 DEF RowsHaveTables
  <2>2. Orphans = {}
    BY <1>3 DEF Orphans
  <2>3. \A k \in Relations : tables[k] # NoTable => RelationOf[tables[k][2]] = k
    BY <1>3, RowParts DEF RelationFor
  <2> QED BY <1>3, <2>1, <2>2, <2>3 DEF DatasetOK
<1>10. ASSUME NEW a \in Actors PROVE ActorInv(a)
  <2>1. tx[a] = Clean /\ program[a] = << >> /\ status[a] = "idle"
    BY <1>2
  <2>2. a \in Readers \cup Queries => DOMAIN seen[a] = {}
    BY <1>2, <1>6
  <2>3. PICK st, read : st = status[a] /\ DOMAIN read = {} /\ (a \in Readers \cup Queries => read = seen[a])
    BY <1>6, <2>2
  <2>4. st # "running" /\ st = "idle"
    BY <2>1, <2>3
  <2>5. /\ ProgramInv(a, st, << >>, Clean) /\ CreationInv(a, << >>, Clean)
        /\ DroppedInv(rows, overlapped, << >>) /\ DropInv(rows, tables, overlapped, << >>, Clean)
        /\ SelectedInv(rows, overlapped, << >>, Clean)
        /\ KeyInv(rows, Clean) /\ LockInv(tables, Clean) /\ ReadInv(tables, st, Clean, read)
    BY <2>3, <2>4, RestingActor
  <2> QED BY <2>1, <2>3, <2>5 DEF ActorInv
<1>11. \A a, b \in Actors : ExclusiveInv(tx[a], tx[b])
  BY <1>2, CleanExcludes
<1> QED BY <1>7, <1>8, <1>10, <1>11 DEF IInv

\* Every step preserves the invariant.
LEMMA NextIInv == IInv /\ [Next]_vars => IInv'
<1> SUFFICES ASSUME IInv, [Next]_vars PROVE IInv'
  OBVIOUS
<1>1. CASE ReplaceDataset
  BY <1>1, ReplaceDatasetStarts, BeginKeeps
<1>2. CASE RefreshStructured
  BY <1>2, RefreshStructuredStarts, BeginKeeps
<1>3. CASE ListStructuredResources
  BY <1>3, ListStructuredResourcesStarts, BeginKeeps
<1>4. CASE ExecuteReadOnlySql
  BY <1>4, ExecuteReadOnlySqlStarts, BeginKeeps
<1>5. CASE ReplaceApprovedJoins
  BY <1>5, ReplaceApprovedJoinsStarts, BeginKeeps
<1>6. CASE \E a \in Actors : Execute(a)
  BY <1>6, ExecuteKeeps
<1>7. CASE \E a \in Actors : Commit(a)
  BY <1>7, CommitKeeps
<1>8. CASE \E a \in Actors : Fail(a) \/ DetectDeadlock(a) \/ Crash(a)
  BY <1>8, EndingsKeep
<1>9. CASE UNCHANGED vars
  <2>1. StatesOK' /\ DatasetOK'
    BY <1>9, DatasetStays DEF IInv, vars, StatesOK
  <2>2. \A b \in Actors : ActorInv(b)'
    BY <1>9 DEF IInv, vars, ActorInv
  <2>3. \A b, c \in Actors : b # c => ExclusiveInv(tx'[b], tx'[c])
    BY <1>9 DEF IInv, vars
  <2> QED BY <2>1, <2>2, <2>3 DEF IInv
<1> QED BY <1>1, <1>2, <1>3, <1>4, <1>5, <1>6, <1>7, <1>8, <1>9 DEF Next

\* The invariant the other theorems rest on: what a transaction has dropped and
\* created is its own, its program takes a table and its row together, and what
\* it reads of a table is what is committed.
THEOREM StoreInvariance == Spec => []IInv
BY InitIInv, NextIInv, PTL DEF Spec

\* Every variable of the store holds a value of its kind.
THEOREM StoreTypeCorrect == Spec => []TypeOK
<1>1. IInv => TypeOK
  <2> SUFFICES ASSUME IInv PROVE TypeOK
    OBVIOUS
  <2>1. \A r \in rows : r.key \in Keys /\ r.file \in Files
    BY RowParts DEF IInv, StatesOK
  <2>2. \A j \in joins : Cardinality(j) \in 1..2
    BY DEF IInv, StatesOK, Links
  <2> QED BY <2>1, <2>2 DEF TypeOK, IInv, StatesOK, RowIds, Owners
<1> QED BY <1>1, StoreInvariance, PTL

\* No interleaving of rebuilds, refreshes and deletions, no failure and no crash
\* leaves a structured resource without the runtime table created with it, except
\* where two files contend for its relation and one's was committed while another
\* writer was at work.
THEOREM ResourcesKeepTables == Spec => []RowsHaveTables
<1>1. IInv => RowsHaveTables
  BY DEF IInv, DatasetOK
<1> QED BY <1>1, StoreInvariance, PTL

\* A table a writer is about to meet under the name of its own is one committed
\* while another writer was at work, or one of another key.
LEMMA MetTables ==
  ASSUME IInv, NEW a \in Running, MeetsTable(a)
  PROVE  LET k == RelationFor(Statement(a).arg)
         IN k \in overlapped \/ \E l, m \in Keys : l # m /\ RelationOf[l] = k /\ RelationOf[m] = k
<1> DEFINE p == program[a]
           t == tx[a]
           x == Statement(a).arg
           k == RelationFor(x)
<1>1. /\ a \in Actors /\ ActorInv(a) /\ StatesOK /\ DatasetOK
      /\ p \in Seq(Statements) /\ p # << >> /\ Statement(a) = p[1] /\ Statement(a).op = "create"
      /\ Statement(a) \in Statements
  BY DEF Running, IInv, StatesOK, MeetsTable, Statement
<1>2. x \in ToSet(Sheets) /\ x.key \in Keys /\ k \in Relations /\ RelationOf[x.key] = k
  <2>1. x \in ToSet(Sheets)
    BY <1>1, StatementParts
  <2> QED BY <2>1, SheetParts DEF RelationFor
<1>3. TableSeen(a, k) # NoTable
  BY <1>1 DEF MeetsTable, Fault
<1>4. k \notin DOMAIN t.tabs => tables[k] # NoTable
  BY <1>3 DEF TableSeen
<1>5. k \in DOMAIN t.tabs => t.tabs[k] # NoTable
  BY <1>3 DEF TableSeen
<1>6. CreationInv(a, p, t) /\ SelectedInv(rows, overlapped, p, t) /\ KeyInv(rows, t)
  BY <1>1 DEF ActorInv
<1>7. /\ RowOf(a, x) \in t.added /\ RowOf(a, x).key = x.key
      /\ \A l \in DOMAIN t.tabs : t.tabs[l] # <<a, x.key>>
  BY <1>1, <1>6 DEF CreationInv, RowOf
<1>8. ~Pending(p, "drop", k)
  <2>1. \A s \in ToSet(p) : s.op \in Creating
    BY <1>6, <1>7 DEF CreationInv
  <2> QED BY <2>1 DEF Pending, Creating
<1>9. CASE k \in DOMAIN t.tabs
  <2>1. PICK r \in t.added : r.id = t.tabs[k] /\ RelationFor(r) = k
    BY <1>5, <1>6, <1>9 DEF CreationInv
  <2>2. r.id = <<a, r.key>> /\ r.key \in Keys
    <3>1. r \in TableRows
      BY <1>1 DEF StatesOK, Transactions
    <3> QED BY <1>6, <3>1, RowParts DEF CreationInv
  <2>3. r.key # x.key
    BY <1>7, <1>9, <2>1, <2>2
  <2> QED BY <1>2, <2>1, <2>2, <2>3 DEF RelationFor
<1>10. CASE k \notin DOMAIN t.tabs
  <2>1. CASE \A r \in rows : r.id # tables[k]
    <3>1. k \in Orphans
      BY <1>2, <1>4, <1>10, <2>1 DEF Orphans
    <3> QED BY <1>1, <3>1 DEF DatasetOK
  <2>2. CASE \E r \in rows : r.id = tables[k]
    <3>1. PICK r \in rows : r.id = tables[k]
      BY <2>2
    <3>2. r.key \in Keys /\ r.id[2] = r.key
      BY <1>1, RowParts DEF StatesOK
    <3>3. RelationOf[r.key] = k
      BY <1>1, <1>2, <1>4, <1>10, <3>1, <3>2 DEF DatasetOK
    <3>4. CASE r.key = x.key
      <4>1. r.id \in t.gone
        BY <1>6, <1>7, <3>4 DEF KeyInv
      <4>2. RelationFor(r) = k
        BY <3>3 DEF RelationFor
      <4> QED BY <1>6, <1>8, <1>10, <4>1, <4>2 DEF SelectedInv, Going
    <3> QED BY <1>2, <3>2, <3>3, <3>4
  <2> QED BY <2>1, <2>2
<1> QED BY <1>9, <1>10

\* A runtime table that lost its resource was committed while another writer was
\* at work, and so was one that makes an import fail with DuplicateTable, unless
\* two keys have its name.
THEOREM OrphansExplained == Spec => []OrphansNeedOverlap
<1>1. IInv => OrphansNeedOverlap
  BY MetTables DEF IInv, DatasetOK, OrphansNeedOverlap
<1> QED BY <1>1, StoreInvariance, PTL

\* What a query or a schema read has read of a table stays the committed table
\* until it ends, whatever the writers do meanwhile.
THEOREM StableReads == Spec => []ReadsAreStable
<1>1. IInv => ReadsAreStable
  <2> SUFFICES ASSUME IInv, NEW a \in Running \cap (Readers \cup Queries), NEW k \in DOMAIN seen[a]
               PROVE  tables[k] = seen[a][k]
    BY DEF ReadsAreStable
  <2>1. ActorInv(a) /\ status[a] = "running" /\ a \in Readers \cup Queries
    BY DEF IInv, Running
  <2>2. ReadInv(tables, status[a], tx[a], seen[a])
    BY <2>1 DEF ActorInv
  <2> QED BY <2>1, <2>2 DEF ReadInv
<1> QED BY <1>1, StoreInvariance, PTL

-----------------------------------------------------------------------------
(* Programs, for the second layer *)

\* Where the statements of two programs are in one after the other.
LEMMA ConcatParts ==
  ASSUME NEW d \in Seq(Statements), NEW r \in Seq(Statements)
  PROVE  /\ Len(d) \in Nat /\ Len(r) \in Nat /\ DOMAIN d = 1..Len(d) /\ DOMAIN r = 1..Len(r)
         /\ d \o r \in Seq(Statements) /\ Len(d \o r) = Len(d) + Len(r)
         /\ DOMAIN (d \o r) = 1..(Len(d) + Len(r))
         /\ \A i \in 1..Len(d) : (d \o r)[i] = d[i]
         /\ \A i \in 1..Len(r) : (d \o r)[Len(d) + i] = r[i]
OBVIOUS

\* One program after another: the joins of a row are still deleted after it.
LEMMA CascadesConcat ==
  ASSUME NEW d \in Seq(Statements), NEW r \in Seq(Statements), Cascades(d), Cascades(r)
  PROVE  Cascades(d \o r)
<1> DEFINE e == d \o r
           m == Len(d)
           n == Len(r)
<1>1. m \in Nat /\ n \in Nat /\ DOMAIN d = 1..m /\ DOMAIN r = 1..n
  OBVIOUS
<1>2. /\ DOMAIN e = 1..(m + n)
      /\ \A i \in 1..m : e[i] = d[i]
      /\ \A i \in 1..n : e[m + i] = r[i]
  BY <1>1
<1> HIDE DEF e, m, n
<1>3. ASSUME NEW i \in DOMAIN e, e[i].op = "remove"
      PROVE  \E j \in DOMAIN e : i < j /\ e[j] = [op |-> "cascade", arg |-> e[i].arg]
  <2>1. CASE i \in 1..m
    <3>1. PICK j \in 1..m : i < j /\ d[j] = [op |-> "cascade", arg |-> d[i].arg]
      BY <1>1, <1>2, <1>3, <2>1 DEF Cascades
    <3>2. j \in DOMAIN e /\ e[j] = d[j] /\ e[i] = d[i]
      BY <1>1, <1>2, <2>1
    <3> QED BY <3>1, <3>2
  <2>2. CASE i \notin 1..m
    <3> DEFINE l == i - m
    <3>1. l \in 1..n /\ m + l = i
      BY <1>1, <1>2, <2>2
    <3> HIDE DEF l
    <3>2. e[i] = r[l]
      BY <1>2, <3>1
    <3>3. PICK j \in 1..n : l < j /\ r[j] = [op |-> "cascade", arg |-> r[l].arg]
      BY <1>1, <1>3, <3>1, <3>2 DEF Cascades
    <3>4. m + j \in DOMAIN e /\ e[m + j] = r[j] /\ i < m + j
      BY <1>1, <1>2, <3>1, <3>3
    <3> QED BY <3>2, <3>3, <3>4
  <2> QED BY <2>1, <2>2
<1>4. Cascades(e)
  BY <1>3 DEF Cascades
<1> QED BY <1>4 DEF e

\* A program whose first statement has run: the same.
LEMMA CascadesTail ==
  ASSUME NEW p \in Seq(Statements), p # << >>, Cascades(p)
  PROVE  Cascades(Tail(p))
<1> DEFINE n == Len(p)
           r == Tail(p)
<1>1. /\ n \in Nat /\ n > 0 /\ DOMAIN p = 1..n /\ DOMAIN r = 1..(n - 1)
      /\ \A i \in 1..(n - 1) : r[i] = p[i + 1]
  OBVIOUS
<1> HIDE DEF n, r
<1>2. ASSUME NEW i \in DOMAIN r, r[i].op = "remove"
      PROVE  \E j \in DOMAIN r : i < j /\ r[j] = [op |-> "cascade", arg |-> r[i].arg]
  <2>1. i + 1 \in DOMAIN p /\ r[i] = p[i + 1]
    BY <1>1
  <2>2. PICK j \in DOMAIN p : i + 1 < j /\ p[j] = [op |-> "cascade", arg |-> p[i + 1].arg]
    BY <1>2, <2>1 DEF Cascades
  <2>3. j - 1 \in DOMAIN r /\ i < j - 1 /\ r[j - 1] = p[j]
    BY <1>1, <2>2
  <2> QED BY <2>1, <2>2, <2>3
<1>3. Cascades(r)
  BY <1>2 DEF Cascades
<1> QED BY <1>3 DEF r

\* What has no remove in it has its cascades.
LEMMA NothingToCascade ==
  ASSUME NEW p, \A s \in ToSet(p) : s.op # "remove"
  PROVE  Cascades(p)
BY DEF Cascades, ToSet

\* A DELETE removes rows there are, and then the joins of each of them.
LEMMA DeletionPairs ==
  ASSUME StatesOK, DatasetOK, NEW s \in Statements
  PROVE  /\ Cascades(Deletion(s))
         /\ \A u \in ToSet(Deletion(s)) : u.op = "cascade" =>
              u.arg \in Ids(rows) /\ Pending(Deletion(s), "remove", u.arg)
<1>1. CASE s.op # "clear"
  <2>1. \A u \in ToSet(Deletion(s)) : u.op \notin {"remove", "cascade"}
    BY <1>1, DeletionLists
  <2> QED BY <2>1, NothingToCascade
<1>2. CASE s.op = "clear"
  <2> DEFINE cleared == {r \in rows : r.file \in s.arg}
             ids == Ids(cleared)
             q == SetToSeq(ids)
             n == Len(q)
             d == Each("remove", q)
             e == Each("cascade", q)
  <2>1. Deletion(s) = d \o e
    BY <1>2 DEF Deletion, ForEach
  <2>2. IsFiniteSet(cleared) /\ cleared \in SUBSET TableRows
    BY FS_Subset DEF StatesOK
  <2>3. ids \in SUBSET Ids(rows)
    BY DEF Ids
  <2>4. IsFiniteSet(ids) /\ ids \in SUBSET RowIds
    <3> HIDE DEF cleared
    <3> QED BY <2>2, IdsAreIds
  <2> HIDE DEF cleared, ids
  <2>5. q \in Seq(ids) /\ ToSet(q) = ids
    BY <2>4, SetToSeqLists
  <2>6. \A x \in ids : [op |-> "remove", arg |-> x] \in Statements
                       /\ [op |-> "cascade", arg |-> x] \in Statements
    BY <2>4 DEF Statements
  <2> HIDE DEF q
  <2>7. d \in Seq(Statements) /\ ToSet(d) = {[op |-> "remove", arg |-> x] : x \in ids}
    BY <2>5, <2>6, EachLists
  <2>8. e \in Seq(Statements) /\ ToSet(e) = {[op |-> "cascade", arg |-> x] : x \in ids}
    BY <2>5, <2>6, EachLists
  <2>9. /\ n \in Nat /\ DOMAIN q = 1..n
        /\ DOMAIN d = 1..n /\ \A i \in 1..n : d[i] = [op |-> "remove", arg |-> q[i]]
        /\ DOMAIN e = 1..n /\ \A i \in 1..n : e[i] = [op |-> "cascade", arg |-> q[i]]
    BY <2>5 DEF Each
  <2>10. Len(d) = n /\ Len(e) = n
    BY <2>7, <2>8, <2>9
  <2> HIDE DEF n
  <2>p. d \in Seq(Statements) /\ e \in Seq(Statements)
    BY <2>7, <2>8
  <2> HIDE DEF d, e
  <2> DEFINE f == d \o e
  <2>11. /\ DOMAIN f = 1..(n + n)
         /\ \A i \in 1..n : f[i] = d[i]
         /\ \A i \in 1..n : f[n + i] = e[i]
    <3>1. /\ DOMAIN f = 1..(Len(d) + Len(e))
          /\ \A i \in 1..Len(d) : f[i] = d[i]
          /\ \A i \in 1..Len(e) : f[Len(d) + i] = e[i]
      BY <2>p, ConcatParts
    <3> QED BY <2>10, <3>1
  <2>12. ToSet(f) = ToSet(d) \cup ToSet(e)
    BY <2>7, <2>8, ConcatStatements
  <2> HIDE DEF f
  <2>13. ASSUME NEW i \in DOMAIN f, f[i].op = "remove"
         PROVE  \E j \in DOMAIN f : i < j /\ f[j] = [op |-> "cascade", arg |-> f[i].arg]
    <3>1. i \in 1..n
      <4> SUFFICES ASSUME i \notin 1..n PROVE FALSE
        OBVIOUS
      <4>1. i - n \in 1..n /\ n + (i - n) = i
        BY <2>9, <2>11
      <4>2. f[i] = [op |-> "cascade", arg |-> q[i - n]]
        BY <2>9, <2>11, <4>1
      <4> QED BY <2>13, <4>2
    <3>2. f[i] = [op |-> "remove", arg |-> q[i]]
      BY <2>9, <2>11, <3>1
    <3>3. n + i \in DOMAIN f /\ i < n + i /\ f[n + i] = [op |-> "cascade", arg |-> q[i]]
      BY <2>9, <2>11, <3>1
    <3> QED BY <3>2, <3>3
  <2>14. Cascades(f)
    BY <2>13 DEF Cascades
  <2>15. ASSUME NEW u \in ToSet(f), u.op = "cascade"
         PROVE  u.arg \in Ids(rows) /\ Pending(f, "remove", u.arg)
    <3>1. u \in ToSet(e)
      BY <2>7, <2>12, <2>15
    <3>2. PICK x \in ids : u = [op |-> "cascade", arg |-> x]
      BY <2>8, <3>1
    <3>3. [op |-> "remove", arg |-> x] \in ToSet(f)
      BY <2>7, <2>12, <3>2
    <3> QED BY <2>3, <3>2, <3>3 DEF Pending
  <2> QED BY <2>1, <2>14, <2>15 DEF f
<1> QED BY <1>1, <1>2

-----------------------------------------------------------------------------
(* A statement that runs, for the second layer *)

\* A transaction runs statements of its sort, and a DELETE is one of those.
LEMMA ExecuteKind ==
  ASSUME StatesOK, DatasetOK, NEW a \in Actors, Execute(a), KindInv(a, program[a], tx[a]),
         NEW s, s = Statement(a),
         NEW q, q = Deletion(s) \o Tail(program[a]), NEW u, u = Effect(a)
  PROVE  KindInv(a, q, u)
<1> DEFINE p == program[a]
           t == tx[a]
           d == Deletion(s)
<1>0. MayRun(a, s, t) /\ Becomes(p, s, q) /\ Adds(a, s, t, u)
  BY StatementRuns
<1>1. /\ s \in Statements /\ ToSet(p) = {s} \cup ToSet(Tail(p)) /\ ToSet(q) = ToSet(d) \cup ToSet(Tail(p))
  <2> HIDE DEF p, t
  <2> QED BY <1>0 DEF MayRun, Becomes
<1>2. /\ d # << >> => s.op \in {"unjoin", "clear"}
      /\ \A v \in ToSet(d) : /\ v.op \in {"unlink", "remove", "cascade"}
                             /\ v.op \in {"remove", "cascade"} => s.op = "clear"
                             /\ v.op = "unlink" => s.op = "unjoin"
  BY <1>1, DeletionLists
<1>3. KindInv(a, p, t)
  OBVIOUS
<1> HIDE DEF p, t, d
<1>4. s.op \in OpsOf(a)
  BY <1>1, <1>3 DEF KindInv
<1>5. ASSUME NEW v \in ToSet(q) PROVE v.op \in OpsOf(a)
  <2>1. CASE v \in ToSet(Tail(p))
    BY <1>1, <1>3, <2>1 DEF KindInv
  <2>2. CASE v \in ToSet(d)
    <3>1. d # << >>
      BY <2>2, EmptyIsWellFormed
    <3>2. CASE a \in Writers
      BY <1>2, <1>4, <2>2, <3>2 DEF OpsOf, Writers
    <3>3. CASE a \notin Writers
      <4>1. s.op = "unjoin" /\ a \in Discoverers
        BY <1>2, <1>4, <3>1, <3>3 DEF OpsOf, Writers
      <4>2. v.op = "unlink"
        BY <1>2, <2>2, <4>1
      <4> QED BY <3>3, <4>1, <4>2, ActorsAssumption DEF OpsOf, Writers
    <3> QED BY <3>2, <3>3
  <2> QED BY <1>1, <1>5, <2>1, <2>2
<1>6. ASSUME a \in Writers PROVE u.shared = {} /\ u.approved = {}
  <2>1. s.op \notin {"read", "join"}
    BY <1>4, <1>6 DEF OpsOf, Writers
  <2> QED BY <1>0, <1>3, <1>6, <2>1 DEF Adds, KindInv
<1>7. ASSUME a \in Readers \cup Queries
      PROVE  DOMAIN u.tabs = {} /\ u.gone = {} /\ u.added = {} /\ u.wiped = {} /\ u.approved = {}
  <2>1. s.op = "read"
    BY <1>4, <1>7, ActorsAssumption DEF OpsOf, Writers
  <2>2. u.tabs = t.tabs /\ u.gone = t.gone /\ u.added = t.added /\ u.wiped = t.wiped /\ u.approved = t.approved
    BY <1>0, <2>1 DEF Adds
  <2> QED BY <1>3, <1>7, <2>2 DEF KindInv
<1> QED BY <1>5, <1>6, <1>7 DEF KindInv

\* A row goes while it is there, and its joins go after it.
LEMMA ExecuteRemoval ==
  ASSUME StatesOK, DatasetOK, OwnersInv, NEW a \in Actors, Execute(a),
         RemovalInv(rows, joins, status, program[a], tx[a]),
         NEW s, s = Statement(a),
         NEW q, q = Deletion(s) \o Tail(program[a]), NEW u, u = Effect(a)
  PROVE  RemovalInv(rows, joins, status, q, u)
<1> DEFINE p == program[a]
           t == tx[a]
           d == Deletion(s)
<1>0. MayRun(a, s, t) /\ Becomes(p, s, q) /\ Adds(a, s, t, u)
  BY StatementRuns
<1>1. /\ s \in Statements /\ p \in Seq(Statements) /\ p # << >> /\ s = p[1]
      /\ ToSet(p) = {s} \cup ToSet(Tail(p)) /\ ToSet(q) = ToSet(d) \cup ToSet(Tail(p))
      /\ s.op = "join" => s.arg \subseteq Ids(rows)
  <2> HIDE DEF p, t
  <2> QED BY <1>0 DEF MayRun, Becomes
<1>2. d \in Seq(Statements)
  BY <1>1, DeletionLists
<1>3. Cascades(d) /\ \A v \in ToSet(d) : v.op = "cascade" => v.arg \in Ids(rows) /\ Pending(d, "remove", v.arg)
  BY <1>1, DeletionPairs
<1>4. RemovalInv(rows, joins, status, p, t) /\ q = d \o Tail(p)
  OBVIOUS
<1> HIDE DEF p, t, d
<1>5. /\ u.gone = IF s.op = "remove" /\ s.arg \in Ids(rows) THEN t.gone \cup {s.arg} ELSE t.gone
      /\ u.wiped = t.wiped \cup IF s.op = "cascade" THEN {j \in joins : s.arg \in j}
                                ELSE IF s.op = "unlink" THEN {s.arg} \cap joins ELSE {}
      /\ u.approved = IF s.op = "join" THEN {s.arg} ELSE t.approved
  BY <1>0 DEF Adds
<1>6. u.gone \subseteq Ids(rows) /\ t.gone \subseteq u.gone /\ t.wiped \subseteq u.wiped
  BY <1>4, <1>5 DEF RemovalInv
<1>7. Cascades(q)
  <2>1. Tail(p) \in Seq(Statements) /\ Cascades(Tail(p))
    BY <1>1, <1>4, CascadesTail DEF RemovalInv
  <2> QED BY <1>2, <1>3, <1>4, <2>1, CascadesConcat
<1>8. ASSUME NEW v \in ToSet(q), v.op = "cascade" PROVE Settled(status, v.arg)
  <2>1. CASE v \in ToSet(d)
    <3>1. PICK r \in rows : r.id = v.arg
      BY <1>3, <1>8, <2>1 DEF Ids
    <3> QED BY <3>1 DEF OwnersInv
  <2>2. CASE v \in ToSet(Tail(p))
    BY <1>1, <1>4, <1>8, <2>2 DEF RemovalInv
  <2> QED BY <1>1, <1>8, <2>1, <2>2
<1>9. ASSUME NEW x \in u.gone, NEW j \in joins, x \in j PROVE j \in u.wiped \/ Pending(q, "cascade", x)
  <2>1. CASE x \in t.gone
    <3>1. j \in t.wiped \/ Pending(p, "cascade", x)
      BY <1>4, <1>9, <2>1 DEF RemovalInv
    <3>2. CASE Pending(p, "cascade", x)
      <4>1. CASE s = [op |-> "cascade", arg |-> x]
        BY <1>5, <1>9, <4>1
      <4>2. CASE s # [op |-> "cascade", arg |-> x]
        BY <1>1, <3>2, <4>2 DEF Pending
      <4> QED BY <4>1, <4>2
    <3> QED BY <1>6, <3>1, <3>2
  <2>2. CASE x \notin t.gone
    <3>1. s.op = "remove" /\ s.arg = x
      BY <1>5, <2>2
    <3>2. 1 \in DOMAIN p
      BY <1>1
    <3>3. PICK i \in DOMAIN p : p[i] = [op |-> "cascade", arg |-> x]
      BY <1>1, <1>4, <3>1, <3>2 DEF RemovalInv, Cascades
    <3>4. p[i] \in ToSet(p) /\ p[i] # s
      BY <3>1, <3>3 DEF ToSet
    <3> QED BY <1>1, <3>3, <3>4 DEF Pending
  <2> QED BY <2>1, <2>2
<1>10. ASSUME NEW x \in Ids(rows), Pending(q, "cascade", x) PROVE x \in u.gone \/ Pending(q, "remove", x)
  <2>1. CASE [op |-> "cascade", arg |-> x] \in ToSet(d)
    <3>1. [op |-> "cascade", arg |-> x].op = "cascade" /\ [op |-> "cascade", arg |-> x].arg = x
      OBVIOUS
    <3>2. Pending(d, "remove", x)
      BY <1>3, <2>1, <3>1
    <3> QED BY <1>1, <3>2 DEF Pending
  <2>2. CASE [op |-> "cascade", arg |-> x] \in ToSet(Tail(p))
    <3>1. x \in t.gone \/ Pending(p, "remove", x)
      BY <1>1, <1>4, <2>2 DEF RemovalInv, Pending
    <3>2. CASE Pending(p, "remove", x)
      <4>1. CASE s = [op |-> "remove", arg |-> x]
        BY <1>5, <1>10, <4>1
      <4>2. CASE s # [op |-> "remove", arg |-> x]
        BY <1>1, <3>2, <4>2 DEF Pending
      <4> QED BY <4>1, <4>2
    <3> QED BY <1>6, <3>1, <3>2
  <2> QED BY <1>1, <1>10, <2>1, <2>2 DEF Pending
<1>11. \A j \in u.approved : j \subseteq Ids(rows)
  BY <1>1, <1>4, <1>5 DEF RemovalInv
<1> QED BY <1>6, <1>7, <1>8, <1>9, <1>10, <1>11 DEF RemovalInv

\* What one deletes or approves is not what another deletes.
LEMMA ExecuteApart ==
  ASSUME StatesOK, DatasetOK, NEW a \in Actors, Execute(a),
         NEW b \in Actors, b # a, ActorInv(b),
         ApartInv(tx[a], tx[b]), ApartInv(tx[b], tx[a]),
         NEW u, u = Effect(a)
  PROVE  ApartInv(u, tx[b]) /\ ApartInv(tx[b], u)
<1> DEFINE t == tx[a]
           w == tx[b]
           s == Statement(a)
<1>0. MayRun(a, s, t) /\ Adds(a, s, t, u)
  BY StatementRuns
<1>1. ApartInv(t, w) /\ ApartInv(w, t) /\ (status[b] # "running" => w = Clean)
  BY DEF ActorInv, ProgramInv
<1>2. status[b] = "running" => ~Holds(b, s)
  <2> HIDE DEF t, s
  <2> QED BY <1>0 DEF MayRun
<1>3. status[b] = "running" =>
        /\ s.op = "remove" => s.arg \notin w.gone \cup UNION w.approved
        /\ s.op = "join" => s.arg \cap w.gone = {}
  BY <1>2 DEF Holds
<1> HIDE DEF t, w, s
<1>4. /\ u.gone = IF s.op = "remove" /\ s.arg \in Ids(rows) THEN t.gone \cup {s.arg} ELSE t.gone
      /\ u.approved = IF s.op = "join" THEN {s.arg} ELSE t.approved
  BY <1>0 DEF Adds
<1>5. CASE status[b] # "running"
  <2>1. w.gone = {} /\ w.approved = {}
    BY <1>1, <1>5 DEF Clean
  <2>2. ApartInv(u, w) /\ ApartInv(w, u)
    BY <2>1 DEF ApartInv
  <2> QED BY <2>2 DEF w
<1>6. CASE status[b] = "running"
  <2>1. t.gone \cap w.gone = {} /\ \A j \in t.approved : j \cap w.gone = {}
    BY <1>1 DEF ApartInv
  <2>2. \A j \in w.approved : j \cap t.gone = {}
    BY <1>1 DEF ApartInv
  <2>3. u.gone \cap w.gone = {}
    BY <1>3, <1>4, <1>6, <2>1
  <2>4. \A j \in u.approved : j \cap w.gone = {}
    BY <1>3, <1>4, <1>6, <2>1
  <2>5. \A j \in w.approved : j \cap u.gone = {}
    BY <1>3, <1>4, <1>6, <2>2
  <2>6. ApartInv(u, w) /\ ApartInv(w, u)
    BY <2>3, <2>4, <2>5 DEF ApartInv
  <2> QED BY <2>6 DEF w
<1> QED BY <1>5, <1>6

\* While there are tables left to drop, nothing is deleted, and a refresh only
\* drops.
LEMMA ExecuteDropping ==
  ASSUME StatesOK, DatasetOK, NEW a \in Actors, Execute(a), ActorInv(a),
         KindInv(a, program[a], tx[a]), DroppingInv(a, program[a], tx[a]),
         NEW s, s = Statement(a),
         NEW q, q = Deletion(s) \o Tail(program[a]), NEW u, u = Effect(a)
  PROVE  DroppingInv(a, q, u)
<1> DEFINE p == program[a]
           t == tx[a]
           d == Deletion(s)
<1>1. MayRun(a, s, t) /\ Becomes(p, s, q) /\ Adds(a, s, t, u)
  BY StatementRuns
<1>2. WellFormed(p) /\ KindInv(a, p, t) /\ DroppingInv(a, p, t)
  BY DEF ActorInv, ProgramInv
<1> HIDE DEF p, t
<1>3. /\ s \in Statements /\ t \in Transactions /\ p \in Seq(Statements) /\ p # << >> /\ s = Head(p)
      /\ ToSet(p) = {s} \cup ToSet(Tail(p)) /\ ToSet(q) = ToSet(d) \cup ToSet(Tail(p))
  BY <1>1 DEF MayRun, Becomes
<1>4. \A v \in ToSet(d) : v.op \in {"unlink", "remove", "cascade"}
  BY <1>3, DeletionLists
<1>5. TabsAfter(a, s, t, u)
  BY <1>1, <1>3, AddsTabs
<1> SUFFICES ASSUME NEW k \in Relations, Pending(q, "drop", k)
             PROVE  /\ u.gone = {}
                    /\ a \in Refreshers =>
                         /\ u.wiped = {} /\ DOMAIN u.tabs \subseteq RelationsIn(FileOf[a])
                         /\ k \in RelationsIn(FileOf[a])
  BY DEF DroppingInv
<1> HIDE DEF d
<1>6. PICK v \in ToSet(Tail(p)) : v.op = "drop" /\ v = [op |-> "drop", arg |-> k]
  BY <1>3, <1>4 DEF Pending
<1>7. Pending(p, "drop", k)
  BY <1>3, <1>6 DEF Pending
<1>8. s.op \notin Creating \cup Deleting
  <2>1. PICK j \in DOMAIN Tail(p) : Tail(p)[j] = v
    BY <1>6 DEF ToSet
  <2>2. 1 \in DOMAIN p /\ j + 1 \in DOMAIN p /\ p[j + 1] = v /\ p[1] = s /\ 1 < j + 1
    BY <1>3, <2>1
  <2>3. p[j + 1].op \notin Creating
    BY <1>6, <2>2 DEF Creating
  <2> QED BY <1>2, <1>6, <2>2, <2>3 DEF WellFormed
<1>9. u.gone = t.gone /\ t.gone = {}
  BY <1>1, <1>2, <1>7, <1>8 DEF Adds, Deleting, DroppingInv
<1>10. ASSUME a \in Refreshers
       PROVE  /\ u.wiped = {} /\ DOMAIN u.tabs \subseteq RelationsIn(FileOf[a])
              /\ k \in RelationsIn(FileOf[a])
  <2>1. s.op = "drop"
    <3>1. s.op \in OpsOf(a)
      BY <1>2, <1>3 DEF KindInv
    <3>2. a \notin Rebuilders
      BY <1>10, ActorsAssumption
    <3> QED BY <1>8, <1>10, <3>1, <3>2 DEF OpsOf, Creating, Deleting
  <2>2. t.wiped = {} /\ DOMAIN t.tabs \subseteq RelationsIn(FileOf[a]) /\ k \in RelationsIn(FileOf[a])
    BY <1>2, <1>7, <1>10 DEF DroppingInv
  <2>3. u.wiped = {}
    BY <1>1, <2>1, <2>2 DEF Adds
  <2>4. s.arg \in RelationsIn(FileOf[a])
    <3>1. s.arg \in Relations /\ s = [op |-> "drop", arg |-> s.arg]
      BY <1>3, <2>1, StatementParts
    <3>2. Pending(p, "drop", s.arg)
      BY <1>3, <3>1 DEF Pending
    <3> QED BY <1>2, <1>10, <3>1, <3>2 DEF DroppingInv
  <2>5. DOMAIN u.tabs \subseteq DOMAIN t.tabs \cup {s.arg}
    BY <1>5, <2>1 DEF TabsAfter
  <2> QED BY <2>2, <2>3, <2>4, <2>5
<1> QED BY <1>9, <1>10

\* Executing a statement preserves the second layer.
LEMMA ExecuteKeepsLayer ==
  ASSUME IInv, DInv, NEW a \in Actors, Execute(a)
  PROVE  DInv'
<1> DEFINE s == Statement(a)
           u == Effect(a)
           q == Deletion(s) \o Tail(program[a])
<1>1. /\ UNCHANGED <<rows, tables, joins, status, schema, overlapped>>
      /\ tx' = [tx EXCEPT ![a] = u]
      /\ program' = [program EXCEPT ![a] = q]
  BY DEF Execute
<1>2. /\ StatesOK /\ DatasetOK /\ \A b \in Actors : ActorInv(b)
  BY DEF IInv
<1>3. /\ JoinsReferToRows /\ OwnersInv /\ \A b \in Actors : LayerInv(b)
      /\ \A b, c \in Actors : b # c => ApartInv(tx[b], tx[c])
  BY DEF DInv
<1>4. /\ KindInv(a, program[a], tx[a]) /\ RemovalInv(rows, joins, status, program[a], tx[a])
      /\ DroppingInv(a, program[a], tx[a])
  BY <1>3 DEF LayerInv
<1>5. KindInv(a, q, u)
  BY <1>2, <1>4, ExecuteKind
<1>6. RemovalInv(rows, joins, status, q, u)
  BY <1>2, <1>3, <1>4, ExecuteRemoval
<1>7. DroppingInv(a, q, u)
  BY <1>2, <1>4, ExecuteDropping
<1>8. \A b \in Actors : b # a => ApartInv(u, tx[b]) /\ ApartInv(tx[b], u)
  BY <1>2, <1>3, ExecuteApart
<1> HIDE DEF s, u, q
<1>9. /\ tx'[a] = u /\ program'[a] = q
      /\ \A b \in Actors : b # a => tx'[b] = tx[b] /\ program'[b] = program[b]
  BY <1>1, <1>2 DEF StatesOK
<1>10. JoinsReferToRows' /\ OwnersInv'
  BY <1>1, <1>3 DEF JoinsReferToRows, OwnersInv
<1>11. ASSUME NEW b \in Actors PROVE LayerInv(b)'
  <2>1. CASE b = a
    BY <1>1, <1>5, <1>6, <1>7, <1>9, <2>1 DEF LayerInv
  <2>2. CASE b # a
    BY <1>1, <1>3, <1>9, <2>2 DEF LayerInv
  <2> QED BY <2>1, <2>2
<1>12. ASSUME NEW b \in Actors, NEW c \in Actors, b # c PROVE ApartInv(tx'[b], tx'[c])
  <2>1. CASE b = a
    BY <1>8, <1>9, <1>12, <2>1
  <2>2. CASE c = a
    BY <1>8, <1>9, <1>12, <2>2
  <2>3. CASE b # a /\ c # a
    BY <1>3, <1>9, <1>12, <2>3
  <2> QED BY <2>1, <2>2, <2>3
<1> QED BY <1>10, <1>11, <1>12 DEF DInv

-----------------------------------------------------------------------------
(* Beginnings and endings, for the second layer *)

\* A transaction that does nothing deletes and approves nothing.
LEMMA RestingLayer ==
  /\ \A a : KindInv(a, << >>, Clean)
  /\ \A R, J, st : RemovalInv(R, J, st, << >>, Clean)
  /\ \A a : DroppingInv(a, << >>, Clean)
  /\ \A t : ApartInv(Clean, t) /\ ApartInv(t, Clean)
<1>1. /\ DOMAIN Clean.tabs = {} /\ Clean.shared = {} /\ Clean.added = {} /\ Clean.gone = {}
      /\ Clean.wiped = {} /\ Clean.approved = {}
  BY DEF Clean
<1>2. Cascades(<< >>)
  BY EmptyIsWellFormed, NothingToCascade
<1>3. \A a : KindInv(a, << >>, Clean)
  BY <1>1, EmptyIsWellFormed DEF KindInv
<1>4. \A R, J, st : RemovalInv(R, J, st, << >>, Clean)
  BY <1>1, <1>2, EmptyIsWellFormed DEF RemovalInv, Pending
<1>5. \A a : DroppingInv(a, << >>, Clean)
  BY EmptyIsWellFormed DEF DroppingInv, Pending
<1>6. \A t : ApartInv(Clean, t) /\ ApartInv(t, Clean)
  BY <1>1 DEF ApartInv
<1> QED BY <1>3, <1>4, <1>5, <1>6

\* Who is over stays over.
LEMMA SettledLasts ==
  ASSUME StatesOK, NEW a \in Actors, NEW e, status' = [status EXCEPT ![a] = e],
         status[a] # "committed" \/ e = "committed", NEW x \in RowIds, Settled(status, x)
  PROVE  Settled(status', x)
<1>1. x[1] \in Actors \cup {"loaded"}
  BY DEF RowIds, Owners
<1> QED BY <1>1 DEF Settled, StatesOK

\* A transaction begins or ends and leaves the dataset alone: the others stay as
\* they were.
LEMMA LayerStays ==
  ASSUME StatesOK, DInv, UNCHANGED <<rows, joins>>,
         NEW a \in Actors, NEW e, status' = [status EXCEPT ![a] = e], status[a] # "committed",
         \A b \in Actors : b # a => program'[b] = program[b] /\ tx'[b] = tx[b]
  PROVE  /\ JoinsReferToRows' /\ OwnersInv'
         /\ \A b \in Actors : b # a => LayerInv(b)'
         /\ \A b, c \in Actors : b # c /\ b # a /\ c # a => ApartInv(tx'[b], tx'[c])
<1>1. /\ JoinsReferToRows /\ OwnersInv /\ \A b \in Actors : LayerInv(b)
      /\ \A b, c \in Actors : b # c => ApartInv(tx[b], tx[c])
  BY DEF DInv
<1>2. JoinsReferToRows'
  BY <1>1 DEF JoinsReferToRows
<1>3. OwnersInv'
  <2>1. \A r \in rows : r.id \in RowIds
    BY RowParts DEF StatesOK
  <2> QED BY <1>1, <2>1, SettledLasts DEF OwnersInv
<1>4. ASSUME NEW b \in Actors, b # a PROVE LayerInv(b)'
  <2> DEFINE p == program[b]
             t == tx[b]
  <2>1. /\ KindInv(b, p, t) /\ RemovalInv(rows, joins, status, p, t)
        /\ DroppingInv(b, p, t)
    BY <1>1 DEF LayerInv
  <2>2. p \in Seq(Statements)
    BY DEF StatesOK
  <2> HIDE DEF p, t
  <2>3. \A s \in ToSet(p) : s.op = "cascade" => Settled(status', s.arg)
    <3> SUFFICES ASSUME NEW s \in ToSet(p), s.op = "cascade" PROVE Settled(status', s.arg)
      OBVIOUS
    <3>1. s \in Statements
      BY <2>2 DEF ToSet
    <3>2. s.arg \in RowIds
      BY <3>1, StatementParts
    <3> QED BY <2>1, <3>2, SettledLasts DEF RemovalInv
  <2>4. RemovalInv(rows, joins, status', p, t)
    BY <2>1, <2>3 DEF RemovalInv
  <2>5. program'[b] = p /\ tx'[b] = t
    BY <1>4 DEF p, t
  <2> QED BY <2>1, <2>4, <2>5 DEF LayerInv
<1>5. ASSUME NEW b \in Actors, NEW c \in Actors, b # c, b # a, c # a PROVE ApartInv(tx'[b], tx'[c])
  BY <1>1, <1>5
<1> QED BY <1>2, <1>3, <1>4, <1>5

\* A rollback preserves the second layer.
LEMMA RollBackKeepsLayer ==
  ASSUME IInv, DInv, NEW a \in Actors, NEW error, status[a] = "running", RollBack(a, error)
  PROVE  DInv'
<1>1. /\ UNCHANGED <<rows, joins>>
      /\ status' = [status EXCEPT ![a] = error]
      /\ program' = [program EXCEPT ![a] = << >>]
      /\ tx' = [tx EXCEPT ![a] = Clean]
  BY DEF RollBack
<1>2. StatesOK
  BY DEF IInv
<1>3. /\ tx'[a] = Clean /\ program'[a] = << >>
      /\ \A b \in Actors : b # a => program'[b] = program[b] /\ tx'[b] = tx[b]
  BY <1>1, <1>2 DEF StatesOK
<1>4. /\ JoinsReferToRows' /\ OwnersInv'
      /\ \A b \in Actors : b # a => LayerInv(b)'
      /\ \A b, c \in Actors : b # c /\ b # a /\ c # a => ApartInv(tx'[b], tx'[c])
  BY <1>1, <1>2, <1>3, LayerStays
<1>5. LayerInv(a)'
  BY <1>3, RestingLayer DEF LayerInv
<1>6. \A b, c \in Actors : b # c => ApartInv(tx'[b], tx'[c])
  BY <1>3, <1>4, RestingLayer
<1> QED BY <1>4, <1>5, <1>6 DEF DInv

\* Beginning a program that may start preserves the second layer.
LEMMA BeginKeepsLayer ==
  ASSUME IInv, DInv, NEW a, NEW p, Starts(a, p)
  PROVE  DInv'
<1>1. a \in Actors /\ MayStart(a, p) /\ Begin(a, p)
  BY DEF Starts
<1>2. /\ UNCHANGED <<rows, joins, tx>> /\ status[a] = "idle"
      /\ status' = [status EXCEPT ![a] = "running"]
      /\ program' = [program EXCEPT ![a] = p]
  BY <1>1 DEF Begin
<1>3. StatesOK /\ ActorInv(a)
  BY <1>1 DEF IInv
<1>4. tx[a] = Clean
  BY <1>2, <1>3 DEF ActorInv, ProgramInv
<1>5. /\ tx'[a] = Clean /\ program'[a] = p
      /\ \A b \in Actors : b # a => program'[b] = program[b] /\ tx'[b] = tx[b]
  BY <1>1, <1>2, <1>3, <1>4 DEF StatesOK
<1>6. /\ JoinsReferToRows' /\ OwnersInv'
      /\ \A b \in Actors : b # a => LayerInv(b)'
      /\ \A b, c \in Actors : b # c /\ b # a /\ c # a => ApartInv(tx'[b], tx'[c])
  BY <1>1, <1>2, <1>3, <1>5, LayerStays
<1>7. LayerInv(a)'
  <2>1. /\ DOMAIN Clean.tabs = {} /\ Clean.shared = {} /\ Clean.added = {} /\ Clean.gone = {}
        /\ Clean.wiped = {} /\ Clean.approved = {}
    BY DEF Clean
  <2>2. \A s \in ToSet(p) : s.op \in OpsOf(a) \ {"remove", "cascade"}
    BY <1>1 DEF MayStart
  <2>3. KindInv(a, p, Clean)
    BY <2>1, <2>2 DEF KindInv
  <2>4. RemovalInv(rows', joins', status', p, Clean)
    <3>1. Cascades(p)
      BY <2>2, NothingToCascade
    <3>2. \A x : ~Pending(p, "cascade", x)
      BY <2>2 DEF Pending
    <3> QED BY <2>1, <2>2, <3>1, <3>2 DEF RemovalInv
  <2>5. DroppingInv(a, p, Clean)
    BY <1>1, <2>1 DEF MayStart, DroppingInv
  <2> QED BY <1>5, <2>3, <2>4, <2>5 DEF LayerInv
<1>8. \A b, c \in Actors : b # c => ApartInv(tx'[b], tx'[c])
  BY <1>5, <1>6, RestingLayer
<1> QED BY <1>6, <1>7, <1>8 DEF DInv

\* A commit preserves the second layer: the joins that stay are those of rows
\* that stay, and what others have deleted or approved is still there.
LEMMA CommitKeepsLayer ==
  ASSUME IInv, DInv, NEW a \in Actors, Commit(a)
  PROVE  DInv'
<1> DEFINE t == tx[a]
<1>1. /\ status[a] = "running" /\ program[a] = << >>
      /\ rows' = {r \in rows : r.id \notin t.gone} \cup t.added
      /\ joins' = (joins \ t.wiped) \cup t.approved
      /\ status' = [status EXCEPT ![a] = "committed"]
      /\ tx' = [tx EXCEPT ![a] = Clean]
      /\ UNCHANGED program
  BY DEF Commit, Running
<1>2. /\ StatesOK /\ DatasetOK /\ ActorInv(a)
  BY DEF IInv
<1>3. /\ JoinsReferToRows /\ OwnersInv /\ \A b \in Actors : LayerInv(b)
      /\ \A b, c \in Actors : b # c => ApartInv(tx[b], tx[c])
  BY DEF DInv
<1>4. /\ tx'[a] = Clean /\ program'[a] = << >> /\ status'[a] = "committed"
      /\ \A b \in Actors : b # a => tx'[b] = tx[b] /\ program'[b] = program[b]
  BY <1>1, <1>2 DEF StatesOK
<1>5. /\ KindInv(a, << >>, t) /\ RemovalInv(rows, joins, status, << >>, t)
  BY <1>1, <1>3 DEF LayerInv
<1>6. \A r \in t.added : r.id[1] = a
  BY <1>2 DEF ActorInv, CreationInv
<1>7. t.approved # {} => t.gone = {}
  <2>1. a \notin Writers => t.gone = {}
    BY <1>2 DEF ActorInv, ProgramInv
  <2> QED BY <1>5, <2>1 DEF KindInv
<1>8. \A x : ~Pending(<< >>, "cascade", x)
  BY EmptyIsWellFormed DEF Pending
<1>9. \A b \in Actors : b # a => t.gone \cap tx[b].gone = {} /\ \A j \in tx[b].approved : j \cap t.gone = {}
  BY <1>3 DEF ApartInv
<1>10. \A b \in Actors : b # a => \A j \in t.approved : j \cap tx[b].gone = {}
  BY <1>3 DEF ApartInv
<1> HIDE DEF t
<1>11. \A x \in Ids(rows) : x \notin t.gone => x \in Ids(rows')
  BY <1>1 DEF Ids
<1>12. \A x \in Ids(rows') : x \in Ids(rows) \/ x[1] = a
  <2> SUFFICES ASSUME NEW r \in rows', r.id \notin Ids(rows) PROVE r.id[1] = a
    BY DEF Ids
  <2>1. r \in t.added
    BY <1>1 DEF Ids
  <2> QED BY <1>6, <2>1
<1>13. JoinsReferToRows'
  <2> SUFFICES ASSUME NEW j \in joins', NEW x \in j PROVE x \in Ids(rows')
    BY DEF JoinsReferToRows
  <2>1. CASE j \in joins /\ j \notin t.wiped
    <3>1. x \in Ids(rows)
      BY <1>3, <2>1 DEF JoinsReferToRows
    <3>2. x \notin t.gone
      BY <1>5, <1>8, <2>1 DEF RemovalInv
    <3> QED BY <1>11, <3>1, <3>2
  <2>2. CASE j \in t.approved
    <3>1. x \in Ids(rows)
      BY <1>5, <2>2 DEF RemovalInv
    <3>2. x \notin t.gone
      BY <1>7, <2>2
    <3> QED BY <1>11, <3>1, <3>2
  <2> QED BY <1>1, <2>1, <2>2
<1>14. OwnersInv'
  <2> SUFFICES ASSUME NEW r \in rows' PROVE Settled(status', r.id)
    BY DEF OwnersInv
  <2>1. CASE r \in rows
    <3>1. r.id \in RowIds /\ Settled(status, r.id)
      BY <1>2, <1>3, <2>1, RowParts DEF StatesOK, OwnersInv
    <3> QED BY <1>1, <1>2, <3>1, SettledLasts
  <2>2. CASE r \in t.added
    <3>1. r.id[1] = a
      BY <1>6, <2>2
    <3> QED BY <1>4, <3>1 DEF Settled
  <2> QED BY <1>1, <2>1, <2>2
<1>15. ASSUME NEW b \in Actors, b # a PROVE LayerInv(b)'
  <2> DEFINE p == program[b]
             w == tx[b]
  <2>1. /\ KindInv(b, p, w) /\ RemovalInv(rows, joins, status, p, w)
        /\ DroppingInv(b, p, w)
    BY <1>3 DEF LayerInv
  <2>2. p \in Seq(Statements)
    BY <1>2 DEF StatesOK
  <2>3. /\ t.gone \cap w.gone = {} /\ \A j \in w.approved : j \cap t.gone = {}
        /\ \A j \in t.approved : j \cap w.gone = {}
    BY <1>9, <1>10, <1>15
  <2> HIDE DEF p, w
  <2>4. \A s \in ToSet(p) : s.op = "cascade" => s.arg \in RowIds /\ Settled(status, s.arg)
    <3> SUFFICES ASSUME NEW s \in ToSet(p), s.op = "cascade"
                 PROVE  s.arg \in RowIds /\ Settled(status, s.arg)
      OBVIOUS
    <3>1. s \in Statements
      BY <2>2 DEF ToSet
    <3> QED BY <2>1, <3>1, StatementParts DEF RemovalInv
  <2>5. \A s \in ToSet(p) : s.op = "cascade" => Settled(status', s.arg)
    BY <1>1, <1>2, <2>4, SettledLasts
  <2>6. w.gone \subseteq Ids(rows')
    BY <1>11, <2>1, <2>3 DEF RemovalInv
  <2>7. ASSUME NEW x \in w.gone, NEW j \in joins', x \in j PROVE j \in w.wiped \/ Pending(p, "cascade", x)
    <3>1. j \notin t.approved
      BY <2>3, <2>7
    <3> QED BY <1>1, <2>1, <2>7, <3>1 DEF RemovalInv
  <2>8. ASSUME NEW x \in Ids(rows'), Pending(p, "cascade", x) PROVE x \in w.gone \/ Pending(p, "remove", x)
    <3>1. Settled(status, x)
      BY <2>4, <2>8 DEF Pending
    <3>2. x[1] # a
      BY <1>1, <3>1, ActorsAssumption DEF Settled
    <3> QED BY <1>12, <2>1, <2>8, <3>2 DEF RemovalInv
  <2>9. ASSUME NEW j \in w.approved PROVE j \subseteq Ids(rows')
    BY <1>11, <2>1, <2>3, <2>9 DEF RemovalInv
  <2>10. RemovalInv(rows', joins', status', p, w)
    BY <2>1, <2>5, <2>6, <2>7, <2>8, <2>9 DEF RemovalInv
  <2>11. program'[b] = p /\ tx'[b] = w
    BY <1>4, <1>15 DEF p, w
  <2> QED BY <2>1, <2>10, <2>11 DEF LayerInv
<1>16. LayerInv(a)'
  BY <1>4, RestingLayer DEF LayerInv
<1>17. \A b, c \in Actors : b # c => ApartInv(tx'[b], tx'[c])
  BY <1>3, <1>4, RestingLayer
<1> QED BY <1>13, <1>14, <1>15, <1>16, <1>17 DEF DInv

\* The second layer holds at the start.
LEMMA InitDInv == Init => DInv
<1> SUFFICES ASSUME Init PROVE DInv
  OBVIOUS
<1>1. /\ joins \in {{j} : j \in JoinsOver(Ids(rows))} \cup {{}}
      /\ program = [a \in Actors |-> << >>] /\ tx = [a \in Actors |-> Clean]
  BY DEF Init
<1>2. JoinsReferToRows
  BY <1>1 DEF JoinsReferToRows, JoinsOver
<1>3. OwnersInv
  <2>1. \A r \in rows : r.id[1] = "loaded"
    BY DEF Init, RowOf
  <2> QED BY <2>1 DEF OwnersInv, Settled
<1>4. \A a \in Actors : LayerInv(a)
  BY <1>1, RestingLayer DEF LayerInv
<1>5. \A a, b \in Actors : ApartInv(tx[a], tx[b])
  BY <1>1, RestingLayer
<1> QED BY <1>2, <1>3, <1>4, <1>5 DEF DInv

\* Every step preserves the second layer.
LEMMA NextDInv == IInv /\ DInv /\ [Next]_vars => DInv'
<1> SUFFICES ASSUME IInv, DInv, [Next]_vars PROVE DInv'
  OBVIOUS
<1>1. CASE \/ ReplaceDataset \/ RefreshStructured
           \/ ListStructuredResources \/ ExecuteReadOnlySql \/ ReplaceApprovedJoins
  <2>1. \E a, p : Starts(a, p)
    BY <1>1, ReplaceDatasetStarts, RefreshStructuredStarts, ListStructuredResourcesStarts,
       ExecuteReadOnlySqlStarts, ReplaceApprovedJoinsStarts
  <2> QED BY <2>1, BeginKeepsLayer
<1>2. CASE \E a \in Actors : Execute(a)
  BY <1>2, ExecuteKeepsLayer
<1>3. CASE \E a \in Actors : Commit(a)
  BY <1>3, CommitKeepsLayer
<1>4. ASSUME NEW a \in Actors, Fail(a) \/ DetectDeadlock(a) \/ Crash(a) PROVE DInv'
  <2>1. status[a] = "running" /\ \E error : RollBack(a, error)
    BY <1>4 DEF Fail, DetectDeadlock, Deadlocked, Blockers, Crash, Running
  <2> QED BY <2>1, RollBackKeepsLayer
<1>5. CASE UNCHANGED vars
  BY <1>5 DEF DInv, vars, JoinsReferToRows, OwnersInv, LayerInv
<1> QED BY <1>1, <1>2, <1>3, <1>4, <1>5 DEF Next

-----------------------------------------------------------------------------
(* Circles *)

\* Nobody in S waits for anybody outside.
Closed(S) == S \in SUBSET Running /\ \A b \in S : Blockers(b) \subseteq S

\* Whom a waits for, directly or through others.
Reach(a) == {b \in Running : \A S \in SUBSET Running : Blockers(a) \subseteq S /\ Closed(S) => b \in S}

\* What Reach reaches is closed, and the least that is and has a's blockers.
LEMMA ReachParts ==
  ASSUME NEW a
  PROVE  /\ Blockers(a) \subseteq Reach(a) /\ Closed(Reach(a))
         /\ \A S : Closed(S) /\ Blockers(a) \subseteq S => Reach(a) \subseteq S
         /\ \A b \in Reach(a) : Reach(b) \subseteq Reach(a)
<1>1. \A b : Blockers(b) \subseteq Running
  BY DEF Blockers
<1>2. Blockers(a) \subseteq Reach(a)
  BY <1>1 DEF Reach
<1>3. Closed(Reach(a))
  BY <1>1 DEF Reach, Closed
<1>4. \A S : Closed(S) /\ Blockers(a) \subseteq S => Reach(a) \subseteq S
  BY DEF Reach, Closed
<1>5. ASSUME NEW b \in Reach(a) PROVE Reach(b) \subseteq Reach(a)
  <2>1. Blockers(b) \subseteq Reach(a)
    BY <1>3 DEF Closed
  <2> QED BY <1>3, <2>1 DEF Reach, Closed
<1> QED BY <1>2, <1>3, <1>4, <1>5

\* A deadlocked transaction is one that reaches itself.
LEMMA DeadlockReaches ==
  ASSUME NEW a
  PROVE  Deadlocked(a) <=> a \in Reach(a)
<1>1. ASSUME Deadlocked(a) PROVE a \in Reach(a)
  <2>1. a \in Running
    BY <1>1 DEF Deadlocked, Blockers
  <2> QED BY <1>1, <2>1 DEF Deadlocked, Reach, Closed
<1>2. ASSUME a \in Reach(a) PROVE Deadlocked(a)
  <2>1. Blockers(a) # {}
    <3> SUFFICES ASSUME Blockers(a) = {} PROVE FALSE
      OBVIOUS
    <3>1. Closed({})
      BY DEF Closed
    <3> QED BY <1>2, <3>1, ReachParts
  <2> QED BY <1>2, <2>1 DEF Deadlocked, Reach, Closed
<1> QED BY <1>1, <1>2

\* The transactions of C wait for one another: each for one of them, and one of
\* them for each.
Circle(C) ==
  /\ C \subseteq Running
  /\ \A b \in C : /\ Deadlocked(b)
                  /\ \E c \in C : c \in Blockers(b)
                  /\ \E c \in C : b \in Blockers(c)

\* A deadlocked transaction is in a circle: of those it reaches that reach it.
LEMMA CirclesExist ==
  ASSUME NEW a, Deadlocked(a)
  PROVE  \E C : Circle(C) /\ a \in C
<1> DEFINE C == {b \in Reach(a) : a \in Reach(b)}
<1>1. a \in Reach(a)
  BY DeadlockReaches
<1>2. a \in C /\ C \subseteq Running
  BY <1>1 DEF Reach
<1>3. ASSUME NEW b \in C PROVE Deadlocked(b)
  <2>1. Reach(a) \subseteq Reach(b)
    BY ReachParts
  <2> QED BY <2>1, DeadlockReaches
<1>4. ASSUME NEW b \in C PROVE \E c \in C : c \in Blockers(b)
  <2> DEFINE S == Blockers(b) \cup UNION {Reach(c) : c \in Blockers(b)}
  <2>1. Closed(S)
    <3>1. S \subseteq Running
      BY DEF Blockers, Reach
    <3>2. ASSUME NEW d \in S PROVE Blockers(d) \subseteq S
      <4>1. CASE d \in Blockers(b)
        BY <4>1, ReachParts
      <4>2. CASE \E c \in Blockers(b) : d \in Reach(c)
        <5>1. PICK c \in Blockers(b) : d \in Reach(c)
          BY <4>2
        <5>2. Blockers(d) \subseteq Reach(c)
          BY <5>1, ReachParts DEF Closed
        <5> QED BY <5>2
      <4> QED BY <3>2, <4>1, <4>2
    <3> QED BY <3>1, <3>2 DEF Closed
  <2>2. Reach(b) \subseteq S
    <3>1. Blockers(b) \subseteq S
      OBVIOUS
    <3> HIDE DEF S
    <3> QED BY <2>1, <3>1, ReachParts
  <2>3. PICK c \in Blockers(b) : a = c \/ a \in Reach(c)
    BY <2>2
  <2>4. a \in Reach(c)
    BY <1>1, <2>3
  <2>5. c \in Reach(a)
    BY ReachParts DEF Closed
  <2> QED BY <2>3, <2>4, <2>5
<1>5. ASSUME NEW b \in C PROVE \E c \in C : b \in Blockers(c)
  <2>1. b \in Reach(b)
    BY <1>3, DeadlockReaches
  <2>2. PICK c \in Reach(b) : b \in Blockers(c)
    <3> SUFFICES ASSUME \A c \in Reach(b) : b \notin Blockers(c) PROVE FALSE
      OBVIOUS
    <3> DEFINE S == Reach(b) \ {b}
    <3>1. Closed(Reach(b)) /\ Blockers(b) \subseteq Reach(b)
      BY ReachParts
    <3>2. Closed(S) /\ Blockers(b) \subseteq S
      BY <2>1, <3>1 DEF Closed
    <3>3. Reach(b) \subseteq S
      <4> HIDE DEF S
      <4> QED BY <3>2, ReachParts
    <3> QED BY <2>1, <3>3
  <2>3. c \in Reach(a)
    <3>1. Reach(b) \subseteq Reach(a)
      BY ReachParts
    <3> QED BY <2>2, <3>1
  <2>4. a \in Reach(c)
    <3>1. b \in Reach(c)
      BY <2>2, ReachParts
    <3>2. Reach(b) \subseteq Reach(c)
      BY <3>1, ReachParts
    <3> QED BY <3>2
  <2> QED BY <2>2, <2>3, <2>4
<1>6. Circle(C)
  BY <1>2, <1>3, <1>4, <1>5 DEF Circle
<1> QED BY <1>2, <1>6

-----------------------------------------------------------------------------
(* Who is in a circle *)

\* A transaction that has only read holds nothing but the tables it has read,
\* against a drop.
LEMMA ReadersHoldTables ==
  ASSUME NEW b, NEW s, Holds(b, s), DOMAIN tx[b].tabs = {}, tx[b].gone = {}, tx[b].added = {},
         tx[b].wiped = {}, tx[b].approved = {}
  PROVE  s.op = "drop" /\ s.arg \in tx[b].shared
<1>1. Dropped(b) = {} /\ Created(b) = {}
  BY DEF Dropped, Created
<1> QED BY <1>1 DEF Holds

\* A writer that waits to drop a table holds, if anything, tables it has dropped
\* or joins it has deleted.
LEMMA DropperHolds ==
  ASSUME IInv, DInv, NEW b \in Writers, NEW k \in Relations, Pending(program[b], "drop", k),
         NEW s, Holds(b, s)
  PROVE  Dropped(b) # {} \/ tx[b].wiped # {}
<1> DEFINE t == tx[b]
<1>1. b \in Actors
  BY DEF Writers, Actors
<1>2. t.shared = {} /\ t.approved = {} /\ t.gone = {}
  BY <1>1 DEF DInv, LayerInv, KindInv, DroppingInv
<1>3. CreationInv(b, program[b], t)
  BY <1>1 DEF IInv, ActorInv
<1>4. t.added = {}
  BY <1>3 DEF CreationInv, Pending, Creating
<1>5. Created(b) = {}
  BY <1>3, <1>4 DEF CreationInv, Created
<1> QED BY <1>2, <1>4, <1>5 DEF Holds

\* A schema read or a query in a circle is waited for by a writer in it that has
\* a table to drop, and has dropped another or, a rebuild, has deleted joins.
LEMMA CirclesNeedDrops == IInv /\ DInv => DeadlocksNeedSeveralDrops
<1> SUFFICES ASSUME IInv, DInv, NEW a \in Running \cap (Readers \cup Queries), Deadlocked(a)
             PROVE  \E b \in Running :
                      /\ Deadlocked(b) /\ Statement(b).op = "drop"
                      /\ \/ b \in Rebuilders /\ (Dropped(b) # {} \/ tx[b].wiped # {})
                         \/ b \in Refreshers /\ Dropped(b) # {} /\ SeveralTables(FileOf[b])
  BY DEF DeadlocksNeedSeveralDrops
<1>1. PICK C : Circle(C) /\ a \in C
  BY CirclesExist
<1>2. PICK b \in C : a \in Blockers(b)
  BY <1>1 DEF Circle
<1>3. PICK c \in C : b \in Blockers(c)
  BY <1>1 DEF Circle
<1>4. b \in Running /\ Deadlocked(b)
  BY <1>1, <1>2 DEF Circle
<1>5. /\ a \in Actors /\ b \in Actors /\ a # b /\ program[b] # << >> /\ program[b] \in Seq(Statements)
      /\ Holds(a, Statement(b)) /\ Holds(b, Statement(c))
  BY <1>2, <1>3, <1>4 DEF Running, Blockers, IInv, StatesOK
<1>6. /\ DOMAIN tx[a].tabs = {} /\ tx[a].gone = {} /\ tx[a].added = {}
      /\ tx[a].wiped = {} /\ tx[a].approved = {}
  BY <1>5 DEF DInv, LayerInv, KindInv
<1> DEFINE k == Statement(b).arg
<1>7. Statement(b).op = "drop" /\ k \in tx[a].shared
  BY <1>5, <1>6, ReadersHoldTables
<1>8. Statement(b) \in ToSet(program[b]) /\ Statement(b) \in Statements
  <2>1. << >> \in Seq(Statements)
    OBVIOUS
  <2> QED BY <1>5, <2>1, Unfold DEF Statement
<1>9. k \in Relations /\ Pending(program[b], "drop", k)
  BY <1>7, <1>8, StatementParts DEF Pending
<1>10. b \in Writers
  <2>1. "drop" \in OpsOf(b)
    BY <1>5, <1>7, <1>8 DEF DInv, LayerInv, KindInv
  <2> QED BY <2>1 DEF OpsOf, Writers
<1>11. Dropped(b) # {} \/ tx[b].wiped # {}
  BY <1>5, <1>9, <1>10, DropperHolds
<1>12. CASE b \in Rebuilders
  BY <1>4, <1>7, <1>11, <1>12
<1>13. CASE b \in Refreshers
  <2>1. /\ tx[b].wiped = {} /\ DOMAIN tx[b].tabs \subseteq RelationsIn(FileOf[b])
        /\ k \in RelationsIn(FileOf[b])
    BY <1>5, <1>9, <1>13 DEF DInv, LayerInv, DroppingInv
  <2>2. PICK d \in DOMAIN tx[b].tabs : d \in Dropped(b)
    BY <1>11, <2>1 DEF Dropped
  <2>3. d # k
    <3>1. ExclusiveInv(tx[a], tx[b])
      BY <1>5 DEF IInv
    <3> QED BY <1>7, <3>1 DEF ExclusiveInv
  <2>4. SeveralTables(FileOf[b])
    BY <2>1, <2>3 DEF SeveralTables, RelationsIn
  <2> QED BY <1>4, <1>7, <1>13, <2>2, <2>4
<1> QED BY <1>10, <1>12, <1>13 DEF Writers

\* The second layer of the invariant: what each transaction deletes and approves,
\* in what order, and apart from the others.
THEOREM StoreLayers == Spec => [](IInv /\ DInv)
<1>1. Init => IInv /\ DInv
  BY InitIInv, InitDInv
<1>2. IInv /\ DInv /\ [Next]_vars => (IInv /\ DInv)'
  BY NextIInv, NextDInv
<1> QED BY <1>1, <1>2, PTL DEF Spec

\* An approved join relates resources that are in the dataset, whatever is deleted
\* or approved meanwhile, rolled back or cut off by a crash.
THEOREM JoinsKeepResources == Spec => []JoinsReferToRows
<1>1. DInv => JoinsReferToRows
  BY DEF DInv
<1> QED BY <1>1, StoreLayers, PTL

\* Requests and the refreshes of files with one table never deadlock: where a
\* reader waits in a circle, a writer is waiting to drop a table with another one
\* dropped, or is a rebuild that has deleted joins.
THEOREM DeadlocksExplained == Spec => []DeadlocksNeedSeveralDrops
BY CirclesNeedDrops, StoreLayers, PTL
=============================================================================
