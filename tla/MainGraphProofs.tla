--------------------------- MODULE MainGraphProofs ---------------------------
(***************************************************************************)
(* Proofs about the main graph and its permission stage, for every number  *)
(* of workers, users, scopes, changes of the directory and ticks.  The     *)
(* argument for revocation is a bound that only grows, the time a user was *)
(* last in a group or last had a scope: what is read of the directory is   *)
(* read at or before it, what is stored expires at most ResolveTime and    *)
(* Ttl after it was read, and what is decided is decided from the one or   *)
(* before the other expires.                                               *)
(***************************************************************************)
EXTENDS MainGraph, WellFoundedInduction, TLAPS

PermissionNodes ==
  {"request_intake", "permission_cache_lookup", "cache_validation", "resolve_user_groups",
   "emit_permission_schema"} \cup Resolving

MainNodes ==
  {"idle", "tool_selection_planner", "tool_dispatch", "final_answer_composer", "END", "raised"}

Entries == [schema : Schemas, expires : Int]

ContextStatuses == TerminalResultStatuses \cup {"denied", "clarification", "unsupported"}

Citations == [id : Nat, step : Nat]

Contexts == [status : ContextStatuses, citations : Seq(Citations)]

Answers == [status : ContextStatuses \cup {"answered"}, citations : Seq(Citations),
            meant : Seq(Citations)]

TypeOK ==
  /\ node \in [Workers -> PermissionNodes \cup MainNodes]
  /\ user \in [Workers -> Users \cup {None}]
  /\ access \in [Workers -> {"in_progress", "ok", "access_failed", "denied"}]
  /\ found \in [Workers -> Entries \cup {None}]
  /\ groups \in [Workers -> BOOLEAN]
  /\ schema \in [Workers -> Schemas \cup {None}]
  /\ cache \in [Users -> Entries \cup {None}]
  /\ directory \in [Users -> [groups : BOOLEAN, scopes : SUBSET Scopes]]
  /\ clock \in Nat /\ changes \in Nat
  /\ readAt \in [Workers -> Nat] /\ decidedAt \in [Workers -> Nat]
  /\ groupsUntil \in [Users -> Int] /\ scopeUntil \in [Users -> [Scopes -> Int]]
  /\ tool \in [Workers -> TerminalResultStatuses \cup {None}]
  /\ context \in [Workers -> Contexts \cup {None}]
  /\ answer \in [Workers -> Answers \cup {None}]

\* A user was in the groups, and had these scopes, at a time t or since.
Recent(t, u, scopes) ==
  /\ t <= LastGrouped(u)
  /\ \A s \in scopes : t <= LastGranted(u, s)

\* An entry is its user's and outlives neither their groups nor a scope by more
\* than Ttl + ResolveTime.
EntryInv(e, u) ==
  /\ e \in Entries /\ e.schema.user = u
  /\ Recent(e.expires - Ttl - ResolveTime, u, e.schema.scopes)

DirectoryInv ==
  \A u \in Users :
    /\ groupsUntil[u] <= clock
    /\ \A s \in Scopes : scopeUntil[u][s] <= clock

CacheInv == \A u \in Users : cache[u] # None => EntryInv(cache[u], u)

FoundInv ==
  \A w \in Workers :
    /\ node[w] # "idle" => user[w] \in Users
    /\ node[w] = "cache_validation" => found[w] # None
    /\ found[w] # None => user[w] \in Users /\ EntryInv(found[w], user[w])

\* Resolving takes at most ResolveTime, and keeps what was so when it began.
ResolvingInv ==
  \A w \in Workers :
    /\ node[w] \in Resolving => readAt[w] <= clock /\ clock <= readAt[w] + ResolveTime
    /\ node[w] = "resolve_share_drive_permissions" /\ groups[w] =>
         Recent(readAt[w], user[w], {})
    /\ node[w] \in Resolving \ {"resolve_share_drive_permissions"} =>
         /\ schema[w] \in Schemas /\ schema[w].user = user[w]
         /\ Recent(readAt[w], user[w], schema[w].scopes)

\* What access rests on, from the decision to the end of the request.
DecisionInv ==
  \A w \in Workers :
    /\ node[w] \in PermissionNodes \ {"cache_permission_schema", "emit_permission_schema"} =>
         access[w] = "in_progress"
    /\ access[w] = "ok" =>
         /\ schema[w] \in Schemas /\ schema[w].user = user[w]
         /\ Recent(decidedAt[w] + 1 - Ttl - ResolveTime, user[w], schema[w].scopes)

\* The planner and the tool follow on access, the answer on the context.
AnswerInv ==
  \A w \in Workers :
    /\ node[w] \in PermissionNodes \cup {"idle", "tool_selection_planner", "tool_dispatch"} =>
         tool[w] = None /\ context[w] = None /\ answer[w] = None
    /\ node[w] \in {"tool_selection_planner", "tool_dispatch"} => access[w] = "ok"
    /\ node[w] = "final_answer_composer" =>
         /\ answer[w] = None /\ context[w] \in Contexts
         /\ (context[w].status = "success" => tool[w] = "success")

\* Citations stand in the order of the steps they come from.
InOrder(citations) ==
  \A i, j \in DOMAIN citations : i < j => citations[i].step <= citations[j].step

CitationInv ==
  /\ \A w \in Workers : node[w] = "final_answer_composer" => InOrder(context[w].citations)
  /\ CitationsMeantOrShadowed

IInv ==
  TypeOK /\ DirectoryInv /\ CacheInv /\ FoundInv /\ ResolvingInv /\ DecisionInv
  /\ AnswerInv /\ AnswersAreEarned /\ CitationInv

-----------------------------------------------------------------------------
(* Induction, by sets: and what the operators of the citations return. *)

\* What holds of zero and of the successor of what it holds of holds of every
\* natural number.
LEMMA NatSetInduction ==
  ASSUME NEW S, 0 \in S, \A n \in Nat : n \in S => n + 1 \in S
  PROVE  Nat \subseteq S
<1> DEFINE T == Nat \ S
<1> SUFFICES ASSUME T # {} PROVE FALSE
  OBVIOUS
<1>1. PICK x \in T : \A y \in T : ~(<<y, x>> \in OpToRel(<, Nat))
  BY NatLessThanWellFounded, WFMin
<1>2. x \in Nat /\ x # 0
  OBVIOUS
<1>3. x - 1 \in T
  BY <1>2
<1>4. <<x - 1, x>> \in OpToRel(<, Nat)
  BY <1>2 DEF OpToRel
<1> QED BY <1>1, <1>3, <1>4

\* A set of positions in a sequence that is not empty has a last one.
LEMMA LastPosition ==
  ASSUME NEW n \in Nat, NEW K \in SUBSET (1..n), K # {}
  PROVE  Max(K) \in K /\ \A k \in K : Max(K) >= k
<1> DEFINE Bounded == {m \in Nat : (\E k \in K : n - m <= k) => \E x \in K : \A y \in K : x >= y}
<1>1. 0 \in Bounded
  OBVIOUS
<1>2. ASSUME NEW m \in Nat, m \in Bounded PROVE m + 1 \in Bounded
  <2> SUFFICES ASSUME NEW k \in K, n - (m + 1) <= k, ~\E j \in K : n - m <= j
               PROVE  \E x \in K : \A y \in K : x >= y
    BY <1>2
  <2>1. \A y \in K : k >= y
    OBVIOUS
  <2> QED BY <2>1
<1>3. Nat \subseteq Bounded
  <2> HIDE DEF Bounded
  <2> QED BY <1>1, <1>2, NatSetInduction
<1>4. PICK k \in K : TRUE
  OBVIOUS
<1>5. \E x \in K : \A y \in K : x >= y
  <2>1. n \in Bounded /\ n - n <= k
    BY <1>3
  <2> QED BY <2>1
<1> QED BY <1>5 DEF Max

\* What iterates a step n times from a first value.
Iterations(V, v, step, n) ==
  {f \in [0..n -> V] : f[0] = v /\ \A i \in 1..n : f[i] = step[<<f[i - 1], i>>]}

\* A recursion on the naturals up to n defines a function.
LEMMA RecursionExists ==
  ASSUME NEW V, NEW v \in V, NEW step \in [V \X Nat -> V], NEW n \in Nat
  PROVE  Iterations(V, v, step, n) # {}
<1> DEFINE Done(m) == \E f \in [0..m -> V] : f[0] = v /\ \A i \in 1..m : f[i] = step[<<f[i - 1], i>>]
           Doable == {m \in Nat : Done(m)}
<1>1. 0 \in Doable
  <2> DEFINE f == [i \in 0..0 |-> v]
  <2>1. f \in [0..0 -> V] /\ f[0] = v /\ \A i \in 1..0 : f[i] = step[<<f[i - 1], i>>]
    OBVIOUS
  <2> QED BY <2>1
<1>2. ASSUME NEW m \in Nat, m \in Doable PROVE m + 1 \in Doable
  <2>1. PICK f \in [0..m -> V] : f[0] = v /\ \A i \in 1..m : f[i] = step[<<f[i - 1], i>>]
    BY <1>2
  <2> DEFINE w == step[<<f[m], m + 1>>]
             g == [i \in 0..(m + 1) |-> IF i = m + 1 THEN w ELSE f[i]]
  <2>2. w \in V
    BY <2>1
  <2> HIDE DEF w
  <2>3. g \in [0..(m + 1) -> V] /\ g[0] = v
    BY <2>1, <2>2
  <2>4. \A i \in 1..m : g[i] = f[i] /\ g[i - 1] = f[i - 1]
    BY <2>1
  <2>5. g[m + 1] = w /\ g[(m + 1) - 1] = f[m]
    BY <2>1
  <2> HIDE DEF g
  <2>6. g[m + 1] = step[<<g[(m + 1) - 1], m + 1>>]
    BY <2>5 DEF w
  <2>7. \A i \in 1..(m + 1) : g[i] = step[<<g[i - 1], i>>]
    <3> SUFFICES ASSUME NEW i \in 1..(m + 1) PROVE g[i] = step[<<g[i - 1], i>>]
      OBVIOUS
    <3>1. CASE i \in 1..m
      BY <3>1, <2>1, <2>4
    <3>2. CASE i = m + 1
      BY <3>2, <2>6
    <3> QED BY <3>1, <3>2
  <2>8. Done(m + 1)
    BY <2>3, <2>7
  <2> QED BY <2>8
<1>3. Nat \subseteq Doable
  <2> HIDE DEF Doable
  <2> QED BY <1>1, <1>2, NatSetInduction
<1> QED BY <1>3 DEF Iterations

\* The partial concatenations that lead to a flattened sequence.
Flattenings(seqs, n, S) ==
  {f \in [1..n -> Seq(S)] :
     /\ FlattenSeq(seqs) = f[n] /\ f[1] = seqs[1]
     /\ \A i \in 2..n : f[i] = f[i - 1] \o seqs[i]}

LEMMA FlattenSeqFlattens ==
  ASSUME NEW S, NEW n \in Nat \ {0}, NEW seqs \in [1..n -> Seq(S)]
  PROVE  Flattenings(seqs, n, S) # {}
<1> DEFINE Part(f, i) == IF i = 1 THEN seqs[i] ELSE f[i - 1] \o seqs[i]
           Flat == CHOOSE h : h = [i \in 1..n |-> Part(h, i)]
           Join(s, i) == IF i \in 1..n THEN s \o seqs[i] ELSE s
<1>1. n \in Nat /\ n > 0
  OBVIOUS
<1>2. \A i \in 1..n : seqs[i] \in Seq(S)
  OBVIOUS
<1>3. \A s \in Seq(S), i \in Nat : Join(s, i) \in Seq(S)
  BY <1>2
<1>4. \E f \in [0..n -> Seq(S)] : f[0] = << >> /\ \A i \in 1..n : f[i] = Join(f[i - 1], i)
  <2> DEFINE V == Seq(S)
             step == [x \in V \X Nat |-> Join(x[1], x[2])]
  <2>1. << >> \in V
    OBVIOUS
  <2>2. \A s \in V, i \in Nat : Join(s, i) \in V
    BY <1>3
  <2> HIDE DEF V, Join
  <2>3. step \in [V \X Nat -> V] /\ \A s \in V, i \in Nat : step[<<s, i>>] = Join(s, i)
    BY <2>2
  <2> HIDE DEF step
  <2>4. Iterations(V, << >>, step, n) # {}
    <3>1. n \in Nat /\ step \in [V \X Nat -> V]
      BY <1>1, <2>3
    <3> QED BY <2>1, <3>1, RecursionExists
  <2>5. PICK f \in [0..n -> V] : f[0] = << >> /\ \A i \in 1..n : f[i] = step[<<f[i - 1], i>>]
    BY <2>4 DEF Iterations
  <2>6. \A i \in 1..n : f[i - 1] \in V /\ i \in Nat
    BY <1>1, <2>5
  <2>7. \A i \in 1..n : f[i] = Join(f[i - 1], i)
    BY <2>3, <2>5, <2>6
  <2> QED BY <2>5, <2>7 DEF V
<1>5. PICK f \in [0..n -> Seq(S)] : f[0] = << >> /\ \A i \in 1..n : f[i] = Join(f[i - 1], i)
  BY <1>4
<1>6. \A i \in 1..n : f[i] = f[i - 1] \o seqs[i]
  BY <1>5
<1>7. f[1] = seqs[1]
  <2>1. 1 \in 1..n /\ 1 - 1 = 0
    BY <1>1
  <2>2. f[1] = f[0] \o seqs[1] /\ f[0] = << >> /\ seqs[1] \in Seq(S)
    BY <1>2, <1>5, <1>6, <2>1
  <2> QED BY <2>2
<1> DEFINE h == [i \in 1..n |-> f[i]]
<1>8. h = [i \in 1..n |-> Part(h, i)]
  <2> SUFFICES ASSUME NEW i \in 1..n PROVE f[i] = Part(h, i)
    OBVIOUS
  <2>1. CASE i = 1
    BY <2>1, <1>7
  <2>2. CASE i # 1
    <3>1. i - 1 \in 1..n
      BY <1>1, <2>2
    <3> QED BY <2>2, <3>1, <1>6
  <2> QED BY <2>1, <2>2
<1>9. Flat = [i \in 1..n |-> Part(Flat, i)]
  <2> HIDE DEF h, Part
  <2> QED BY <1>8
<1> HIDE DEF Flat
<1>10. Flat[1] = seqs[1] /\ \A i \in 2..n : Flat[i] = Flat[i - 1] \o seqs[i]
  <2>1. \A i \in 1..n : Flat[i] = Part(Flat, i)
    <3> HIDE DEF Part
    <3> QED BY <1>9
  <2>2. 1 \in 1..n /\ \A i \in 2..n : i \in 1..n /\ i # 1
    BY <1>1
  <2> QED BY <2>1, <2>2
<1> DEFINE Typed == {m \in Nat : m + 1 \in 1..n => Flat[m + 1] \in Seq(S)}
<1>11. 0 \in Typed
  BY <1>1, <1>10
<1>12. ASSUME NEW m \in Nat, m \in Typed PROVE m + 1 \in Typed
  <2> SUFFICES ASSUME m + 2 \in 1..n PROVE Flat[m + 2] \in Seq(S)
    OBVIOUS
  <2>1. Flat[m + 2] = Flat[m + 1] \o seqs[m + 2]
    <3>1. m + 2 \in 2..n /\ (m + 2) - 1 = m + 1
      BY <1>1
    <3> QED BY <1>10, <3>1
  <2>2. Flat[m + 1] \in Seq(S) /\ seqs[m + 2] \in Seq(S)
    BY <1>1, <1>12
  <2> QED BY <2>1, <2>2
<1>13. Nat \subseteq Typed
  <2> HIDE DEF Typed
  <2> QED BY <1>11, <1>12, NatSetInduction
<1>14. \A i \in 1..n : Flat[i] \in Seq(S)
  <2> SUFFICES ASSUME NEW i \in 1..n PROVE Flat[i] \in Seq(S)
    OBVIOUS
  <2>1. i - 1 \in Nat /\ (i - 1) + 1 = i
    BY <1>1
  <2>2. i - 1 \in Typed
    BY <1>13, <2>1
  <2> QED BY <2>1, <2>2
<1>15. Flat \in [1..n -> Seq(S)]
  BY <1>9, <1>14
<1>16. FlattenSeq(seqs) = Flat[n]
  <2>1. seqs \in Seq(Seq(S)) /\ Len(seqs) = n /\ Len(seqs) # 0
    BY <1>1
  <2> QED BY <2>1 DEF FlattenSeq, Flat
<1> QED BY <1>10, <1>15, <1>16 DEF Flattenings

\* A concatenation is in order if its parts are and the first ends before the
\* second begins.
LEMMA ConcatInOrder ==
  ASSUME NEW c \in Seq(Citations), NEW d \in Seq(Citations), NEW m \in Nat,
         InOrder(c), \A i \in DOMAIN c : c[i].step <= m,
         \A i \in DOMAIN d : d[i].step = m + 1
  PROVE  InOrder(c \o d) /\ \A i \in DOMAIN (c \o d) : (c \o d)[i].step <= m + 1
<1> DEFINE e == c \o d
<1>1. e \in Seq(Citations) /\ DOMAIN e = 1..(Len(c) + Len(d))
      /\ DOMAIN c = 1..Len(c) /\ DOMAIN d = 1..Len(d) /\ Len(c) \in Nat /\ Len(d) \in Nat
  OBVIOUS
<1>2. \A i \in DOMAIN e : \/ i \in DOMAIN c /\ e[i] = c[i]
                          \/ i > Len(c) /\ i - Len(c) \in DOMAIN d /\ e[i] = d[i - Len(c)]
  BY <1>1
<1>3. \A i \in DOMAIN c : c[i].step \in Nat
  <2>1. \A i \in DOMAIN c : c[i] \in Citations
    OBVIOUS
  <2> QED BY <2>1 DEF Citations
<1> HIDE DEF e
<1>4. \A i \in DOMAIN e : /\ e[i].step <= m + 1
                          /\ (i \notin DOMAIN c => e[i].step = m + 1)
                          /\ (i \in DOMAIN c => e[i].step = c[i].step)
  BY <1>1, <1>2, <1>3
<1>5. InOrder(e)
  <2> SUFFICES ASSUME NEW i \in DOMAIN e, NEW j \in DOMAIN e, i < j
               PROVE  e[i].step <= e[j].step
    BY DEF InOrder
  <2>1. CASE j \in DOMAIN c
    <3>1. i \in DOMAIN c
      BY <1>1, <2>1
    <3> QED BY <1>4, <2>1, <3>1 DEF InOrder
  <2>2. CASE j \notin DOMAIN c
    BY <1>4, <2>2
  <2> QED BY <2>1, <2>2
<1> QED BY <1>4, <1>5 DEF e

\* The citations of a run are in the order of its steps.
LEMMA CitationsInOrder ==
  ASSUME NEW counts \in Seq(Nat)
  PROVE  CitationsOf(counts) \in Seq(Citations) /\ InOrder(CitationsOf(counts))
<1> DEFINE Chunks(k) == [i \in 1..counts[k] |-> [id |-> i, step |-> k]]
           seqs == [k \in DOMAIN counts |-> Chunks(k)]
           n == Len(counts)
<1>1. n \in Nat /\ DOMAIN counts = 1..n /\ \A k \in 1..n : counts[k] \in Nat
  OBVIOUS
<1>2. \A k \in 1..n : /\ Chunks(k) \in Seq(Citations)
                       /\ \A i \in DOMAIN Chunks(k) : Chunks(k)[i].step = k
  <2> SUFFICES ASSUME NEW k \in 1..n
               PROVE  /\ Chunks(k) \in Seq(Citations)
                      /\ \A i \in DOMAIN Chunks(k) : Chunks(k)[i].step = k
    OBVIOUS
  <2>1. counts[k] \in Nat /\ k \in Nat
    BY <1>1
  <2>2. Chunks(k) \in [1..counts[k] -> Citations]
    BY <2>1 DEF Citations
  <2> QED BY <2>1, <2>2
<1> HIDE DEF n, Chunks
<1>3. seqs \in [1..n -> Seq(Citations)] /\ Len(seqs) = n /\ \A k \in 1..n : seqs[k] = Chunks(k)
  BY <1>1, <1>2
<1>4. CitationsOf(counts) = FlattenSeq(seqs)
  BY DEF CitationsOf, Chunks
<1> HIDE DEF seqs
<1>5. CASE n = 0
  <2>1. seqs = << >>
    BY <1>3, <1>5
  <2>2. FlattenSeq(seqs) = << >>
    BY <1>3, <1>5, <2>1 DEF FlattenSeq
  <2> QED BY <1>4, <2>2 DEF InOrder
<1>6. CASE n # 0
  <2>1. n \in Nat \ {0}
    BY <1>1, <1>6
  <2>2. PICK flatten \in Flattenings(seqs, n, Citations) : TRUE
    BY <1>3, <2>1, FlattenSeqFlattens
  <2>8. /\ flatten \in [1..n -> Seq(Citations)] /\ flatten[1] = seqs[1]
        /\ \A i \in 2..n : flatten[i] = flatten[i - 1] \o seqs[i]
        /\ CitationsOf(counts) = flatten[n]
    BY <1>3, <1>4, <2>2 DEF Flattenings
  <2> DEFINE Good(m) == InOrder(flatten[m]) /\ \A i \in DOMAIN flatten[m] : flatten[m][i].step <= m
             Ordered == {m \in Nat : m + 1 \in 1..n => Good(m + 1)}
  <2>3. 0 \in Ordered
    <3>1. flatten[1] = Chunks(1) /\ 1 \in 1..n
      BY <1>1, <1>3, <1>6, <2>8
    <3> QED BY <1>2, <3>1 DEF InOrder
  <2>4. ASSUME NEW m \in Nat, m \in Ordered PROVE m + 1 \in Ordered
    <3> SUFFICES ASSUME m + 2 \in 1..n PROVE Good(m + 2)
      OBVIOUS
    <3>1. m + 2 \in 2..n /\ m + 1 \in 1..n /\ (m + 2) - 1 = m + 1 /\ (m + 1) + 1 = m + 2
      BY <1>1
    <3>2. Good(m + 1) /\ flatten[m + 1] \in Seq(Citations)
      BY <2>8, <2>4, <3>1
    <3>3. flatten[m + 2] = flatten[m + 1] \o Chunks(m + 2)
      BY <1>3, <2>8, <3>1
    <3>4. Chunks(m + 2) \in Seq(Citations) /\ \A i \in DOMAIN Chunks(m + 2) : Chunks(m + 2)[i].step = (m + 1) + 1
      BY <1>2, <3>1
    <3>5. InOrder(flatten[m + 1] \o Chunks(m + 2))
          /\ \A i \in DOMAIN (flatten[m + 1] \o Chunks(m + 2)) :
               (flatten[m + 1] \o Chunks(m + 2))[i].step <= (m + 1) + 1
      <4>1. m + 1 \in Nat
        OBVIOUS
      <4> QED BY <3>2, <3>4, <4>1, ConcatInOrder
    <3> QED BY <3>1, <3>3, <3>5
  <2>5. Nat \subseteq Ordered
    <3> HIDE DEF Ordered
    <3> QED BY <2>3, <2>4, NatSetInduction
  <2>6. n - 1 \in Nat /\ (n - 1) + 1 = n /\ n \in 1..n
    BY <1>1, <1>6
  <2>7. Good(n)
    <3>1. n - 1 \in Ordered
      BY <2>5, <2>6
    <3> QED BY <2>6, <3>1
  <2> QED BY <2>6, <2>7, <2>8
<1> QED BY <1>5, <1>6

-----------------------------------------------------------------------------

\* The invariant holds at the start.
LEMMA InitIInv == Init => IInv
<1> SUFFICES ASSUME Init PROVE IInv
  OBVIOUS
<1> USE DEF Init, PermissionInit, PermissionNodes, MainNodes, Resolving
<1>1. TypeOK
  BY TimesAssumption DEF TypeOK, Never
<1>2. DirectoryInv
  BY TimesAssumption DEF DirectoryInv, Never
<1>3. CacheInv /\ FoundInv /\ ResolvingInv /\ DecisionInv
  BY DEF CacheInv, FoundInv, ResolvingInv, DecisionInv
<1>4. AnswerInv /\ AnswersAreEarned /\ CitationInv
  BY DEF AnswerInv, AnswersAreEarned, CitationInv, CitationsMeantOrShadowed
<1> QED BY <1>1, <1>2, <1>3, <1>4 DEF IInv

\* A step that leaves the planner, the tool and the composer alone leaves their
\* invariants alone, but for the nodes it goes to and the access it gives.
LEMMA TailUnchanged ==
  ASSUME IInv, UNCHANGED tail, NEW w \in Workers,
         \A v \in Workers \ {w} : UNCHANGED <<node[v], access[v], schema[v], user[v]>>,
         node[w] \in PermissionNodes, node'[w] \in PermissionNodes
  PROVE  AnswerInv' /\ AnswersAreEarned' /\ CitationInv'
<1> USE DEF IInv, PermissionNodes, MainNodes, Resolving, tail
<1>1. AnswerInv'
  BY DEF AnswerInv
<1>2. AnswersAreEarned'
  BY DEF AnswerInv, AnswersAreEarned
<1>3. CitationInv'
  BY DEF AnswerInv, CitationInv, CitationsMeantOrShadowed, InOrder
<1> QED BY <1>1, <1>2, <1>3

LEMMA PermissionStepIInv ==
  ASSUME IInv, NEW w \in Workers, PermissionStep(w), UNCHANGED tail
  PROVE  IInv'
<1> USE DEF IInv, PermissionNodes, MainNodes, Resolving, At, Goes, FailClosed
<1>1. CASE ResolveTrustedIdentity(w)
  <2>1. TypeOK'
    BY <1>1 DEF ResolveTrustedIdentity, tail, TypeOK, Schemas, Entries
  <2>2. DirectoryInv' /\ CacheInv'
    BY <1>1 DEF ResolveTrustedIdentity, DirectoryInv, CacheInv, EntryInv, Recent, LastGrouped, LastGranted
  <2>3. FoundInv'
    BY <1>1 DEF ResolveTrustedIdentity, TypeOK, FoundInv, CacheInv, EntryInv, Recent, LastGrouped, LastGranted
  <2>4. ResolvingInv'
    BY <1>1 DEF ResolveTrustedIdentity, TypeOK, ResolvingInv, FoundInv, Recent, LastGrouped, LastGranted, Schemas
  <2>5. DecisionInv'
    BY <1>1 DEF ResolveTrustedIdentity, TypeOK, ResolvingInv, DecisionInv, FoundInv, EntryInv, Entries, Recent, LastGrouped, LastGranted, Schemas
  <2>6. AnswerInv' /\ AnswersAreEarned' /\ CitationInv'
    BY <1>1, TailUnchanged DEF ResolveTrustedIdentity, TypeOK
  <2> QED BY <2>1, <2>2, <2>3, <2>4, <2>5, <2>6
<1>2. CASE PermissionCacheLookup(w)
  <2>1. TypeOK'
    BY <1>2 DEF PermissionCacheLookup, CacheKey, tail, TypeOK, FoundInv
  <2>2. DirectoryInv' /\ CacheInv'
    BY <1>2 DEF PermissionCacheLookup, CacheKey, DirectoryInv, CacheInv, EntryInv, Recent, LastGrouped, LastGranted
  <2>3. FoundInv'
    BY <1>2 DEF PermissionCacheLookup, CacheKey, TypeOK, FoundInv, CacheInv, EntryInv, Recent, LastGrouped, LastGranted
  <2>4. ResolvingInv'
    BY <1>2 DEF PermissionCacheLookup, CacheKey, TypeOK, ResolvingInv, FoundInv, Recent, LastGrouped, LastGranted, Schemas
  <2>5. DecisionInv'
    BY <1>2 DEF PermissionCacheLookup, CacheKey, TypeOK, ResolvingInv, DecisionInv, FoundInv, EntryInv, Entries, Recent, LastGrouped, LastGranted, Schemas
  <2>6. AnswerInv' /\ AnswersAreEarned' /\ CitationInv'
    BY <1>2, TailUnchanged DEF PermissionCacheLookup, CacheKey, TypeOK
  <2> QED BY <2>1, <2>2, <2>3, <2>4, <2>5, <2>6
<1>3. CASE CacheValidation(w)
  <2>1. TypeOK'
    <3>1. found[w].schema \in Schemas /\ IsSchemaOf(found[w].schema, user[w])
      BY <1>3 DEF CacheValidation, IsSchemaOf, FoundInv, EntryInv, Entries
    <3>2. schema' \in [Workers -> Schemas \cup {None}]
      BY <1>3, <3>1 DEF CacheValidation, TypeOK
    <3>3. access' \in [Workers -> {"in_progress", "ok", "access_failed", "denied"}]
      BY <1>3, <3>1 DEF CacheValidation, TypeOK
    <3>4. node' \in [Workers -> PermissionNodes \cup MainNodes]
      <4>1. \E n \in {"resolve_user_groups", "emit_permission_schema"} : node' = [node EXCEPT ![w] = n]
        BY <1>3 DEF CacheValidation
      <4> QED BY <4>1 DEF TypeOK
    <3>5. found' \in [Workers -> Entries \cup {None}] /\ decidedAt' \in [Workers -> Nat]
      BY <1>3 DEF CacheValidation, TypeOK
    <3> QED BY <1>3, <3>2, <3>3, <3>4, <3>5 DEF CacheValidation, tail, TypeOK
  <2>2. DirectoryInv' /\ CacheInv'
    BY <1>3 DEF CacheValidation, Expired, IsSchemaOf, DirectoryInv, CacheInv, EntryInv, Recent, LastGrouped, LastGranted
  <2>3. FoundInv'
    BY <1>3 DEF CacheValidation, Expired, IsSchemaOf, TypeOK, FoundInv, CacheInv, EntryInv, Recent, LastGrouped, LastGranted
  <2>4. ResolvingInv'
    BY <1>3 DEF CacheValidation, Expired, IsSchemaOf, TypeOK, ResolvingInv, FoundInv, Recent, LastGrouped, LastGranted, Schemas
  <2>5. DecisionInv'
    <3>1. /\ found[w].expires \in Int /\ found[w].schema \in Schemas /\ found[w].schema.user = user[w]
          /\ Recent(found[w].expires - Ttl - ResolveTime, user[w], found[w].schema.scopes)
      BY <1>3 DEF CacheValidation, FoundInv, EntryInv, Entries
    <3>2. user[w] \in Users /\ found[w].schema.scopes \subseteq Scopes
      BY <1>3, <3>1 DEF CacheValidation, FoundInv, Schemas
    <3>3. CASE Expired(found[w])
      BY <1>3, <3>3 DEF CacheValidation, TypeOK, DecisionInv, Recent, LastGrouped, LastGranted
    <3>4. CASE ~Expired(found[w])
      <4>1. /\ schema' = [schema EXCEPT ![w] = found[w].schema]
            /\ decidedAt' = [decidedAt EXCEPT ![w] = clock]
            /\ access' = [access EXCEPT ![w] = "ok"]
            /\ node' = [node EXCEPT ![w] = "emit_permission_schema"]
        BY <1>3, <3>1, <3>4 DEF CacheValidation, IsSchemaOf
      <4>2. Recent(clock + 1 - Ttl - ResolveTime, user[w], found[w].schema.scopes)
        <5>1. clock + 1 - Ttl - ResolveTime <= found[w].expires - Ttl - ResolveTime
              /\ clock + 1 - Ttl - ResolveTime \in Int
          BY <3>1, <3>4, TimesAssumption DEF Expired, TypeOK
        <5> QED BY <3>1, <3>2, <5>1, TimesAssumption DEF Recent, LastGrouped, LastGranted, TypeOK
      <4> QED BY <1>3, <3>1, <4>1, <4>2 DEF CacheValidation, TypeOK, DecisionInv, Recent, LastGrouped, LastGranted
    <3> QED BY <3>3, <3>4
  <2>6. AnswerInv' /\ AnswersAreEarned' /\ CitationInv'
    BY <1>3, TailUnchanged DEF CacheValidation, Expired, IsSchemaOf, TypeOK
  <2> QED BY <2>1, <2>2, <2>3, <2>4, <2>5, <2>6
<1>4. CASE ResolveUserGroups(w)
  <2>1. TypeOK'
    <3>1. directory[user[w]].groups \in BOOLEAN
      BY <1>4 DEF ResolveUserGroups, TypeOK, FoundInv
    <3>2. groups' \in [Workers -> BOOLEAN]
      BY <1>4, <3>1 DEF ResolveUserGroups, TypeOK
    <3>3. node' \in [Workers -> PermissionNodes \cup MainNodes] /\ readAt' \in [Workers -> Nat]
      <4>1. \E n \in {"resolve_share_drive_permissions", "emit_permission_schema"} :
              node' = [node EXCEPT ![w] = n]
        BY <1>4 DEF ResolveUserGroups
      <4>2. UNCHANGED readAt \/ readAt' = [readAt EXCEPT ![w] = clock]
        BY <1>4 DEF ResolveUserGroups
      <4> QED BY <4>1, <4>2 DEF TypeOK
    <3>4. access' \in [Workers -> {"in_progress", "ok", "access_failed", "denied"}]
      BY <1>4 DEF ResolveUserGroups, TypeOK
    <3> QED BY <1>4, <3>2, <3>3, <3>4 DEF ResolveUserGroups, tail, TypeOK
  <2>2. DirectoryInv' /\ CacheInv'
    BY <1>4 DEF ResolveUserGroups, DirectoryInv, CacheInv, EntryInv, Recent, LastGrouped, LastGranted
  <2>3. FoundInv'
    BY <1>4 DEF ResolveUserGroups, TypeOK, FoundInv, CacheInv, EntryInv, Recent, LastGrouped, LastGranted
  <2>4. ResolvingInv'
    BY <1>4, TimesAssumption DEF ResolveUserGroups, TypeOK, ResolvingInv, FoundInv, Recent, LastGrouped, LastGranted, Schemas
  <2>5. DecisionInv'
    BY <1>4 DEF ResolveUserGroups, TypeOK, DecisionInv, Recent, LastGrouped, LastGranted, Schemas
  <2>6. AnswerInv' /\ AnswersAreEarned' /\ CitationInv'
    BY <1>4, TailUnchanged DEF ResolveUserGroups, TypeOK
  <2> QED BY <2>1, <2>2, <2>3, <2>4, <2>5, <2>6
<1>5. CASE ResolveShareDrivePermissions(w)
  <2>1. TypeOK'
    <3>1. user[w] \in Users /\ directory[user[w]].scopes \subseteq Scopes
      BY <1>5 DEF ResolveShareDrivePermissions, TypeOK, FoundInv
    <3>2. schema' \in [Workers -> Schemas \cup {None}]
      BY <1>5, <3>1 DEF ResolveShareDrivePermissions, TypeOK, Schemas
    <3> QED BY <1>5, <3>2 DEF ResolveShareDrivePermissions, tail, TypeOK
  <2>2. DirectoryInv' /\ CacheInv'
    BY <1>5 DEF ResolveShareDrivePermissions, DirectoryInv, CacheInv, EntryInv, Recent, LastGrouped, LastGranted
  <2>3. FoundInv'
    BY <1>5 DEF ResolveShareDrivePermissions, TypeOK, FoundInv, CacheInv, EntryInv, Recent, LastGrouped, LastGranted
  <2>4. ResolvingInv'
    BY <1>5 DEF ResolveShareDrivePermissions, TypeOK, ResolvingInv, FoundInv, Recent, LastGrouped, LastGranted, Schemas
  <2>5. DecisionInv'
    BY <1>5 DEF ResolveShareDrivePermissions, TypeOK, ResolvingInv, DecisionInv, FoundInv, EntryInv, Entries, Recent, LastGrouped, LastGranted, Schemas
  <2>6. AnswerInv' /\ AnswersAreEarned' /\ CitationInv'
    BY <1>5, TailUnchanged DEF ResolveShareDrivePermissions, TypeOK
  <2> QED BY <2>1, <2>2, <2>3, <2>4, <2>5, <2>6
<1>6. CASE BuildUserPermissionSchema(w)
  <2>1. TypeOK'
    <3>1. IsSchemaOf(schema[w], user[w])
      BY <1>6 DEF BuildUserPermissionSchema, IsSchemaOf, ResolvingInv
    <3>2. node' \in [Workers -> PermissionNodes \cup MainNodes] /\ decidedAt' \in [Workers -> Nat]
      <4>1. node' = [node EXCEPT ![w] = "cache_permission_schema"]
            /\ decidedAt' = [decidedAt EXCEPT ![w] = clock]
        BY <1>6, <3>1 DEF BuildUserPermissionSchema
      <4> QED BY <4>1 DEF TypeOK
    <3>3. access' \in [Workers -> {"in_progress", "ok", "access_failed", "denied"}]
      BY <1>6, <3>1 DEF BuildUserPermissionSchema, TypeOK
    <3> QED BY <1>6, <3>2, <3>3 DEF BuildUserPermissionSchema, tail, TypeOK
  <2>2. DirectoryInv' /\ CacheInv'
    BY <1>6 DEF BuildUserPermissionSchema, IsSchemaOf, DirectoryInv, CacheInv, EntryInv, Recent, LastGrouped, LastGranted
  <2>3. FoundInv'
    BY <1>6 DEF BuildUserPermissionSchema, IsSchemaOf, TypeOK, FoundInv, CacheInv, EntryInv, Recent, LastGrouped, LastGranted
  <2>4. ResolvingInv'
    BY <1>6 DEF BuildUserPermissionSchema, IsSchemaOf, TypeOK, ResolvingInv, FoundInv, Recent, LastGrouped, LastGranted, Schemas
  <2>5. DecisionInv'
    <3>1. /\ schema[w] \in Schemas /\ schema[w].user = user[w] /\ clock <= readAt[w] + ResolveTime
          /\ Recent(readAt[w], user[w], schema[w].scopes)
      BY <1>6 DEF BuildUserPermissionSchema, ResolvingInv
    <3>2. user[w] \in Users /\ schema[w].scopes \subseteq Scopes
      BY <1>6, <3>1 DEF BuildUserPermissionSchema, FoundInv, Schemas
    <3>3. Recent(clock + 1 - Ttl - ResolveTime, user[w], schema[w].scopes)
      <4>1. clock + 1 - Ttl - ResolveTime <= readAt[w] /\ clock + 1 - Ttl - ResolveTime \in Int
        <5>1. clock \in Nat /\ readAt[w] \in Nat
          BY DEF TypeOK
        <5> QED BY <3>1, <5>1, TimesAssumption
      <4> QED BY <3>1, <3>2, <4>1, TimesAssumption DEF Recent, LastGrouped, LastGranted, TypeOK
    <3>4. /\ decidedAt' = [decidedAt EXCEPT ![w] = clock]
          /\ access' = [access EXCEPT ![w] = "ok"]
          /\ node' = [node EXCEPT ![w] = "cache_permission_schema"]
      BY <1>6, <3>1 DEF BuildUserPermissionSchema, IsSchemaOf
    <3> QED BY <1>6, <3>1, <3>3, <3>4 DEF BuildUserPermissionSchema, TypeOK, DecisionInv, Recent, LastGrouped, LastGranted
  <2>6. AnswerInv' /\ AnswersAreEarned' /\ CitationInv'
    BY <1>6, TailUnchanged DEF BuildUserPermissionSchema, IsSchemaOf, TypeOK
  <2> QED BY <2>1, <2>2, <2>3, <2>4, <2>5, <2>6
<1>7. CASE CachePermissionSchema(w)
  <2>1. TypeOK'
    <3>1. schema[w] \in Schemas /\ user[w] \in Users /\ clock + Ttl \in Int
      BY <1>7, TimesAssumption DEF CachePermissionSchema, ResolvingInv, FoundInv, TypeOK
    <3>2. cache' \in [Users -> Entries \cup {None}]
      BY <1>7, <3>1 DEF CachePermissionSchema, CacheKey, Entries, TypeOK
    <3> QED BY <1>7, <3>2 DEF CachePermissionSchema, tail, TypeOK
  <2>2. DirectoryInv' /\ CacheInv'
    <3> DEFINE e == [schema |-> schema[w], expires |-> clock + Ttl]
    <3>1. /\ schema[w] \in Schemas /\ schema[w].user = user[w] /\ clock <= readAt[w] + ResolveTime
          /\ Recent(readAt[w], user[w], schema[w].scopes)
      BY <1>7 DEF CachePermissionSchema, ResolvingInv
    <3>2. user[w] \in Users /\ schema[w].scopes \subseteq Scopes
      BY <1>7, <3>1 DEF CachePermissionSchema, FoundInv, Schemas
    <3>3. e.expires - Ttl - ResolveTime <= readAt[w] /\ e.expires - Ttl - ResolveTime \in Int
          /\ e.expires \in Int /\ e.schema = schema[w]
      BY <3>1, TimesAssumption DEF TypeOK
    <3>4. e \in Entries
      BY <3>1, <3>3 DEF Entries
    <3> HIDE DEF e
    <3>5. Recent(e.expires - Ttl - ResolveTime, user[w], e.schema.scopes)
      BY <3>1, <3>2, <3>3, TimesAssumption DEF Recent, LastGrouped, LastGranted, TypeOK
    <3>6. EntryInv(e, user[w])
      BY <3>1, <3>3, <3>4, <3>5 DEF EntryInv
    <3>7. cache' = [cache EXCEPT ![user[w]] = e]
      BY <1>7 DEF CachePermissionSchema, CacheKey, e
    <3> QED BY <1>7, <3>2, <3>6, <3>7 DEF CachePermissionSchema, TypeOK, DirectoryInv, CacheInv,
               EntryInv, Recent, LastGrouped, LastGranted
  <2>3. FoundInv'
    BY <1>7 DEF CachePermissionSchema, CacheKey, TypeOK, FoundInv, CacheInv, EntryInv, Recent, LastGrouped, LastGranted
  <2>4. ResolvingInv'
    BY <1>7 DEF CachePermissionSchema, CacheKey, TypeOK, ResolvingInv, FoundInv, Recent, LastGrouped, LastGranted, Schemas
  <2>5. DecisionInv'
    BY <1>7 DEF CachePermissionSchema, CacheKey, TypeOK, ResolvingInv, DecisionInv, FoundInv, EntryInv, Entries, Recent, LastGrouped, LastGranted, Schemas
  <2>6. AnswerInv' /\ AnswersAreEarned' /\ CitationInv'
    BY <1>7, TailUnchanged DEF CachePermissionSchema, CacheKey, TypeOK
  <2> QED BY <2>1, <2>2, <2>3, <2>4, <2>5, <2>6
<1> QED
  BY <1>1, <1>2, <1>3, <1>4, <1>5, <1>6, <1>7 DEF PermissionStep

\* Neither a change of the directory nor the clock takes back when a user was
\* last in a group, or had a scope.
LEMMA LastTimesGrow ==
  ASSUME IInv, ChangeDirectory \/ Tick, NEW u \in Users
  PROVE  /\ LastGrouped(u) \in Int /\ LastGrouped(u)' \in Int
         /\ LastGrouped(u) <= LastGrouped(u)'
         /\ \A s \in Scopes : /\ LastGranted(u, s) \in Int /\ LastGranted(u, s)' \in Int
                             /\ LastGranted(u, s) <= LastGranted(u, s)'
<1> USE DEF IInv, TypeOK, DirectoryInv, LastGrouped, LastGranted
<1>1. CASE ChangeDirectory
  <2>1. PICK v \in Users, g \in BOOLEAN, allowed \in SUBSET Scopes :
          /\ directory' = [directory EXCEPT ![v] = [groups |-> g, scopes |-> allowed]]
          /\ groupsUntil' = [groupsUntil EXCEPT ![v] = IF directory[v].groups THEN clock ELSE @]
          /\ scopeUntil' = [scopeUntil EXCEPT ![v] =
               [s \in Scopes |-> IF s \in directory[v].scopes THEN clock ELSE @[s]]]
          /\ clock' = clock
    BY <1>1 DEF ChangeDirectory
  <2>2. CASE u = v
    BY <2>1, <2>2
  <2>3. CASE u # v
    BY <2>1, <2>3
  <2> QED BY <2>2, <2>3
<1>2. CASE Tick
  BY <1>2 DEF Tick
<1> QED BY <1>1, <1>2

LEMMA EnvironmentIInv ==
  ASSUME IInv, ChangeDirectory \/ Tick, UNCHANGED tail
  PROVE  IInv'
<1> USE DEF IInv, tail
<1>1. UNCHANGED <<node, user, access, found, groups, schema, cache, readAt, decidedAt>>
  BY DEF ChangeDirectory, Tick
<1>2. TypeOK' /\ DirectoryInv'
  <2>1. CASE ChangeDirectory
    <3>1. PICK v \in Users, g \in BOOLEAN, allowed \in SUBSET Scopes :
            /\ directory' = [directory EXCEPT ![v] = [groups |-> g, scopes |-> allowed]]
            /\ groupsUntil' = [groupsUntil EXCEPT ![v] = IF directory[v].groups THEN clock ELSE @]
            /\ scopeUntil' = [scopeUntil EXCEPT ![v] =
                 [s \in Scopes |-> IF s \in directory[v].scopes THEN clock ELSE @[s]]]
            /\ clock' = clock /\ changes' = changes + 1
      BY <2>1 DEF ChangeDirectory
    <3>2. directory' \in [Users -> [groups : BOOLEAN, scopes : SUBSET Scopes]]
      BY <3>1 DEF TypeOK
    <3>3. groupsUntil' \in [Users -> Int] /\ scopeUntil' \in [Users -> [Scopes -> Int]]
      BY <3>1 DEF TypeOK
    <3>4. DirectoryInv'
      BY <3>1 DEF TypeOK, DirectoryInv
    <3> QED BY <1>1, <3>1, <3>2, <3>3, <3>4 DEF TypeOK
  <2>2. CASE Tick
    BY <1>1, <2>2 DEF Tick, TypeOK, DirectoryInv
  <2> QED BY <2>1, <2>2
<1>3. ASSUME NEW t \in Int, NEW u \in Users, NEW scopes \in SUBSET Scopes,
             t <= LastGrouped(u), \A s \in scopes : t <= LastGranted(u, s)
      PROVE  t <= LastGrouped(u)' /\ \A s \in scopes : t <= LastGranted(u, s)'
  BY <1>3, LastTimesGrow
<1> USE DEF Recent
<1>4. ASSUME NEW e \in Entries, NEW u \in Users, EntryInv(e, u)
      PROVE  EntryInv(e, u)'
  <2>1. e.expires - Ttl - ResolveTime \in Int /\ e.schema.scopes \in SUBSET Scopes
    BY TimesAssumption DEF Entries, Schemas
  <2> QED BY <1>3, <1>4, <2>1 DEF EntryInv
<1>5. CacheInv' /\ FoundInv'
  BY <1>1, <1>4 DEF CacheInv, FoundInv, EntryInv
<1>6. ResolvingInv'
  <2> SUFFICES ASSUME NEW w \in Workers, node[w] \in Resolving
               PROVE  /\ readAt[w] <= clock' /\ clock' <= readAt[w] + ResolveTime
                      /\ node[w] = "resolve_share_drive_permissions" /\ groups[w] =>
                           Recent(readAt[w], user[w], {})'
                      /\ node[w] # "resolve_share_drive_permissions" =>
                           /\ schema[w] \in Schemas /\ schema[w].user = user[w]
                           /\ Recent(readAt[w], user[w], schema[w].scopes)'
    BY <1>1 DEF ResolvingInv, Resolving
  <2>1. readAt[w] \in Int /\ readAt[w] <= clock' /\ clock' <= readAt[w] + ResolveTime
    BY TimesAssumption DEF ResolvingInv, TypeOK, Tick, ChangeDirectory
  <2>2. user[w] \in Users
    BY DEF FoundInv, Resolving
  <2>3. CASE node[w] = "resolve_share_drive_permissions"
    <3>1. {} \in SUBSET Scopes
      OBVIOUS
    <3>2. groups[w] => readAt[w] <= LastGrouped(user[w])
      BY <2>3 DEF ResolvingInv
    <3>3. groups[w] => readAt[w] <= LastGrouped(user[w])'
      BY <1>1, <1>3, <2>1, <2>2, <3>1, <3>2
    <3> QED BY <1>1, <2>1, <2>3, <3>3
  <2>4. CASE node[w] # "resolve_share_drive_permissions"
    <3>1. schema[w].scopes \in SUBSET Scopes
      BY <2>4 DEF ResolvingInv, Schemas
    <3> QED BY <1>1, <1>3, <2>1, <2>2, <2>4, <3>1 DEF ResolvingInv
  <2> QED BY <2>1, <2>3, <2>4
<1>7. DecisionInv'
  <2> SUFFICES ASSUME NEW w \in Workers, access[w] = "ok"
               PROVE  /\ schema[w] \in Schemas /\ schema[w].user = user[w]
                      /\ Recent(decidedAt[w] + 1 - Ttl - ResolveTime, user[w], schema[w].scopes)'
    BY <1>1 DEF DecisionInv
  <2>1. schema[w] \in Schemas /\ schema[w].user = user[w] /\ user[w] \in Users
        /\ schema[w].scopes \in SUBSET Scopes
    BY DEF DecisionInv, Schemas
  <2>2. decidedAt[w] + 1 - Ttl - ResolveTime \in Int
    BY TimesAssumption DEF TypeOK
  <2> QED BY <1>1, <1>3, <2>1, <2>2 DEF DecisionInv
<1>8. AnswerInv' /\ AnswersAreEarned' /\ CitationInv'
  BY <1>1 DEF AnswerInv, AnswersAreEarned, CitationInv, CitationsMeantOrShadowed, InOrder
<1> QED BY <1>2, <1>3, <1>5, <1>6, <1>7, <1>8

\* Of the citations with the id of one, the last is that one or of a later step.
LEMMA ShownIsMeantOrLater ==
  ASSUME NEW cs \in Seq(Citations), InOrder(cs), NEW c \in ToSet(cs)
  PROVE  /\ ById(cs, c.id) \in Citations /\ c \in Citations
         /\ ById(cs, c.id) # c => ById(cs, c.id).step > c.step /\ ById(cs, c.id).id = c.id
<1> DEFINE K == {k \in DOMAIN cs : cs[k].id = c.id}
<1>1. Len(cs) \in Nat /\ DOMAIN cs = 1..Len(cs) /\ \A k \in DOMAIN cs : cs[k] \in Citations
  OBVIOUS
<1>2. PICK i \in DOMAIN cs : c = cs[i]
  BY DEF ToSet
<1>3. i \in K /\ K \in SUBSET (1..Len(cs))
  BY <1>1, <1>2
<1>4. Max(K) \in K /\ Max(K) >= i
  <2> HIDE DEF K
  <2> QED BY <1>1, <1>3, LastPosition
<1> DEFINE shown == cs[Max(K)]
<1>5. shown = ById(cs, c.id)
  BY DEF ById
<1>6. shown \in Citations /\ c \in Citations /\ shown.id = c.id
  BY <1>1, <1>2, <1>4
<1>7. shown.step >= c.step
  <2>1. CASE Max(K) = i
    BY <1>2, <1>6, <2>1 DEF Citations
  <2>2. CASE Max(K) # i
    <3>1. Max(K) \in DOMAIN cs /\ i < Max(K)
      BY <1>1, <1>2, <1>4, <2>2
    <3> QED BY <1>2, <1>6, <3>1 DEF InOrder, Citations
  <2> QED BY <2>1, <2>2
<1> HIDE DEF shown
<1>8. shown # c => shown.step # c.step
  BY <1>6 DEF Citations
<1> QED BY <1>5, <1>6, <1>7, <1>8 DEF Citations

\* What a step without the tool hands to the composer.
LEMMA TerminalContext ==
  ASSUME NEW status \in ContextStatuses
  PROVE  /\ [status |-> status, citations |-> << >>] \in Contexts
         /\ InOrder(<< >>)
<1>1. << >> \in Seq(Citations)
  OBVIOUS
<1> QED BY <1>1 DEF Contexts, InOrder

\* A step of the planner, the tool or the composer leaves the permission stage
\* as it is.
LEMMA PermissionUnchanged ==
  ASSUME IInv, NEW w \in Workers, NEW n \in MainNodes \ {"idle"}, node' = [node EXCEPT ![w] = n],
         node[w] \in MainNodes \ {"idle"},
         UNCHANGED <<user, access, found, groups, schema, cache, directory, clock, changes,
                     readAt, decidedAt, groupsUntil, scopeUntil>>
  PROVE  FoundInv' /\ ResolvingInv' /\ DecisionInv'
<1> USE DEF IInv, PermissionNodes, MainNodes, Resolving
<1>1. FoundInv'
  BY DEF TypeOK, FoundInv, EntryInv, Recent, LastGrouped, LastGranted
<1>2. ResolvingInv' /\ DecisionInv'
  BY DEF TypeOK, ResolvingInv, DecisionInv, Recent, LastGrouped, LastGranted
<1> QED BY <1>1, <1>2

LEMMA MainStepIInv ==
  ASSUME IInv, NEW w \in Workers,
         \/ Ask(w) \/ EmitPermissionSchema(w) \/ ToolSelectionPlanner(w) \/ ToolDispatch(w)
         \/ ComposerFails(w) \/ FinalAnswerComposer(w)
  PROVE  IInv'
<1> USE DEF IInv, PermissionNodes, MainNodes, Resolving, At, Goes, Keep, Forget, Ends
<1>1. UNCHANGED <<cache, directory, clock, changes, groupsUntil, scopeUntil>>
  BY DEF Ask, EmitPermissionSchema, ToolSelectionPlanner, ToolDispatch, ComposerFails, FinalAnswerComposer
<1>2. DirectoryInv' /\ CacheInv'
  BY <1>1 DEF DirectoryInv, CacheInv, EntryInv, Recent, LastGrouped, LastGranted
<1>3. CASE Ask(w)
  <2>1. TypeOK'
    BY <1>3 DEF Ask, TypeOK
  <2>2. FoundInv'
    BY <1>3 DEF Ask, TypeOK, FoundInv, EntryInv, Recent, LastGrouped, LastGranted
  <2>3. ResolvingInv'
    BY <1>3 DEF Ask, TypeOK, ResolvingInv, Recent, LastGrouped, LastGranted
  <2>4. DecisionInv'
    BY <1>3 DEF Ask, TypeOK, DecisionInv, Recent, LastGrouped, LastGranted
  <2>5. AnswerInv' /\ AnswersAreEarned'
    BY <1>3, NoneAssumption DEF Ask, TypeOK, AnswerInv, AnswersAreEarned
  <2>6. CitationInv'
    BY <1>3 DEF Ask, TypeOK, CitationInv, CitationsMeantOrShadowed, InOrder
  <2> QED BY <1>2, <2>1, <2>2, <2>3, <2>4, <2>5, <2>6
<1>4. CASE EmitPermissionSchema(w)
  <2>1. /\ node[w] = "emit_permission_schema" /\ tool[w] = None /\ context[w] = None /\ answer[w] = None
        /\ UNCHANGED <<user, access, found, tool, answer>>
        /\ groups' = [groups EXCEPT ![w] = FALSE]
        /\ readAt' = [readAt EXCEPT ![w] = 0] /\ decidedAt' = [decidedAt EXCEPT ![w] = 0]
    BY <1>4 DEF EmitPermissionSchema, AnswerInv
  <2>2. CASE /\ access[w] = "ok" /\ UNCHANGED <<context, schema>>
             /\ node' = [node EXCEPT ![w] = "tool_selection_planner"]
    <3>1. TypeOK'
      BY <1>1, <2>1, <2>2 DEF TypeOK
    <3>2. FoundInv' /\ ResolvingInv'
      BY <1>1, <2>1, <2>2 DEF TypeOK, FoundInv, ResolvingInv, EntryInv, Recent, LastGrouped, LastGranted
    <3>3. DecisionInv'
      <4>1. ASSUME NEW v \in Workers \ {w}
            PROVE  access'[v] = access[v] /\ decidedAt'[v] = decidedAt[v] /\ node'[v] = node[v]
        BY <2>1, <2>2 DEF TypeOK
      <4>2. decidedAt'[w] = 0 /\ node'[w] = "tool_selection_planner"
        BY <2>1, <2>2 DEF TypeOK
      <4>3. schema[w] \in Schemas /\ user[w] \in Users /\ schema[w].scopes \in SUBSET Scopes
        BY <2>2 DEF DecisionInv, Schemas
      <4>4. /\ decidedAt[w] + 1 - Ttl - ResolveTime \in Int /\ 0 + 1 - Ttl - ResolveTime \in Int
            /\ 0 + 1 - Ttl - ResolveTime <= decidedAt[w] + 1 - Ttl - ResolveTime
        BY TimesAssumption DEF TypeOK
      <4>5. /\ LastGrouped(user[w]) \in Int
            /\ \A s \in Scopes : LastGranted(user[w], s) \in Int
        BY <4>3 DEF TypeOK, LastGrouped, LastGranted
      <4>6. Recent(decidedAt[w] + 1 - Ttl - ResolveTime, user[w], schema[w].scopes)
        BY <2>2 DEF DecisionInv
      <4>7. Recent(0 + 1 - Ttl - ResolveTime, user[w], schema[w].scopes)
        BY <4>3, <4>4, <4>5, <4>6 DEF Recent
      <4> QED BY <1>1, <2>1, <2>2, <4>1, <4>2, <4>7 DEF DecisionInv, Recent, LastGrouped, LastGranted
    <3>4. AnswerInv' /\ AnswersAreEarned' /\ CitationInv'
      BY <2>1, <2>2 DEF TypeOK, AnswerInv, AnswersAreEarned, CitationInv, CitationsMeantOrShadowed, InOrder
    <3> QED BY <1>2, <3>1, <3>2, <3>3, <3>4
  <2>3. CASE /\ access[w] # "ok" /\ schema' = [schema EXCEPT ![w] = None]
             /\ \E status \in {"denied", "access_failed"} : Ends(w, status)
    <3>1. PICK status \in {"denied", "access_failed"} : Ends(w, status)
      BY <2>3
    <3> DEFINE ctx == [status |-> status, citations |-> << >>]
    <3>2. /\ ctx \in Contexts /\ InOrder(ctx.citations) /\ ctx.citations = << >>
          /\ ctx.status # "success"
      BY TerminalContext DEF ContextStatuses, TerminalResultStatuses
    <3>3. /\ context' = [context EXCEPT ![w] = ctx]
          /\ node' = [node EXCEPT ![w] = "final_answer_composer"]
      BY <3>1
    <3> HIDE DEF ctx, Ends
    <3>4. TypeOK'
      BY <1>1, <2>1, <2>3, <3>2, <3>3 DEF TypeOK
    <3>5. FoundInv' /\ ResolvingInv'
      BY <1>1, <2>1, <2>3, <3>3 DEF TypeOK, FoundInv, ResolvingInv, EntryInv, Recent, LastGrouped, LastGranted
    <3>6. DecisionInv'
      BY <1>1, <2>1, <2>3, <3>3 DEF TypeOK, DecisionInv, Recent, LastGrouped, LastGranted
    <3>7. AnswerInv' /\ AnswersAreEarned'
      BY <2>1, <2>3, <3>2, <3>3 DEF TypeOK, AnswerInv, AnswersAreEarned
    <3>8. CitationInv'
      BY <2>1, <3>2, <3>3 DEF TypeOK, CitationInv, CitationsMeantOrShadowed, InOrder
    <3> QED BY <1>2, <3>4, <3>5, <3>6, <3>7, <3>8
  <2>4. schema = [schema EXCEPT ![w] = schema[w]]
    BY DEF TypeOK
  <2> QED BY <1>4, <2>2, <2>3, <2>4 DEF EmitPermissionSchema, AfterPermission
<1>5. CASE ToolSelectionPlanner(w)
  <2>1. /\ node[w] = "tool_selection_planner" /\ access[w] = "ok" /\ tool[w] = None /\ context[w] = None
        /\ UNCHANGED <<user, access, found, groups, schema, readAt, decidedAt, tool, answer>>
    BY <1>5 DEF ToolSelectionPlanner, AnswerInv
  <2>2. CASE node' = [node EXCEPT ![w] = "tool_dispatch"] /\ UNCHANGED context
    <3>1. TypeOK'
      BY <1>1, <2>1, <2>2 DEF TypeOK
    <3>2. FoundInv' /\ ResolvingInv' /\ DecisionInv'
      BY <1>1, <2>1, <2>2, PermissionUnchanged
    <3>3. AnswerInv' /\ AnswersAreEarned' /\ CitationInv'
      BY <2>1, <2>2 DEF TypeOK, AnswerInv, AnswersAreEarned, CitationInv, CitationsMeantOrShadowed, InOrder
    <3> QED BY <1>2, <3>1, <3>2, <3>3
  <2>3. CASE \E status \in {"clarification", "unsupported", "error"} : Ends(w, status)
    <3>1. PICK status \in {"clarification", "unsupported", "error"} : Ends(w, status)
      BY <2>3
    <3> DEFINE ctx == [status |-> status, citations |-> << >>]
    <3>2. /\ ctx \in Contexts /\ InOrder(ctx.citations) /\ ctx.citations = << >>
          /\ ctx.status # "success"
      BY TerminalContext DEF ContextStatuses, TerminalResultStatuses
    <3>3. /\ context' = [context EXCEPT ![w] = ctx]
          /\ node' = [node EXCEPT ![w] = "final_answer_composer"]
      BY <3>1
    <3> HIDE DEF ctx, Ends
    <3>4. TypeOK'
      BY <1>1, <2>1, <3>2, <3>3 DEF TypeOK
    <3>5. FoundInv' /\ ResolvingInv' /\ DecisionInv'
      BY <1>1, <2>1, <3>3, PermissionUnchanged
    <3>6. AnswerInv' /\ AnswersAreEarned'
      BY <2>1, <3>2, <3>3 DEF TypeOK, AnswerInv, AnswersAreEarned
    <3>7. CitationInv'
      BY <2>1, <3>2, <3>3 DEF TypeOK, CitationInv, CitationsMeantOrShadowed, InOrder
    <3> QED BY <1>2, <3>4, <3>5, <3>6, <3>7
  <2> QED BY <1>5, <2>2, <2>3 DEF ToolSelectionPlanner, ParseSelection
<1>6. CASE ToolDispatch(w)
  <2>1. /\ node[w] = "tool_dispatch" /\ access[w] = "ok" /\ tool[w] = None /\ context[w] = None
        /\ answer[w] = None
        /\ UNCHANGED <<user, access, found, groups, schema, readAt, decidedAt, answer>>
    BY <1>6 DEF ToolDispatch, AnswerInv
  <2>2. CASE node' = [node EXCEPT ![w] = "raised"] /\ UNCHANGED <<tool, context>>
    <3>1. TypeOK'
      BY <1>1, <2>1, <2>2 DEF TypeOK
    <3>2. FoundInv' /\ ResolvingInv' /\ DecisionInv'
      BY <1>1, <2>1, <2>2, PermissionUnchanged
    <3>3. AnswerInv' /\ AnswersAreEarned' /\ CitationInv'
      BY <2>1, <2>2 DEF TypeOK, AnswerInv, AnswersAreEarned, CitationInv, CitationsMeantOrShadowed, InOrder
    <3> QED BY <1>2, <3>1, <3>2, <3>3
  <2>3. ASSUME NEW status \in ToolStatuses(w), NEW counts \in CitationCounts,
               tool' = [tool EXCEPT ![w] = status],
               context' = [context EXCEPT ![w] = [status |-> status, citations |-> CitationsOf(counts)]],
               node' = [node EXCEPT ![w] = "final_answer_composer"]
        PROVE  IInv'
    <3> DEFINE ctx == [status |-> status, citations |-> CitationsOf(counts)]
    <3>1. status \in TerminalResultStatuses /\ status # None
      BY NoneAssumption DEF ToolStatuses, TerminalResultStatuses
    <3>2. CitationsOf(counts) \in Seq(Citations) /\ InOrder(CitationsOf(counts))
      <4>1. counts \in Seq(Nat)
        BY CountsAssumption
      <4> QED BY <4>1, CitationsInOrder
    <3>3. ctx \in Contexts /\ InOrder(ctx.citations) /\ ctx.status = status
      BY <3>1, <3>2 DEF Contexts, ContextStatuses
    <3>4. context' = [context EXCEPT ![w] = ctx]
      BY <2>3
    <3> HIDE DEF ctx
    <3>5. TypeOK'
      BY <1>1, <2>1, <2>3, <3>1, <3>3, <3>4 DEF TypeOK
    <3>6. FoundInv' /\ ResolvingInv' /\ DecisionInv'
      BY <1>1, <2>1, <2>3, PermissionUnchanged
    <3>7. AnswerInv'
      BY <2>1, <2>3, <3>1, <3>3, <3>4 DEF TypeOK, AnswerInv
    <3>8. AnswersAreEarned'
      BY <2>1, <2>3, <3>1, <3>4 DEF TypeOK, AnswersAreEarned, DecisionInv
    <3>9. CitationInv'
      BY <2>1, <2>3, <3>3, <3>4 DEF TypeOK, CitationInv, CitationsMeantOrShadowed, InOrder
    <3> QED BY <1>2, <3>5, <3>6, <3>7, <3>8, <3>9
  <2> QED BY <1>6, <2>2, <2>3 DEF ToolDispatch
<1>7. ASSUME NEW final \in Answers,
             final.status = "answered" => tool[w] = "success",
             \A k \in DOMAIN final.citations : final.citations[k] # final.meant[k] =>
               /\ final.citations[k].step > final.meant[k].step
               /\ final.citations[k].id = final.meant[k].id,
             node[w] = "final_answer_composer", node' = [node EXCEPT ![w] = "END"],
             answer' = [answer EXCEPT ![w] = final],
             UNCHANGED <<user, access, found, groups, schema, readAt, decidedAt, tool, context>>
      PROVE  IInv'
  <2>1. TypeOK'
    BY <1>1, <1>7 DEF TypeOK
  <2>2. FoundInv' /\ ResolvingInv' /\ DecisionInv'
    BY <1>1, <1>7, PermissionUnchanged
  <2>3. AnswerInv' /\ AnswersAreEarned'
    BY <1>7 DEF TypeOK, AnswerInv, AnswersAreEarned
  <2>4. CitationInv'
    BY <1>7 DEF TypeOK, CitationInv, CitationsMeantOrShadowed, InOrder
  <2> QED BY <1>2, <2>1, <2>2, <2>3, <2>4
<1>8. CASE ComposerFails(w)
  <2> DEFINE final == [status |-> "error", citations |-> << >>, meant |-> << >>]
  <2>1. << >> \in Seq(Citations)
    OBVIOUS
  <2>2. final \in Answers /\ final.status # "answered" /\ DOMAIN final.citations = {}
    BY <2>1 DEF Answers, ContextStatuses, TerminalResultStatuses
  <2>3. /\ node[w] = "final_answer_composer" /\ node' = [node EXCEPT ![w] = "END"]
        /\ answer' = [answer EXCEPT ![w] = final]
        /\ UNCHANGED <<user, access, found, groups, schema, readAt, decidedAt, tool, context>>
    BY <1>8 DEF ComposerFails
  <2> HIDE DEF final
  <2> QED BY <1>7, <2>2, <2>3
<1>9. CASE FinalAnswerComposer(w)
  <2> DEFINE cs == context[w].citations
  <2>1. PICK meant \in {<< >>} \cup {<<c>> : c \in ToSet(cs)} :
          answer' = [answer EXCEPT ![w] =
            [status |-> FinalStatusByContext(context[w].status),
             citations |-> [k \in DOMAIN meant |-> ById(cs, meant[k].id)],
             meant |-> meant]]
    BY <1>9 DEF FinalAnswerComposer
  <2>2. /\ node[w] = "final_answer_composer" /\ node' = [node EXCEPT ![w] = "END"]
        /\ UNCHANGED <<user, access, found, groups, schema, readAt, decidedAt, tool, context>>
    BY <1>9 DEF FinalAnswerComposer
  <2>3. /\ context[w] \in Contexts /\ cs \in Seq(Citations) /\ InOrder(cs)
        /\ context[w].status \in ContextStatuses
        /\ context[w].status = "success" => tool[w] = "success"
    BY <2>2 DEF AnswerInv, CitationInv, Contexts
  <2>4. ASSUME NEW c \in ToSet(cs)
        PROVE  /\ ById(cs, c.id) \in Citations /\ c \in Citations
               /\ ById(cs, c.id) # c => ById(cs, c.id).step > c.step /\ ById(cs, c.id).id = c.id
    BY <2>3, ShownIsMeantOrLater
  <2> HIDE DEF cs
  <2> DEFINE shown == [k \in DOMAIN meant |-> ById(cs, meant[k].id)]
             final == [status |-> FinalStatusByContext(context[w].status),
                       citations |-> shown, meant |-> meant]
  <2>5. /\ shown \in Seq(Citations) /\ meant \in Seq(Citations) /\ DOMAIN shown = DOMAIN meant
        /\ \A k \in DOMAIN meant : shown[k] # meant[k] =>
             shown[k].step > meant[k].step /\ shown[k].id = meant[k].id
    <3>1. CASE meant = << >>
      BY <3>1
    <3>2. CASE \E c \in ToSet(cs) : meant = <<c>>
      <4>1. PICK c \in ToSet(cs) : meant = <<c>>
        BY <3>2
      <4>2. DOMAIN meant = {1} /\ meant[1] = c /\ meant \in Seq(Citations)
        BY <2>4, <4>1
      <4>3. shown = <<ById(cs, c.id)>>
        BY <4>1
      <4>4. /\ ById(cs, c.id) \in Citations
            /\ ById(cs, c.id) # c => ById(cs, c.id).step > c.step /\ ById(cs, c.id).id = c.id
        BY <2>4
      <4> DEFINE x == ById(cs, c.id)
      <4> HIDE DEF x, shown
      <4>5. x \in Citations /\ shown = <<x>> /\ (x # c => x.step > c.step /\ x.id = c.id)
        BY <4>3, <4>4 DEF x
      <4>6. shown \in Seq(Citations) /\ DOMAIN shown = {1} /\ shown[1] = x
        BY <4>5
      <4> QED BY <4>2, <4>5, <4>6
    <3> QED BY <2>1, <3>1, <3>2
  <2> HIDE DEF shown
  <2>6. /\ FinalStatusByContext(context[w].status) \in ContextStatuses \cup {"answered"}
        /\ FinalStatusByContext(context[w].status) = "answered" => tool[w] = "success"
    BY <2>3 DEF FinalStatusByContext, ContextStatuses, TerminalResultStatuses
  <2>7. /\ final \in Answers
        /\ final.status = "answered" => tool[w] = "success"
        /\ final.citations = shown /\ final.meant = meant
    BY <2>5, <2>6 DEF Answers
  <2>8. answer' = [answer EXCEPT ![w] = final]
    BY <2>1 DEF shown
  <2>9. \A k \in DOMAIN final.citations : final.citations[k] # final.meant[k] =>
          /\ final.citations[k].step > final.meant[k].step
          /\ final.citations[k].id = final.meant[k].id
    BY <2>5, <2>7
  <2> HIDE DEF final
  <2> QED BY <1>7, <2>2, <2>7, <2>8, <2>9
<1> QED BY <1>3, <1>4, <1>5, <1>6, <1>8, <1>9

\* Every step preserves the invariant.
LEMMA NextIInv == IInv /\ [Next]_vars => IInv'
<1> SUFFICES ASSUME IInv, [Next]_vars PROVE IInv'
  OBVIOUS
<1>1. CASE UNCHANGED vars
  <2> USE <1>1 DEF vars, permissionVars, IInv
  <2>1. TypeOK' /\ DirectoryInv'
    BY DEF TypeOK, DirectoryInv
  <2>2. CacheInv' /\ FoundInv'
    BY DEF CacheInv, FoundInv, EntryInv, Recent, LastGrouped, LastGranted
  <2>3. ResolvingInv' /\ DecisionInv'
    BY DEF ResolvingInv, DecisionInv, Recent, LastGrouped, LastGranted
  <2>4. AnswerInv' /\ AnswersAreEarned' /\ CitationInv'
    BY DEF AnswerInv, AnswersAreEarned, CitationInv, CitationsMeantOrShadowed, InOrder
  <2> QED BY <2>1, <2>2, <2>3, <2>4
<1> QED BY <1>1, EnvironmentIInv, PermissionStepIInv, MainStepIInv DEF Next

-----------------------------------------------------------------------------

\* What every request keeps of the permission stage and of its own planner, tool
\* and composer, whichever requests the workers serve meanwhile.
THEOREM MainGraphInvariance == Spec => []IInv
BY InitIInv, NextIInv, PTL DEF Spec

\* A user who has lost the groups, or a scope, is decided to have it for less than
\* Ttl + ResolveTime, however the cache is filled, expires and is filled again by
\* requests that resolved before the change.
THEOREM Revocation == Spec => []RevocationTakesEffect
<1>1. IInv => RevocationTakesEffect
  <2> SUFFICES ASSUME IInv, NEW w \in Workers, access[w] = "ok"
               PROVE  /\ decidedAt[w] < LastGrouped(user[w]) + Ttl + ResolveTime
                      /\ \A s \in schema[w].scopes :
                           decidedAt[w] < LastGranted(user[w], s) + Ttl + ResolveTime
    BY DEF RevocationTakesEffect
  <2>1. /\ schema[w].scopes \subseteq Scopes /\ user[w] \in Users
        /\ Recent(decidedAt[w] + 1 - Ttl - ResolveTime, user[w], schema[w].scopes)
    BY DEF IInv, DecisionInv, Schemas
  <2>2. /\ decidedAt[w] \in Int /\ LastGrouped(user[w]) \in Int
        /\ \A s \in Scopes : LastGranted(user[w], s) \in Int
    BY <2>1 DEF IInv, TypeOK, LastGrouped, LastGranted
  <2> QED BY <2>1, <2>2, TimesAssumption DEF Recent
<1> QED BY <1>1, MainGraphInvariance, PTL

\* A request never finds another user's entry in the cache, in whatever order the
\* requests look up and store.
THEOREM CacheOwnership == Spec => []CacheKeepsOwners
<1>1. IInv => CacheKeepsOwners
  BY DEF IInv, TypeOK, FoundInv, EntryInv, CacheKeepsOwners
<1> QED BY <1>1, MainGraphInvariance, PTL

\* A request is answered only after the tool succeeded for it, with the schema of
\* its own user, and shows citations of the tool only.
THEOREM EarnedAnswers == Spec => []AnswersAreEarned
<1>1. IInv => AnswersAreEarned BY DEF IInv
<1> QED BY <1>1, MainGraphInvariance, PTL

\* However many chunks however many rag steps cite, the citation shown is the one
\* the model meant or that of a later step with the same id.
THEOREM ShownCitations == Spec => []CitationsMeantOrShadowed
<1>1. IInv => CitationsMeantOrShadowed BY DEF IInv, CitationInv
<1> QED BY <1>1, MainGraphInvariance, PTL

=============================================================================
