----------------------------- MODULE GraphProofs -----------------------------
(* Proofs about the graph algorithms and what the reports tell with them     *)
(* (GraphReports, HealthReports), for every graph over any number of names.  *)
(* A search of the source ends after a fixed number of rounds here; that     *)
(* these are enough, and what it has then found, rests on SearchLeast and on *)
(* LinkedClosed: Linked is the transitive closure of the edges.  What counts *)
(* edges rests on WalkRounds, what follows chains on ChainsAreSimple.        *)
EXTENDS HealthReports, SequenceTheorems, FiniteSetTheorems, TLAPS

(* A set of naturals that is not empty has a least number.                   *)
LEMMA LeastOf ==
  ASSUME NEW S \in SUBSET Nat, S # {}
  PROVE  \E n \in S : \A m \in S : n <= m
<1> DEFINE R == OpToRel(<, Nat)
<1>1. IsWellFoundedOn(R, Nat)
  BY NatLessThanWellFounded
<1>2. \A m, n \in Nat : <<m, n>> \in R <=> m < n
  BY DEF OpToRel
<1> HIDE DEF R
<1>3. PICK n \in S : \A m \in S : <<m, n>> \notin R
  BY <1>1, WFMin
<1>4. \A m \in S : ~(m < n)
  BY <1>2, <1>3
<1>5. QED
  BY <1>4

(* What holds of 0 and of the successor of all it holds of is all numbers.   *)
LEMMA Induction ==
  ASSUME NEW S, 0 \in S, \A n \in Nat : n \in S => n + 1 \in S
  PROVE  Nat \subseteq S
<1>1. SUFFICES ASSUME Nat \ S # {} PROVE FALSE
  OBVIOUS
<1>2. PICK n \in Nat \ S : \A m \in Nat \ S : n <= m
  BY <1>1, LeastOf
<1>3. n # 0 /\ n - 1 \in Nat /\ n - 1 \in S
  BY <1>2
<1>4. QED
  BY <1>2, <1>3

(* The rounds of a search, each made from the one before.                    *)
Iterates(f, base, step) == f = [k \in Nat |-> IF k = 0 THEN base ELSE step[f[k - 1]]]

(* A function on the naturals that is given round by round.                  *)
LEMMA Rounds ==
  ASSUME NEW D, NEW base \in D, NEW step \in [D -> D]
  PROVE  \E f \in [Nat -> D] : Iterates(f, base, step)
<1> DEFINE Part(n) == {g \in [0..n -> D] : g[0] = base /\ \A i \in 1..n : g[i] = step[g[i - 1]]}
<1>1. \A n \in Nat : Part(n) # {}
  <2> DEFINE S == {n \in Nat : Part(n) # {}}
  <2>1. 0 \in S
    <3>1. [i \in 0..0 |-> base] \in Part(0)
      OBVIOUS
    <3>2. QED
      BY <3>1
  <2>2. ASSUME NEW n \in Nat, n \in S PROVE n + 1 \in S
    <3>1. PICK g \in Part(n) : TRUE
      BY <2>2
    <3> DEFINE h == [i \in 0..(n + 1) |-> IF i = n + 1 THEN step[g[n]] ELSE g[i]]
    <3>2. h \in Part(n + 1)
      <4>1. h \in [0..(n + 1) -> D]
        BY <3>1
      <4>2. h[0] = base
        BY <3>1
      <4>3. ASSUME NEW i \in 1..(n + 1) PROVE h[i] = step[h[i - 1]]
        BY <3>1
      <4>4. QED
        BY <4>1, <4>2, <4>3
    <3>3. QED
      BY <3>2
  <2> HIDE DEF S
  <2>3. Nat \subseteq S
    BY <2>1, <2>2, Induction
  <2>4. QED
    BY <2>3 DEF S
<1>2. ASSUME NEW n \in Nat, NEW m \in Nat, n <= m, NEW g \in Part(n), NEW h \in Part(m)
      PROVE  \A i \in 0..n : g[i] = h[i]
  <2> DEFINE S == {i \in Nat : i <= n => g[i] = h[i]}
  <2>1. 0 \in S
    BY <1>2
  <2>2. ASSUME NEW i \in Nat, i \in S PROVE i + 1 \in S
    <3>1. CASE i + 1 <= n
      <4>1. g[i + 1] = step[g[i]] /\ h[i + 1] = step[h[i]]
        BY <1>2, <3>1
      <4>2. QED
        BY <4>1, <2>2, <3>1
    <3>2. QED
      BY <3>1
  <2> HIDE DEF S
  <2>3. Nat \subseteq S
    BY <2>1, <2>2, Induction
  <2>4. QED
    BY <2>3 DEF S
<1> DEFINE G(n) == CHOOSE g \in Part(n) : TRUE
           f == [k \in Nat |-> G(k)[k]]
<1>3. \A n \in Nat : G(n) \in Part(n)
  BY <1>1
<1> HIDE DEF G
<1>4. f \in [Nat -> D]
  BY <1>3
<1>5. f[0] = base
  BY <1>3
<1>6. ASSUME NEW k \in Nat, k # 0 PROVE f[k] = step[f[k - 1]]
  <2>1. G(k)[k] = step[G(k)[k - 1]]
    BY <1>3, <1>6
  <2>2. k - 1 \in Nat /\ k - 1 <= k /\ k - 1 \in 0..(k - 1)
    BY <1>6
  <2>3. G(k - 1) \in Part(k - 1) /\ G(k) \in Part(k)
    BY <1>3, <2>2
  <2> HIDE DEF Part
  <2>4. G(k - 1)[k - 1] = G(k)[k - 1]
    BY <1>2, <2>2, <2>3
  <2>5. QED
    BY <2>1, <2>2, <2>4
<1> HIDE DEF f
<1>7. f = [k \in Nat |-> IF k = 0 THEN base ELSE step[f[k - 1]]]
  <2>1. f = [k \in Nat |-> f[k]]
    BY <1>4
  <2>2. \A k \in Nat : f[k] = IF k = 0 THEN base ELSE step[f[k - 1]]
    BY <1>5, <1>6
  <2>3. QED
    BY <2>1, <2>2
<1>8. QED
  BY <1>4, <1>7 DEF Iterates

(* A search that only ever adds from so many ends after as many rounds.      *)
LEMMA GrowthEnds ==
  ASSUME NEW f, NEW M, IsFiniteSet(M), NEW n \in Nat, Cardinality(M) <= n,
         \A k \in Nat : f[k] \subseteq f[k + 1] /\ f[k] \subseteq f[0] \cup M,
         \A k \in Nat : f[k + 1] = f[k] => f[k + 2] = f[k + 1]
  PROVE  f[n + 1] = f[n]
<1>1. SUFFICES ASSUME f[n + 1] # f[n] PROVE FALSE
  OBVIOUS
<1>2. \A k \in 0..n : f[k + 1] # f[k]
  <2>1. SUFFICES ASSUME NEW k \in 0..n, f[k + 1] = f[k] PROVE FALSE
    OBVIOUS
  <2> DEFINE S == {i \in Nat : f[k + i + 1] = f[k + i]}
  <2>2. 0 \in S
    BY <2>1
  <2>3. ASSUME NEW i \in Nat, i \in S PROVE i + 1 \in S
    <3>1. k + i \in Nat /\ f[k + i + 1] = f[k + i]
      BY <2>3
    <3>2. f[(k + i) + 2] = f[(k + i) + 1]
      BY <3>1
    <3>3. (k + i) + 2 = k + (i + 1) + 1 /\ (k + i) + 1 = k + (i + 1)
      OBVIOUS
    <3>4. QED
      BY <3>2, <3>3
  <2> HIDE DEF S
  <2>4. n - k \in S
    <3>1. Nat \subseteq S
      BY <2>2, <2>3, Induction
    <3>2. QED
      BY <3>1
  <2>5. k + (n - k) = n
    OBVIOUS
  <2>6. QED
    BY <1>1, <2>4, <2>5 DEF S
<1> DEFINE T == {k \in Nat : f[0] \subseteq f[k] /\ (k <= n + 1 => Cardinality(f[k] \ f[0]) >= k)}
<1>3. \A k \in Nat : IsFiniteSet(f[k] \ f[0]) /\ Cardinality(f[k] \ f[0]) \in Nat
  <2>1. \A k \in Nat : f[k] \ f[0] \subseteq M
    OBVIOUS
  <2>2. QED
    BY <2>1, FS_Subset, FS_CardinalityType
<1>4. 0 \in T
  <2>1. Cardinality(f[0] \ f[0]) \in Nat
    BY <1>3
  <2>2. Cardinality(f[0] \ f[0]) >= 0
    BY <2>1
  <2>3. QED
    BY <2>2
<1>5. ASSUME NEW k \in Nat, k \in T PROVE k + 1 \in T
  <2>1. f[0] \subseteq f[k + 1]
    BY <1>5
  <2>2. ASSUME k + 1 <= n + 1 PROVE Cardinality(f[k + 1] \ f[0]) >= k + 1
    <3>0. k \in 0..n /\ k <= n + 1
      BY <2>2
    <3>1. f[k] \ f[0] \in SUBSET (f[k + 1] \ f[0]) /\ f[k] \ f[0] # f[k + 1] \ f[0]
      <4>1. f[k + 1] # f[k] /\ f[k] \subseteq f[k + 1] /\ f[0] \subseteq f[k]
        BY <1>2, <1>5, <3>0
      <4>2. QED
        BY <4>1
    <3>2. /\ Cardinality(f[k] \ f[0]) <= Cardinality(f[k + 1] \ f[0])
          /\ Cardinality(f[k] \ f[0]) # Cardinality(f[k + 1] \ f[0])
      <4> DEFINE S == f[k + 1] \ f[0]
                 R == f[k] \ f[0]
      <4>1. IsFiniteSet(S) /\ R \in SUBSET S /\ R # S
        <5>1. k + 1 \in Nat
          OBVIOUS
        <5>2. QED
          BY <1>3, <3>1, <5>1
      <4> HIDE DEF S, R
      <4>2. Cardinality(R) <= Cardinality(S) /\ Cardinality(R) # Cardinality(S)
        BY <4>1, FS_Subset
      <4>3. QED
        BY <4>2 DEF S, R
    <3>3. Cardinality(f[k] \ f[0]) >= k
      BY <1>5, <3>0
    <3>4. Cardinality(f[k] \ f[0]) \in Nat /\ Cardinality(f[k + 1] \ f[0]) \in Nat
      <4>1. k + 1 \in Nat
        OBVIOUS
      <4>2. QED
        BY <1>3, <4>1
    <3>5. QED
      BY <3>2, <3>3, <3>4
  <2>3. QED
    BY <2>1, <2>2
<1> HIDE DEF T
<1>6. n + 1 \in T
  <2>1. Nat \subseteq T
    BY <1>4, <1>5, Induction
  <2>2. QED
    BY <2>1
<1>7. Cardinality(f[n + 1] \ f[0]) >= n + 1
  BY <1>6 DEF T
<1>8. Cardinality(f[n + 1] \ f[0]) <= Cardinality(M) /\ Cardinality(M) \in Nat
  <2>1. f[n + 1] \ f[0] \in SUBSET M
    OBVIOUS
  <2>2. QED
    BY <2>1, FS_Subset, FS_CardinalityType
<1>9. QED
  BY <1>3, <1>7, <1>8

(* The least set that holds seed and all targets of its own that are allowed.*)
Least(R, E, seed, allowed) ==
    /\ seed \subseteq R
    /\ Targets(E, R) \cap allowed \subseteq R
    /\ R \subseteq seed \cup (allowed \cap Nodes(E))
    /\ \A C : seed \subseteq C /\ Targets(E, C) \cap allowed \subseteq C => R \subseteq C

(* A search for more and more of them.                                       *)
Searches(f, E, seed, allowed) ==
    /\ f[0] = seed
    /\ \A k \in Nat : f[k + 1] = f[k] \cup (Targets(E, f[k]) \cap allowed)

(* A search that no round extends holds the least set closed under the       *)
(* links.                                                                    *)
LEMMA SearchLeast ==
  ASSUME NEW E, NEW seed, NEW allowed, NEW f, NEW n \in Nat, NEW M,
         IsFiniteSet(M), Cardinality(M) <= n, (allowed \cap Nodes(E)) \ seed \subseteq M,
         Searches(f, E, seed, allowed)
  PROVE  Least(f[n], E, seed, allowed)
<1> USE DEF Searches
<1>1. \A X : Targets(E, X) \subseteq Nodes(E)
  BY DEF Targets, Nodes
<1> DEFINE S == {k \in Nat : seed \subseteq f[k] /\ f[k] \subseteq seed \cup (allowed \cap Nodes(E))}
<1>2. Nat \subseteq S
  <2>1. 0 \in S
    OBVIOUS
  <2>2. ASSUME NEW k \in Nat, k \in S PROVE k + 1 \in S
    BY <1>1, <2>2
  <2> HIDE DEF S
  <2>3. QED
    BY <2>1, <2>2, Induction
<1>3. f[n + 1] = f[n]
  <2>1. \A k \in Nat : f[k] \subseteq f[k + 1] /\ f[k] \subseteq f[0] \cup M
    BY <1>2
  <2>2. \A k \in Nat : f[k + 1] = f[k] => f[k + 2] = f[k + 1]
    <3>1. ASSUME NEW k \in Nat, f[k + 1] = f[k] PROVE f[k + 2] = f[k + 1]
      <4>1. f[(k + 1) + 1] = f[k + 1] \cup (Targets(E, f[k + 1]) \cap allowed)
        OBVIOUS
      <4>2. (k + 1) + 1 = k + 2
        OBVIOUS
      <4>3. QED
        BY <3>1, <4>1, <4>2
    <3>2. QED
      BY <3>1
  <2>3. QED
    BY <2>1, <2>2, GrowthEnds
<1>4. ASSUME NEW C, seed \subseteq C, Targets(E, C) \cap allowed \subseteq C
      PROVE  f[n] \subseteq C
  <2> DEFINE T == {k \in Nat : f[k] \subseteq C}
  <2>1. 0 \in T
    BY <1>4
  <2>2. ASSUME NEW k \in Nat, k \in T PROVE k + 1 \in T
    <3>1. Targets(E, f[k]) \subseteq Targets(E, C)
      BY <2>2 DEF Targets
    <3>2. QED
      BY <3>1, <1>4, <2>2
  <2> HIDE DEF T
  <2>3. Nat \subseteq T
    BY <2>1, <2>2, Induction
  <2>4. QED
    BY <2>3 DEF T
<1>5. QED
  BY <1>2, <1>3, <1>4 DEF Least

(* The sets BFS visits, round by round.                                      *)
BFSVisited(seed, E, allowed) ==
    CHOOSE f : f = [k \in Nat |-> IF k = 0 THEN seed
                                  ELSE f[k - 1] \cup (Targets(E, f[k - 1]) \cap allowed)]

(* BFS is such a search.                                                     *)
LEMMA BFSVisitedSearches ==
  ASSUME NEW seed, NEW E, NEW allowed
  PROVE  Searches(BFSVisited(seed, E, allowed), E, seed, allowed)
<1> DEFINE D == SUBSET (seed \cup allowed)
           step == [v \in D |-> v \cup (Targets(E, v) \cap allowed)]
           Is(f) == f = [k \in Nat |-> IF k = 0 THEN seed
                                       ELSE f[k - 1] \cup (Targets(E, f[k - 1]) \cap allowed)]
           visited == BFSVisited(seed, E, allowed)
<1>1. \E f : Is(f)
  <2>1. step \in [D -> D] /\ seed \in D
    OBVIOUS
  <2> HIDE DEF step
  <2>2. PICK f \in [Nat -> D] : Iterates(f, seed, step)
    BY <2>1, Rounds
  <2> USE DEF Iterates
  <2>3. \A k \in Nat : k # 0 => step[f[k - 1]] = f[k - 1] \cup (Targets(E, f[k - 1]) \cap allowed)
    <3>1. \A k \in Nat : k # 0 => f[k - 1] \in D
      BY <2>2
    <3>2. QED
      BY <3>1 DEF step
  <2>4. Is(f)
    BY <2>2, <2>3
  <2>5. QED
    BY <2>4
<1>2. Is(visited)
  BY <1>1 DEF BFSVisited
<1> HIDE DEF visited
<1>3. \A k \in Nat : visited[k] = IF k = 0 THEN seed
         ELSE visited[k - 1] \cup (Targets(E, visited[k - 1]) \cap allowed)
  BY <1>2
<1>4. ASSUME NEW k \in Nat
      PROVE  visited[k + 1] = visited[k] \cup (Targets(E, visited[k]) \cap allowed)
  <2>1. k + 1 \in Nat /\ k + 1 # 0 /\ (k + 1) - 1 = k
    OBVIOUS
  <2>2. QED
    BY <1>3, <2>1
<1>5. Searches(visited, E, seed, allowed)
  BY <1>3, <1>4 DEF Searches
<1>6. QED
  BY <1>5 DEF visited

(* What a search comes to.                                                   *)
LEMMA BFSLeast ==
  ASSUME NEW seed, NEW E, NEW valid, NEW skip, IsFiniteSet(Nodes(E))
  PROVE  Least(BFS(seed, E, valid, skip), E, seed, valid \ skip)
<1> DEFINE allowed == valid \ skip
           n == Cardinality(Nodes(E))
           f == BFSVisited(seed, E, allowed)
<1>1. BFS(seed, E, valid, skip) = f[n]
  BY DEF BFS, BFSVisited
<1>2. n \in Nat /\ Cardinality(Nodes(E)) <= n
  <2>1. n \in Nat
    BY FS_CardinalityType
  <2>2. QED
    BY <2>1
<1> HIDE DEF n
<1>3. Searches(f, E, seed, allowed)
  BY BFSVisitedSearches
<1> HIDE DEF f, allowed
<1>4. Least(f[n], E, seed, allowed)
  <2>1. (allowed \cap Nodes(E)) \ seed \subseteq Nodes(E)
    OBVIOUS
  <2>2. QED
    BY <1>2, <1>3, <2>1, SearchLeast
<1>5. QED
  BY <1>1, <1>4 DEF allowed

(* The sets the search without a filter visits.                              *)
BfsAllVisited(E, start) ==
    CHOOSE f : f = [k \in Nat |-> IF k = 0 THEN {start} ELSE f[k - 1] \cup Targets(E, f[k - 1])]

(* So is the search without a filter, and it keeps to the names.             *)
LEMMA BfsAllSearches ==
  ASSUME NEW E, NEW start
  PROVE  Searches(BfsAllVisited(E, start), E, {start}, Nodes(E))
<1> DEFINE D == SUBSET ({start} \cup Nodes(E))
           step == [v \in D |-> v \cup Targets(E, v)]
           Is(f) == f = [k \in Nat |-> IF k = 0 THEN {start}
                                       ELSE f[k - 1] \cup Targets(E, f[k - 1])]
           visited == BfsAllVisited(E, start)
<1>0. \A X : Targets(E, X) \subseteq Nodes(E)
  BY DEF Targets, Nodes
<1>1. \E f : Is(f)
  <2> DEFINE base == {start}
  <2>1. step \in [D -> D] /\ base \in D
    BY <1>0
  <2> HIDE DEF step, base, D
  <2>2. PICK f \in [Nat -> D] : Iterates(f, base, step)
    BY <2>1, Rounds
  <2> USE DEF Iterates
  <2> USE DEF D
  <2>3. \A k \in Nat : k # 0 => step[f[k - 1]] = f[k - 1] \cup Targets(E, f[k - 1])
    <3>1. \A k \in Nat : k # 0 => f[k - 1] \in D
      BY <2>2
    <3>2. QED
      BY <3>1 DEF step
  <2>4. Is(f)
    BY <2>2, <2>3 DEF base
  <2>5. QED
    BY <2>4
<1>2. Is(visited)
  BY <1>1 DEF BfsAllVisited
<1> HIDE DEF visited
<1>3. \A k \in Nat : visited[k] = IF k = 0 THEN {start}
         ELSE visited[k - 1] \cup Targets(E, visited[k - 1])
  BY <1>2
<1>4. ASSUME NEW k \in Nat
      PROVE  visited[k + 1] = visited[k] \cup (Targets(E, visited[k]) \cap Nodes(E))
  <2>1. k + 1 \in Nat /\ k + 1 # 0 /\ (k + 1) - 1 = k
    OBVIOUS
  <2>2. visited[k + 1] = visited[k] \cup Targets(E, visited[k])
    BY <1>3, <2>1
  <2>3. Targets(E, visited[k]) \subseteq Nodes(E)
    BY <1>0
  <2>4. QED
    BY <2>2, <2>3
<1>5. Searches(visited, E, {start}, Nodes(E))
  BY <1>3, <1>4 DEF Searches
<1>6. QED
  BY <1>5 DEF visited

(* What it finds is the least set with the start that the links keep.        *)
LEMMA BfsAllLeast ==
  ASSUME NEW E, NEW start, IsFiniteSet(Nodes(E))
  PROVE  Least(BfsAll(E, start), E, {start}, Nodes(E))
<1> DEFINE visited == BfsAllVisited(E, start)
           n == Cardinality(Nodes(E))
<1>1. BfsAll(E, start) = visited[n]
  BY DEF BfsAll, BfsAllVisited
<1>2. n \in Nat /\ Cardinality(Nodes(E)) <= n
  <2>1. n \in Nat
    BY FS_CardinalityType
  <2>2. QED
    BY <2>1
<1>3. Searches(visited, E, {start}, Nodes(E))
  BY BfsAllSearches
<1> HIDE DEF visited, n
<1>4. (Nodes(E) \cap Nodes(E)) \ {start} \subseteq Nodes(E)
  OBVIOUS
<1>5. Least(visited[n], E, {start}, Nodes(E))
  BY <1>2, <1>3, <1>4, SearchLeast
<1>6. QED
  BY <1>1, <1>5

------------------------------------------------------------------------------
(* Walks, and what they link.                                                *)

(* The graphs over the names, and what their edges and nodes are.            *)
Graphs == SUBSET (Names \X Names)

(* There are finitely many names, 1 to Size.                                 *)
LEMMA NamesFinite ==
  /\ Size \in Nat \ {0} /\ Names = 1..Size
  /\ IsFiniteSet(Names) /\ Cardinality(Names) = Size
<1>1. Size \in Nat \ {0}
  BY GraphReportsAssumption
<1>2. QED
  BY <1>1, FS_Interval DEF Names

(* An edge is the pair of its ends.                                          *)
LEMMA PairOfNames ==
  ASSUME NEW E \in Graphs, NEW e \in E
  PROVE  e[1] \in Names /\ e[2] \in Names /\ e = <<e[1], e[2]>>
  BY DEF Graphs

(* A node is an end of an edge.                                              *)
LEMMA NodesOf ==
  ASSUME NEW E \in Graphs
  PROVE  \A n : n \in Nodes(E) <=> \E m : <<n, m>> \in E \/ <<m, n>> \in E
<1>1. ASSUME NEW n, NEW m, <<n, m>> \in E PROVE n \in Nodes(E) /\ m \in Nodes(E)
  <2> DEFINE e == <<n, m>>
  <2>1. e \in E /\ e[1] = n /\ e[2] = m
    BY <1>1
  <2> HIDE DEF e
  <2>2. QED
    BY <2>1 DEF Nodes
<1>2. ASSUME NEW n \in Nodes(E) PROVE \E m : <<n, m>> \in E \/ <<m, n>> \in E
  <2>1. PICK e \in E : n = e[1] \/ n = e[2]
    BY DEF Nodes
  <2>2. <<e[1], e[2]>> \in E
    BY PairOfNames
  <2>3. QED
    BY <2>1, <2>2
<1>3. QED
  BY <1>1, <1>2

(* The targets of a set are where its edges lead.                            *)
LEMMA TargetsOf ==
  ASSUME NEW E \in Graphs, NEW X
  PROVE  /\ Targets(E, X) \subseteq Names
         /\ \A b : b \in Targets(E, X) <=> \E a \in X : <<a, b>> \in E
  BY PairOfNames DEF Targets

(* Those of one node.                                                        *)
LEMMA TargetsOfOne ==
  ASSUME NEW E \in Graphs, NEW a, NEW b
  PROVE  b \in Targets(E, {a}) <=> <<a, b>> \in E
<1> DEFINE X == {a}
<1>1. \A c : c \in X <=> c = a
  OBVIOUS
<1> HIDE DEF X
<1>2. b \in Targets(E, X) <=> \E c \in X : <<c, b>> \in E
  BY TargetsOf
<1>3. b \in Targets(E, X) <=> <<a, b>> \in E
  BY <1>1, <1>2
<1>4. QED
  BY <1>3 DEF X

(* A graph over the names is finite.                                         *)
LEMMA GraphFinite ==
  ASSUME NEW E \in Graphs
  PROVE  /\ IsFiniteSet(E) /\ Cardinality(E) \in Nat
         /\ Nodes(E) \subseteq Names /\ IsFiniteSet(Nodes(E))
<1>1. IsFiniteSet(Names \X Names)
  BY NamesFinite, FS_Product
<1>2. IsFiniteSet(E)
  BY <1>1, FS_Subset DEF Graphs
<1>3. Nodes(E) \subseteq Names
  BY PairOfNames DEF Nodes
<1>4. QED
  BY <1>2, <1>3, NamesFinite, FS_Subset, FS_CardinalityType

(* The walks of each length, the recursion of Walks unfolded.                *)
WalkOf(E) ==
    CHOOSE walk : walk = [k \in Nat |->
          IF k = 0 THEN {<<n, n>> : n \in Names}
          ELSE {<<pair[1][1], pair[2][2]>> :
                  pair \in {p \in walk[k - 1] \X E : p[1][2] = p[2][1]}}]

(* A longer walk is a walk and an edge more.                                 *)
LEMMA WalkRounds ==
  ASSUME NEW E \in Graphs
  PROVE  /\ Walks(E, 0) = {<<n, n>> : n \in Names}
         /\ \A k \in Nat : Walks(E, k) \in Graphs
         /\ \A k \in Nat, a, b \in Names :
              <<a, b>> \in Walks(E, k + 1) <=> \E c \in Names : <<a, c>> \in Walks(E, k) /\ <<c, b>> \in E
<1> DEFINE base == {<<n, n>> : n \in Names}
           Then(W) == {<<pair[1][1], pair[2][2]>> : pair \in {p \in W \X E : p[1][2] = p[2][1]}}
           step == [W \in Graphs |-> Then(W)]
           Is(f) == f = [k \in Nat |-> IF k = 0 THEN base ELSE Then(f[k - 1])]
           walk == WalkOf(E)
<1>1. \A W \in Graphs : Then(W) \in Graphs
  BY PairOfNames DEF Graphs
<1>2. base \in Graphs
  BY DEF Graphs
<1>3. \E f : Is(f)
  <2>1. step \in [Graphs -> Graphs]
    BY <1>1
  <2> HIDE DEF step
  <2>2. PICK f \in [Nat -> Graphs] : Iterates(f, base, step)
    BY <1>2, <2>1, Rounds
  <2> USE DEF Iterates
  <2>3. \A k \in Nat : k # 0 => step[f[k - 1]] = Then(f[k - 1])
    <3>1. \A k \in Nat : k # 0 => f[k - 1] \in Graphs
      BY <2>2
    <3>2. QED
      BY <3>1 DEF step
  <2> HIDE DEF Then
  <2>4. Is(f)
    BY <2>2, <2>3
  <2>5. QED
    BY <2>4
<1>4. Is(walk)
  BY <1>3 DEF WalkOf
<1>5. \A k \in Nat : Walks(E, k) = walk[k]
  BY DEF Walks, WalkOf
<1> HIDE DEF walk
<1>6. \A k \in Nat : walk[k] = IF k = 0 THEN base ELSE Then(walk[k - 1])
  BY <1>4
<1>7. \A k \in Nat : walk[k + 1] = Then(walk[k])
  <2>1. \A k \in Nat : k + 1 \in Nat /\ k + 1 # 0 /\ (k + 1) - 1 = k
    OBVIOUS
  <2> HIDE DEF Then
  <2>2. QED
    BY <1>6, <2>1
<1>8. \A k \in Nat : walk[k] \in Graphs
  <2> DEFINE S == {k \in Nat : walk[k] \in Graphs}
  <2> HIDE DEF Then
  <2>1. 0 \in S
    BY <1>2, <1>6
  <2>2. ASSUME NEW k \in Nat, k \in S PROVE k + 1 \in S
    BY <1>1, <1>7, <2>2
  <2> HIDE DEF S
  <2>3. Nat \subseteq S
    BY <2>1, <2>2, Induction
  <2>4. QED
    BY <2>3 DEF S
<1>9. ASSUME NEW k \in Nat, NEW a \in Names, NEW b \in Names
      PROVE  <<a, b>> \in walk[k + 1] <=> \E c \in Names : <<a, c>> \in walk[k] /\ <<c, b>> \in E
  <2>1. walk[k] \in Graphs
    BY <1>8
  <2>2. \A W \in Graphs : <<a, b>> \in Then(W) <=> \E c \in Names : <<a, c>> \in W /\ <<c, b>> \in E
    <3>1. ASSUME NEW W \in Graphs, <<a, b>> \in Then(W)
          PROVE  \E c \in Names : <<a, c>> \in W /\ <<c, b>> \in E
      <4>1. PICK p \in W \X E : p[1][2] = p[2][1] /\ <<a, b>> = <<p[1][1], p[2][2]>>
        BY <3>1
      <4>2. p[1] \in W /\ p[2] \in E
        OBVIOUS
      <4>3. p[1] = <<p[1][1], p[1][2]>> /\ p[2] = <<p[2][1], p[2][2]>> /\ p[1][2] \in Names
        BY <4>2, PairOfNames
      <4>4. QED
        BY <4>1, <4>2, <4>3
    <3>2. ASSUME NEW W \in Graphs, NEW c \in Names, <<a, c>> \in W, <<c, b>> \in E
          PROVE  <<a, b>> \in Then(W)
      <4>1. <<<<a, c>>, <<c, b>>>> \in {p \in W \X E : p[1][2] = p[2][1]}
        BY <3>2
      <4>2. QED
        BY <4>1
    <3>3. QED
      BY <3>1, <3>2
  <2> HIDE DEF Then
  <2>3. QED
    BY <1>7, <2>1, <2>2
<1>10. \A k \in Nat : k + 1 \in Nat
  OBVIOUS
<1>11. Walks(E, 0) = base
  BY <1>5, <1>6
<1>12. ASSUME NEW k \in Nat, NEW a \in Names, NEW b \in Names
       PROVE  <<a, b>> \in Walks(E, k + 1)
                <=> \E c \in Names : <<a, c>> \in Walks(E, k) /\ <<c, b>> \in E
  <2>1. Walks(E, k + 1) = walk[k + 1] /\ Walks(E, k) = walk[k]
    BY <1>5, <1>10
  <2>2. QED
    BY <1>9, <2>1
<1>13. \A k \in Nat : Walks(E, k) \in Graphs
  BY <1>5, <1>8
<1>14. QED
  BY <1>11, <1>12, <1>13


(* A walk links its ends, however long it is.                                *)
LEMMA LinkedClosed ==
  ASSUME NEW E \in Graphs
  PROVE  /\ Linked(E) \in Graphs /\ E \subseteq Linked(E)
         /\ \A a, b, c \in Names : <<a, b>> \in Linked(E) /\ <<b, c>> \in E => <<a, c>> \in Linked(E)
         /\ \A a \in Names : \A C :
              Targets(E, {a}) \subseteq C /\ Targets(E, C) \subseteq C
                => \A b : <<a, b>> \in Linked(E) => b \in C
<1>1. Linked(E) \in Graphs
  BY WalkRounds DEF Linked, Graphs
<1>2. Walks(E, 1) = E
  <2>1. Walks(E, 1) \in Graphs /\ E \in Graphs
    BY WalkRounds
  <2>2. \A a, b \in Names : <<a, b>> \in Walks(E, 0 + 1) <=> \E c \in Names : <<a, c>> \in Walks(E, 0) /\ <<c, b>> \in E
    BY WalkRounds
  <2>3. \A a, c \in Names : <<a, c>> \in Walks(E, 0) <=> a = c
    <3>1. Walks(E, 0) = {<<m, m>> : m \in Names}
      BY WalkRounds
    <3>2. QED
      BY <3>1
  <2>4. 0 + 1 = 1
    OBVIOUS
  <2>5. \A a, b \in Names : <<a, b>> \in Walks(E, 1) <=> <<a, b>> \in E
    BY <2>2, <2>3, <2>4
  <2>6. QED
    BY <2>1, <2>5 DEF Graphs
<1>3. E \subseteq Linked(E)
  <2>1. 1 \in 1..Size
    BY NamesFinite
  <2>2. QED
    BY <1>2, <2>1 DEF Linked
<1> DEFINE Stage(a) == [k \in Nat |-> {b \in Names : \E j \in 1..(k + 1) : <<a, b>> \in Walks(E, j)}]
<1>4. ASSUME NEW a \in Names PROVE Searches(Stage(a), E, Targets(E, {a}), Names)
  <2> DEFINE f == Stage(a)
  <2>1. f[0] = Targets(E, {a})
    <3>1. f[0] = {b \in Names : <<a, b>> \in Walks(E, 1)}
      OBVIOUS
    <3>2. QED
      BY <1>2, <3>1, TargetsOf
  <2>2. ASSUME NEW k \in Nat
        PROVE  f[k + 1] = f[k] \cup (Targets(E, f[k]) \cap Names)
    <3>1. f[k + 1] = {b \in Names : \E j \in 1..(k + 2) : <<a, b>> \in Walks(E, j)}
      BY k + 1 \in Nat, (k + 1) + 1 = k + 2
    <3>2. ASSUME NEW b \in f[k] PROVE b \in f[k + 1]
      BY <3>1
    <3>3. ASSUME NEW b \in Targets(E, f[k]) PROVE b \in f[k + 1]
      <4>1. PICK c \in f[k] : <<c, b>> \in E
        BY TargetsOf
      <4>2. PICK j \in 1..(k + 1) : <<a, c>> \in Walks(E, j)
        OBVIOUS
      <4>3. c \in Names /\ b \in Names
        BY <4>1, PairOfNames
      <4>4. <<a, b>> \in Walks(E, j + 1)
        <5>1. j \in Nat
          OBVIOUS
        <5>2. <<a, b>> \in Walks(E, j + 1) <=> \E d \in Names : <<a, d>> \in Walks(E, j) /\ <<d, b>> \in E
          BY <4>3, <5>1, WalkRounds
        <5>3. QED
          BY <4>1, <4>2, <4>3, <5>2
      <4>5. j + 1 \in 1..(k + 2)
        OBVIOUS
      <4>6. QED
        BY <3>1, <4>3, <4>4, <4>5
    <3>4. ASSUME NEW b \in f[k + 1] PROVE b \in f[k] \cup (Targets(E, f[k]) \cap Names)
      <4>1. PICK j \in 1..(k + 2) : <<a, b>> \in Walks(E, j)
        BY <3>1
      <4>2. CASE j <= k + 1
        BY <3>1, <4>1, <4>2
      <4>3. CASE j > k + 1
        <5>1. j = (k + 1) + 1 /\ k + 1 \in Nat /\ b \in Names
          BY <3>1, <4>3
        <5>2. PICK c \in Names : <<a, c>> \in Walks(E, k + 1) /\ <<c, b>> \in E
          BY <4>1, <5>1, WalkRounds
        <5>3. c \in f[k]
          BY <5>2
        <5>4. QED
          BY <5>1, <5>2, <5>3, TargetsOf
      <4>4. QED
        BY <4>2, <4>3
    <3> HIDE DEF f
    <3>5. QED
      BY <3>2, <3>3, <3>4
  <2>3. QED
    BY <2>1, <2>2 DEF Searches
<1> DEFINE n == Size - 1
<1>5. n \in Nat /\ n + 1 = Size
  BY NamesFinite
<1>6. ASSUME NEW a \in Names
      PROVE  {b \in Names : <<a, b>> \in Linked(E)} = Stage(a)[n]
  BY <1>5 DEF Linked
<1>7. ASSUME NEW a \in Names PROVE Least(Stage(a)[n], E, Targets(E, {a}), Names)
  <2> DEFINE M == (Names \cap Nodes(E)) \ Targets(E, {a})
  <2>1. IsFiniteSet(M) /\ M \subseteq Names
    BY NamesFinite, FS_Subset
  <2>2. CASE Targets(E, {a}) = {}
    <3>1. Targets(E, {}) = {}
      BY DEF Targets
    <3> DEFINE S == {k \in Nat : Stage(a)[k] = {}}
               f == Stage(a)
    <3> HIDE DEF f
    <3>2. Searches(f, E, {}, Names)
      BY <1>4, <2>2 DEF f
    <3>3. \A k \in Nat : f[k] = {}
      <4> DEFINE T == {k \in Nat : f[k] = {}}
      <4>1. 0 \in T
        BY <3>2 DEF Searches
      <4>2. ASSUME NEW k \in Nat, k \in T PROVE k + 1 \in T
        <5>1. f[k] = {} /\ f[k + 1] = f[k] \cup (Targets(E, f[k]) \cap Names)
          BY <3>2, <4>2 DEF Searches
        <5>2. QED
          BY <3>1, <5>1
      <4> HIDE DEF T
      <4>3. Nat \subseteq T
        BY <4>1, <4>2, Induction
      <4>4. QED
        BY <4>3 DEF T
    <3>4. f[n] = {}
      BY <1>5, <3>3
    <3>5. QED
      BY <2>2, <3>1, <3>4 DEF Least, f
  <2>3. CASE Targets(E, {a}) # {}
    <3>1. PICK t \in Targets(E, {a}) : TRUE
      BY <2>3
    <3>2. t \in Names /\ M \in SUBSET (Names \ {t})
      BY <3>1, TargetsOf
    <3>3. IsFiniteSet(Names \ {t}) /\ Cardinality(Names \ {t}) = Size - 1
      BY <3>2, NamesFinite, FS_RemoveElement
    <3>4. Cardinality(M) <= n
      BY <3>2, <3>3, FS_Subset
    <3> DEFINE f == Stage(a)
               seed == Targets(E, {a})
    <3>5. Searches(f, E, seed, Names)
      BY <1>4
    <3>6. (Names \cap Nodes(E)) \ seed \subseteq M
      OBVIOUS
    <3> HIDE DEF f, M, n, seed
    <3>7. Least(f[n], E, seed, Names)
      BY <1>5, <2>1, <3>4, <3>5, <3>6, SearchLeast
    <3>8. QED
      BY <3>7 DEF f, seed
  <2>4. QED
    BY <2>2, <2>3
<1>8. ASSUME NEW a \in Names, NEW b \in Names, NEW c \in Names, <<a, b>> \in Linked(E), <<b, c>> \in E
      PROVE  <<a, c>> \in Linked(E)
  <2> DEFINE R == {x \in Names : <<a, x>> \in Linked(E)}
  <2>1. Least(R, E, Targets(E, {a}), Names)
    BY <1>6, <1>7
  <2>2. b \in R
    BY <1>8
  <2>3. c \in Targets(E, R)
    BY <2>2, <1>8, TargetsOf
  <2>4. QED
    BY <2>1, <2>3 DEF Least
<1>9. ASSUME NEW a \in Names, NEW C, Targets(E, {a}) \subseteq C, Targets(E, C) \subseteq C,
             NEW b, <<a, b>> \in Linked(E)
      PROVE  b \in C
  <2> DEFINE R == {x \in Names : <<a, x>> \in Linked(E)}
  <2>1. Least(R, E, Targets(E, {a}), Names)
    BY <1>6, <1>7
  <2>2. b \in R
    BY <1>1, <1>9 DEF Graphs
  <2>3. R \subseteq C
    BY <2>1, <1>9 DEF Least
  <2>4. QED
    BY <2>2, <2>3
<1>10. QED
  BY <1>1, <1>3, <1>8, <1>9


(* Two walks in a row are a walk.                                            *)
LEMMA LinkedTransitive ==
  ASSUME NEW E \in Graphs, NEW a \in Names, NEW b \in Names, NEW c \in Names,
         <<a, b>> \in Linked(E), <<b, c>> \in Linked(E)
  PROVE  <<a, c>> \in Linked(E)
<1> DEFINE C == {x \in Names : <<a, x>> \in Linked(E)}
<1>1. ASSUME NEW y \in Targets(E, {b}) PROVE y \in C
  <2>1. <<b, y>> \in E
    BY <1>1, TargetsOfOne
  <2>2. QED
    BY <2>1, PairOfNames, LinkedClosed
<1>2. Targets(E, C) \subseteq C
  <2>1. ASSUME NEW y \in Targets(E, C) PROVE y \in C
    <3>1. PICK x \in C : <<x, y>> \in E
      BY TargetsOf
    <3>2. x \in Names /\ y \in Names /\ <<a, x>> \in Linked(E)
      BY TargetsOf
    <3>3. QED
      BY <3>1, <3>2, LinkedClosed
  <2>2. QED
    BY <2>1
<1> HIDE DEF C
<1>3. c \in C
  BY <1>1, <1>2, LinkedClosed
<1>4. QED
  BY <1>3 DEF C

(* A walk has a last edge, and a first one.                                  *)
LEMMA LinkedLast ==
  ASSUME NEW E \in Graphs, NEW a \in Names, NEW b \in Names, <<a, b>> \in Linked(E)
  PROVE  \E c \in Names : <<c, b>> \in E /\ (c = a \/ <<a, c>> \in Linked(E))
<1> DEFINE C == {x \in Names : \E c \in Names : <<c, x>> \in E /\ (c = a \/ <<a, c>> \in Linked(E))}
<1>1. ASSUME NEW y \in Targets(E, {a}) PROVE y \in C
  <2>1. <<a, y>> \in E
    BY <1>1, TargetsOfOne
  <2>2. QED
    BY <2>1, PairOfNames
<1>2. Targets(E, C) \subseteq C
  <2>1. ASSUME NEW y \in Targets(E, C) PROVE y \in C
    <3>1. PICK x \in C : <<x, y>> \in E
      BY TargetsOf
    <3>2. PICK c \in Names : <<c, x>> \in E /\ (c = a \/ <<a, c>> \in Linked(E))
      OBVIOUS
    <3>3. x \in Names /\ y \in Names
      BY TargetsOf
    <3>4. <<a, x>> \in Linked(E)
      BY <3>2, <3>3, LinkedClosed
    <3>5. QED
      BY <3>1, <3>3, <3>4
  <2>2. QED
    BY <2>1
<1> HIDE DEF C
<1>3. b \in C
  BY <1>1, <1>2, LinkedClosed
<1>4. QED
  BY <1>3 DEF C

(* A walk starts with an edge.                                               *)
LEMMA LinkedFirst ==
  ASSUME NEW E \in Graphs, NEW a \in Names, NEW b \in Names, <<a, b>> \in Linked(E)
  PROVE  \E c \in Names : <<a, c>> \in E /\ (c = b \/ <<c, b>> \in Linked(E))
<1> DEFINE C == {x \in Names : \E c \in Names : <<a, c>> \in E /\ (c = x \/ <<c, x>> \in Linked(E))}
<1>1. ASSUME NEW y \in Targets(E, {a}) PROVE y \in C
  <2>1. <<a, y>> \in E
    BY <1>1, TargetsOfOne
  <2>2. QED
    BY <2>1, PairOfNames
<1>2. Targets(E, C) \subseteq C
  <2>1. ASSUME NEW y \in Targets(E, C) PROVE y \in C
    <3>1. PICK x \in C : <<x, y>> \in E
      BY TargetsOf
    <3>2. PICK c \in Names : <<a, c>> \in E /\ (c = x \/ <<c, x>> \in Linked(E))
      OBVIOUS
    <3>3. x \in Names /\ y \in Names
      BY TargetsOf
    <3>4. <<c, y>> \in Linked(E)
      <4>1. CASE c = x
        BY <3>1, <4>1, LinkedClosed
      <4>2. CASE <<c, x>> \in Linked(E)
        BY <3>1, <3>3, <4>2, LinkedClosed
      <4>3. QED
        BY <3>2, <4>1, <4>2
    <3>5. QED
      BY <3>2, <3>3, <3>4
  <2>2. QED
    BY <2>1
<1> HIDE DEF C
<1>3. b \in C
  BY <1>1, <1>2, LinkedClosed
<1>4. QED
  BY <1>3 DEF C

(* A set that every edge into b, and every edge into the set, comes from     *)
(* holds all that leads to b.                                                *)
LEMMA LinkedBackwards ==
  ASSUME NEW E \in Graphs, NEW b \in Names, NEW C,
         \A a \in Names : <<a, b>> \in E => a \in C,
         \A a, c \in Names : <<a, c>> \in E /\ c \in C => a \in C,
         NEW a \in Names, <<a, b>> \in Linked(E)
  PROVE  a \in C
<1>1. SUFFICES ASSUME a \notin C PROVE FALSE
  OBVIOUS
<1> DEFINE D == {x \in Names : x \notin C /\ x # b}
<1>2. ASSUME NEW y \in Targets(E, {a}) PROVE y \in D
  <2>1. <<a, y>> \in E
    BY <1>2, TargetsOfOne
  <2>2. QED
    BY <1>1, <2>1, PairOfNames
<1>3. ASSUME NEW y \in Targets(E, D) PROVE y \in D
  <2>1. PICK x \in D : <<x, y>> \in E
    BY <1>3, TargetsOf
  <2>2. x \in Names /\ y \in Names
    BY <2>1, PairOfNames
  <2>3. QED
    BY <2>1, <2>2
<1> HIDE DEF D
<1>4. b \in D
  BY <1>2, <1>3, LinkedClosed
<1>5. QED
  BY <1>4 DEF D

(* Every edge of the reversed graph is one of the graph, turned round.       *)
LEMMA ReversedGraph ==
  ASSUME NEW E \in Graphs
  PROVE  /\ Reversed(E) \in Graphs
         /\ \A a, b : <<a, b>> \in Reversed(E) <=> <<b, a>> \in E
         /\ Nodes(Reversed(E)) = Nodes(E)
<1>1. ASSUME NEW a, NEW b PROVE <<a, b>> \in Reversed(E) <=> <<b, a>> \in E
  <2>1. ASSUME NEW e \in E, <<a, b>> = <<e[2], e[1]>> PROVE <<b, a>> \in E
    <3>1. e = <<b, a>>
      BY <2>1, PairOfNames
    <3>2. QED
      BY <3>1
  <2>2. ASSUME <<b, a>> \in E PROVE <<a, b>> \in Reversed(E)
    BY <2>2 DEF Reversed
  <2>3. QED
    BY <2>1, <2>2 DEF Reversed
<1>2. Reversed(E) \in Graphs
  BY PairOfNames DEF Reversed, Graphs
<1>3. Nodes(Reversed(E)) = Nodes(E)
  <2>1. \A n : n \in Nodes(E) <=> \E m : <<n, m>> \in E \/ <<m, n>> \in E
    BY NodesOf
  <2>2. \A n : n \in Nodes(Reversed(E)) <=> \E m : <<n, m>> \in Reversed(E) \/ <<m, n>> \in Reversed(E)
    BY <1>2, NodesOf
  <2>3. QED
    BY <1>1, <2>1, <2>2
<1>4. QED
  BY <1>1, <1>2, <1>3

(* So are its walks.                                                         *)
LEMMA LinkedReversed ==
  ASSUME NEW E \in Graphs, NEW a \in Names, NEW b \in Names
  PROVE  <<a, b>> \in Linked(Reversed(E)) <=> <<b, a>> \in Linked(E)
<1> DEFINE F == Reversed(E)
<1>1. F \in Graphs /\ \A x, y : <<x, y>> \in F <=> <<y, x>> \in E
  BY ReversedGraph
<1> HIDE DEF F
<1>2. ASSUME NEW G \in Graphs, NEW H \in Graphs, \A x, y : <<x, y>> \in H <=> <<y, x>> \in G,
             NEW x \in Names, NEW y \in Names, <<x, y>> \in Linked(G)
      PROVE  <<y, x>> \in Linked(H)
  <2> DEFINE C == {z \in Names : <<y, z>> \in Linked(H)}
  <2>1. \A z \in Names : <<z, y>> \in G => z \in C
    BY <1>2, LinkedClosed
  <2>2. \A z, c \in Names : <<z, c>> \in G /\ c \in C => z \in C
    BY <1>2, LinkedClosed
  <2> HIDE DEF C
  <2>3. x \in C
    BY <1>2, <2>1, <2>2, LinkedBackwards
  <2>4. QED
    BY <2>3 DEF C
<1>3. QED
  BY <1>1, <1>2 DEF F

(* All that a symbol leads to, itself included.                              *)
LEMMA BfsAllReaches ==
  ASSUME NEW E \in Graphs, NEW start
  PROVE  BfsAll(E, start) = {start} \cup {n \in Names : <<start, n>> \in Linked(E)}
<1> DEFINE R == BfsAll(E, start)
           C == {start} \cup {n \in Names : <<start, n>> \in Linked(E)}
<1>1. Least(R, E, {start}, Nodes(E)) /\ Targets(E, R) \subseteq Nodes(E)
  BY GraphFinite, BfsAllLeast DEF Targets, Nodes
<1> HIDE DEF R
<1>2. Targets(E, C) \subseteq C
  <2>1. ASSUME NEW b \in Targets(E, C) PROVE b \in C
    <3>1. PICK a \in C : <<a, b>> \in E
      BY TargetsOf
    <3>2. a \in Names /\ b \in Names
      BY <3>1, PairOfNames
    <3>3. CASE a = start
      BY <3>1, <3>2, <3>3, LinkedClosed
    <3>4. CASE a # start
      <4>1. <<start, a>> \in Linked(E) /\ start \in Names
        BY <3>4, LinkedClosed DEF Graphs
      <4>2. <<start, b>> \in Linked(E)
        BY <3>1, <3>2, <4>1, LinkedClosed
      <4>3. QED
        BY <3>2, <4>2
    <3>5. QED
      BY <3>3, <3>4
  <2>2. QED
    BY <2>1
<1>3. R \subseteq C
  BY <1>1, <1>2 DEF Least
<1>4. ASSUME NEW n \in Names, <<start, n>> \in Linked(E) PROVE n \in R
  <2>1. start \in Names
    BY <1>4, LinkedClosed DEF Graphs
  <2>2. Targets(E, R) \subseteq R /\ start \in R
    BY <1>1 DEF Least
  <2>3. Targets(E, {start}) \subseteq R
    BY <2>2, TargetsOf
  <2>4. QED
    BY <1>4, <2>1, <2>2, <2>3, LinkedClosed
<1>5. start \in R
  BY <1>1 DEF Least
<1>6. QED
  BY <1>3, <1>4, <1>5 DEF R

(* The search for dependents, which passes through all but n itself, finds   *)
(* all that leads to n.                                                      *)
LEMMA DependentsFound ==
  ASSUME NEW E \in Graphs, NEW n \in Names, NEW V, Nodes(E) \subseteq V
  PROVE  LET R == BFS(Targets(Reversed(E), {n}), Reversed(E), V, {n})
         IN  /\ R \ {n} = {d \in Names \ {n} : <<d, n>> \in Linked(E)}
             /\ R \subseteq Names
             /\ n \in R <=> <<n, n>> \in E
<1> DEFINE F == Reversed(E)
           seed == Targets(F, {n})
           R == BFS(seed, F, V, {n})
           D == {d \in Names \ {n} : <<d, n>> \in Linked(E)}
<1>1. F \in Graphs /\ (\A a, b : <<a, b>> \in F <=> <<b, a>> \in E) /\ Nodes(F) = Nodes(E)
  BY ReversedGraph
<1>2. IsFiniteSet(Nodes(F))
  BY <1>1, GraphFinite
<1>3. Least(R, F, seed, V \ {n})
  BY <1>2, BFSLeast
<1>4. \A a : a \in seed <=> <<a, n>> \in E
  BY <1>1, TargetsOfOne
<1>5. seed \subseteq Names
  BY <1>1, TargetsOf
<1> HIDE DEF R, F, seed
<1>6. \A X : \A a : a \in Targets(F, X) <=> \E b \in X : <<a, b>> \in E
  BY <1>1, TargetsOf
<1>7. R \subseteq seed \cup D
  <2>1. seed \subseteq seed \cup D
    OBVIOUS
  <2>2. ASSUME NEW a \in Targets(F, seed \cup D), a # n PROVE a \in D
    <3>1. PICK b \in seed \cup D : <<a, b>> \in E
      BY <1>6
    <3>2. a \in Names /\ b \in Names
      BY <3>1, PairOfNames
    <3>3. <<b, n>> \in Linked(E)
      BY <1>4, <3>2, LinkedClosed
    <3>4. <<a, b>> \in Linked(E)
      BY <3>1, LinkedClosed
    <3>5. <<a, n>> \in Linked(E)
      BY <3>2, <3>3, <3>4, LinkedTransitive
    <3>6. QED
      BY <2>2, <3>2, <3>5
  <2>3. Targets(F, seed \cup D) \cap (V \ {n}) \subseteq seed \cup D
    BY <2>2
  <2>4. QED
    BY <1>3, <2>1, <2>3 DEF Least
<1>8. \A a \in seed : <<a, n>> \in Linked(E)
  BY <1>4, LinkedClosed
<1>9. D \subseteq R
  <2> DEFINE C == R \cup {n}
  <2>1. \A a \in Names : <<a, n>> \in E => a \in C
    BY <1>3, <1>4 DEF Least
  <2>2. ASSUME NEW a \in Names, NEW c \in Names, <<a, c>> \in E, c \in C
        PROVE  a \in C
    <3>1. CASE c = n
      BY <2>1, <2>2, <3>1
    <3>2. CASE c \in R
      <4>1. a \in Targets(F, R)
        BY <1>6, <2>2, <3>2
      <4>2. a \in V
        BY <2>2 DEF Nodes
      <4>3. QED
        BY <1>3, <4>1, <4>2 DEF Least
    <3>3. QED
      BY <2>2, <3>1, <3>2
  <2> HIDE DEF C
  <2>3. \A a \in Names : <<a, n>> \in Linked(E) => a \in C
    BY <2>1, <2>2, LinkedBackwards
  <2>4. QED
    BY <2>3 DEF C
<1>10. seed \subseteq R
  BY <1>3 DEF Least
<1>11. R \ {n} = D
  BY <1>5, <1>7, <1>8, <1>9, <1>10
<1>12. R \subseteq Names
  BY <1>5, <1>7
<1>13. n \in R <=> <<n, n>> \in E
  BY <1>4, <1>7, <1>10
<1>14. QED
  BY <1>11, <1>12, <1>13 DEF R, F, seed

------------------------------------------------------------------------------
(* Greatest and least members.                                               *)

(* A finite set of naturals that is not empty has a greatest number.         *)
LEMMA GreatestOf ==
  ASSUME NEW S \in SUBSET Int, IsFiniteSet(S), S # {}
  PROVE  \E x \in S : \A y \in S : y <= x
<1> DEFINE Top(F) == \E x \in F : \A y \in F : y <= x
           T == {n \in Nat : \A F \in SUBSET S : F # {} /\ Cardinality(F) = n => Top(F)}
<1>1. 0 \in T
  <2>1. \A F \in SUBSET S : Cardinality(F) = 0 => F = {}
    BY FS_Subset, FS_EmptySet
  <2>2. QED
    BY <2>1
<1>2. ASSUME NEW n \in Nat, n \in T PROVE n + 1 \in T
  <2>1. ASSUME NEW F \in SUBSET S, F # {}, Cardinality(F) = n + 1 PROVE Top(F)
    <3>1. PICK x \in F : TRUE
      BY <2>1
    <3>2. IsFiniteSet(F)
      BY FS_Subset
    <3>3. Cardinality(F \ {x}) = n
      <4>1. Cardinality(F \ {x}) = Cardinality(F) - 1
        BY <3>1, <3>2, FS_RemoveElement
      <4>2. QED
        BY <2>1, <4>1
    <3>4. CASE F \ {x} = {}
      <4>1. \A y \in F : y = x
        BY <3>4
      <4>2. QED
        BY <4>1, <3>1
    <3>5. CASE F \ {x} # {}
      <4>1. Top(F \ {x})
        BY <1>2, <3>3, <3>5
      <4>2. PICK z \in F \ {x} : \A y \in F \ {x} : y <= z
        BY <4>1
      <4>3. CASE x <= z
        BY <4>2, <4>3
      <4>4. CASE ~(x <= z)
        BY <3>1, <4>2, <4>4
      <4>5. QED
        BY <4>3, <4>4
    <3>6. QED
      BY <3>4, <3>5
  <2> HIDE DEF Top
  <2>2. QED
    BY <2>1
<1> HIDE DEF T
<1>3. Nat \subseteq T
  BY <1>1, <1>2, Induction
<1>4. Cardinality(S) \in T
  BY <1>3, FS_CardinalityType
<1>5. QED
  BY <1>4 DEF T

(* Max of such a set is in it and no less than any of it.                    *)
LEMMA MaxOf ==
  ASSUME NEW S \in SUBSET Int, IsFiniteSet(S), S # {}
  PROVE  Max(S) \in S /\ \A y \in S : y <= Max(S)
<1>1. PICK x \in S : \A y \in S : y <= x
  BY GreatestOf
<1>2. \E z \in S : \A y \in S : z >= y
  BY <1>1
<1>3. Max(S) \in S /\ \A y \in S : Max(S) >= y
  BY <1>2 DEF Max
<1>4. QED
  BY <1>3

(* Min of a set of naturals is in it and no more than any of it.             *)
LEMMA MinOf ==
  ASSUME NEW S \in SUBSET Nat, S # {}
  PROVE  Min(S) \in S /\ \A y \in S : Min(S) <= y
<1>1. PICK x \in S : \A y \in S : x <= y
  BY LeastOf
<1>2. QED
  BY <1>1 DEF Min

(* A member that no other passes is the greatest, or the least.              *)
LEMMA MaxIs ==
  ASSUME NEW S \in SUBSET Int, NEW x \in S, \A y \in S : y <= x
  PROVE  Max(S) = x
<1>1. \E z \in S : \A y \in S : z >= y
  OBVIOUS
<1>2. Max(S) \in S /\ \A y \in S : Max(S) >= y
  BY <1>1 DEF Max
<1>3. Max(S) <= x /\ Max(S) >= x /\ Max(S) \in Int /\ x \in Int
  BY <1>2
<1>4. QED
  BY <1>3

(* A member no more than any is the Min.                                     *)
LEMMA MinIs ==
  ASSUME NEW S \in SUBSET Int, NEW x \in S, \A y \in S : x <= y
  PROVE  Min(S) = x
<1>1. \E z \in S : \A y \in S : z <= y
  OBVIOUS
<1>2. Min(S) \in S /\ \A y \in S : Min(S) <= y
  BY <1>1 DEF Min
<1>3. x <= Min(S) /\ Min(S) <= x /\ Min(S) \in Int /\ x \in Int
  BY <1>2
<1>4. QED
  BY <1>3

(* The Min of two numbers.                                                   *)
LEMMA MinOfTwo ==
  ASSUME NEW a \in Int, NEW b \in Int
  PROVE  Min({a, b}) = IF a <= b THEN a ELSE b
<1> DEFINE S == {a, b}
<1>1. S \in SUBSET Int /\ a \in S /\ b \in S /\ \A y \in S : y = a \/ y = b
  OBVIOUS
<1> HIDE DEF S
<1>2. CASE a <= b
  BY <1>1, <1>2, MinIs DEF S
<1>3. CASE ~(a <= b)
  BY <1>1, <1>3, MinIs DEF S
<1>4. QED
  BY <1>2, <1>3

------------------------------------------------------------------------------
(* The graph that grows.                                                     *)

(* Edges join nodes of the graph.                                            *)
THEOREM GraphTypeOK == Spec => [](edges \in Graphs)
<1>1. Init => edges \in Graphs
  BY DEF Init, Graphs
<1>2. edges \in Graphs /\ [Next]_edges => (edges \in Graphs)'
  <2> SUFFICES ASSUME edges \in Graphs, [Next]_edges PROVE edges' \in Graphs
    OBVIOUS
  <2>1. ASSUME NEW from \in Names, NEW to \in Names, Depend(from, to) PROVE edges' \in Graphs
    BY <2>1 DEF Depend, Graphs
  <2>2. CASE NewDependencyGraph
    BY <2>2 DEF NewDependencyGraph, Graphs
  <2>3. CASE UNCHANGED edges
    BY <2>3
  <2>4. QED
    BY <2>1, <2>2, <2>3 DEF Next
<1>3. QED
  BY <1>1, <1>2, PTL DEF Spec

(* The parts of the graph: a component is never said to import itself.       *)
LEMMA ImportsGraph ==
  ASSUME edges \in Graphs
  PROVE  /\ Imports \in Graphs /\ SymbolEdges \in Graphs /\ Calls \in Graphs
         /\ \A n : <<n, n>> \notin Imports
<1>1. Imports \subseteq edges /\ SymbolEdges \subseteq edges /\ Calls \subseteq edges
  BY DEF Imports, SymbolEdges, Calls
<1>2. \A n : <<n, n>> \notin Imports
  BY DEF Imports
<1>3. QED
  BY <1>1, <1>2 DEF Graphs

(* The dependents of a component.                                            *)
DependentsOf(E, n) == {d \in Names \ {n} : <<d, n>> \in Linked(E)}

(* ComputeImpact names what imports a component and what is linked to it.    *)
LEMMA ImpactDependents ==
  ASSUME NEW E \in Graphs, NEW n, <<n, n>> \notin E
  PROVE  /\ ComputeImpact(E, Names, n).DirectDeps = Targets(Reversed(E), {n})
         /\ ComputeImpact(E, Names, n).TransDeps = DependentsOf(E, n)
<1> DEFINE F == Reversed(E)
           seed == Targets(F, {n})
           R == BFS(seed, F, Names, {n})
<1>1. seed \cap Names = seed
  BY ReversedGraph, TargetsOf
<1>2. ComputeImpact(E, Names, n).DirectDeps = seed /\ ComputeImpact(E, Names, n).TransDeps = R
  BY <1>1 DEF ComputeImpact
<1>3. CASE n \in Names
  <2>1. Nodes(E) \subseteq Names
    BY GraphFinite
  <2>2. R \ {n} = DependentsOf(E, n) /\ (n \in R <=> <<n, n>> \in E)
    BY <1>3, <2>1, DependentsFound DEF DependentsOf
  <2>3. n \notin DependentsOf(E, n)
    BY DEF DependentsOf
  <2> HIDE DEF R
  <2>4. R = DependentsOf(E, n)
    BY <2>2, <2>3
  <2>5. QED
    BY <1>2, <2>4
<1>4. CASE n \notin Names
  <2>1. seed = {}
    <3>1. ASSUME NEW x \in seed PROVE FALSE
      <4>1. <<n, x>> \in F /\ F \in Graphs
        BY <3>1, ReversedGraph, TargetsOfOne
      <4>2. QED
        BY <1>4, <4>1 DEF Graphs
    <3>2. QED
      BY <3>1
  <2>2. DependentsOf(E, n) = {}
    <3>1. Linked(E) \in Graphs
      BY LinkedClosed
    <3>2. QED
      BY <1>4, <3>1 DEF DependentsOf, Graphs
  <2>3. F \in Graphs /\ IsFiniteSet(Nodes(F))
    BY ReversedGraph, GraphFinite
  <2> HIDE DEF F
  <2>4. Least(R, F, {}, Names \ {n})
    BY <2>1, <2>3, BFSLeast
  <2>5. Targets(F, {}) \cap (Names \ {n}) \subseteq {}
    BY DEF Targets
  <2> HIDE DEF R
  <2>6. R = {}
    BY <2>4, <2>5 DEF Least
  <2>7. QED
    BY <1>2, <2>2, <2>6 DEF F
<1>5. QED
  BY <1>3, <1>4

(* Part of ChangesTracked: the dependents of a component are what is         *)
(* linked to it.                                                             *)
LEMMA ImpactReached ==
  ASSUME edges \in Graphs
  PROVE  ImpactReaches
<1> USE ImportsGraph
<1> DEFINE impact == ComputeImpact(Imports, Names, 1)
           blast == ComputeSymbolBlastRadius(edges, 1)
           files == {0, 1, 2}
           dirOf == [f \in {0, 1, 2} |-> f]
           both == ComputeBlastRadius(Imports, Names, files, dirOf)
<1>1. 1 \in Names
  BY NamesFinite
<1>2. impact.TransDeps = DependentsOf(Imports, 1)
  BY ImpactDependents
<1>3. /\ (blast.DirectCallers \cup blast.TransCallers) \ {1} = DependentsOf(edges, 1)
      /\ 1 \notin blast.TransCallers
  <2> DEFINE F == Reversed(edges)
             seed == Targets(F, {1})
             R == BFS(seed, F, Nodes(F), {1})
  <2>1. /\ R \ {1} = DependentsOf(edges, 1)
        /\ 1 \in R <=> <<1, 1>> \in edges
    BY <1>1, ReversedGraph, DependentsFound DEF DependentsOf
  <2>2. F \in Graphs /\ IsFiniteSet(Nodes(F)) /\ Nodes(F) = Nodes(edges)
    BY ReversedGraph, GraphFinite
  <2>3. seed \subseteq R
    <3> HIDE DEF F
    <3>1. Least(R, F, seed, Nodes(F) \ {1})
      BY <2>2, BFSLeast
    <3>2. QED
      BY <3>1 DEF Least
  <2>4. 1 \in seed <=> <<1, 1>> \in edges
    BY <2>2, ReversedGraph, TargetsOfOne
  <2>5. blast.DirectCallers = seed /\ blast.TransCallers = R \ seed
    BY <2>2 DEF ComputeSymbolBlastRadius
  <2> HIDE DEF R, seed, blast
  <2>6. QED
    BY <2>1, <2>3, <2>4, <2>5
<1>4. both.AffectedComponents
        = ({1, 2} \cap Names) \cup DependentsOf(Imports, 1) \cup DependentsOf(Imports, 2)
  <2> DEFINE changed == {dirOf[f] : f \in files} \cap Names
             Dep(c) == ComputeImpact(Imports, Names, c).TransDeps
  <2>1. both.AffectedComponents = changed \cup UNION {Dep(c) : c \in changed}
    BY DEF ComputeBlastRadius
  <2>2. changed = {1, 2} \cap Names
    BY NamesFinite
  <2>3. \A c : Dep(c) = DependentsOf(Imports, c)
    BY ImpactDependents
  <2>4. 2 \notin Names => DependentsOf(Imports, 2) = {}
    <3>1. Linked(Imports) \in Graphs
      BY LinkedClosed
    <3>2. QED
      BY <3>1 DEF DependentsOf, Graphs
  <2>5. UNION {Dep(c) : c \in changed} = DependentsOf(Imports, 1) \cup DependentsOf(Imports, 2)
    <3> HIDE DEF changed, Dep
    <3>1. UNION {Dep(c) : c \in changed} = UNION {DependentsOf(Imports, c) : c \in changed}
      BY <2>3
    <3>2. QED
      BY <1>1, <2>2, <2>4, <3>1
  <2> HIDE DEF changed, Dep, both
  <2>6. QED
    BY <2>1, <2>2, <2>5
<1>5. QED
  BY <1>2, <1>3, <1>4 DEF ImpactReaches, DependentsOf

(* The degrees of a node are naturals.                                       *)
LEMMA FanNumbers ==
  ASSUME NEW E \in Graphs, NEW n
  PROVE  FanIn(E, n) \in Nat /\ FanOut(E, n) \in Nat
<1>1. {e \in E : e[2] = n} \in SUBSET E /\ {e \in E : e[1] = n} \in SUBSET E
  OBVIOUS
<1>2. QED
  BY <1>1, GraphFinite, FS_Subset, FS_CardinalityType DEF FanIn, FanOut

(* Part of ChangesTracked: a comparison of reports gives the later from      *)
(* the earlier.                                                              *)
LEMMA ReportsComparedWell ==
  ASSUME edges \in Graphs
  PROVE  ReportsCompared
<1> DEFINE Report(E) == [edges |-> E, services |-> Services]
           Hub(E, n) == FanIn(E, n) >= (IF Services[n].nesting >= HotNesting THEN HotFanIn ELSE HubFanIn)
           turned == {<<e[2], e[1]>> : e \in Imports}
<1>1. Imports \in Graphs /\ turned \in Graphs /\ {} \in Graphs
  <2>1. turned = Reversed(Imports)
    BY DEF Reversed
  <2>2. QED
    BY <2>1, ImportsGraph, ReversedGraph DEF Graphs
<1>2. DOMAIN Services = Names /\ \A n \in Names : Services[n].churn \in Nat /\ Services[n].nesting \in Nat
  BY GraphReportsAssumption
<1>3. HotFanIn \in Nat /\ HotChurn \in Nat /\ HotNesting \in Nat /\ HubFanIn \in Nat /\ HotFanIn <= HubFanIn
  BY LayerRulesAssumption
<1>4. ASSUME NEW E \in Graphs, NEW n \in Names
      PROVE  n \in ComputeHotSpots(E, Services) <=> Services[n].churn >= HotChurn \/ Hub(E, n)
  <2>1. FanIn(E, n) \in Nat
    BY FanNumbers
  <2>2. QED
    BY <1>2, <1>3, <2>1 DEF ComputeHotSpots
<1>5. ASSUME NEW E \in Graphs
      PROVE  LET diff == DiffReports(Report(E), Report(Imports))
             IN  /\ Imports = (E \ diff.removedEdges) \cup diff.addedEdges
                 /\ diff.addedEdges \cap E = {} /\ diff.removedEdges \cap Imports = {}
                 /\ diff.churnDeltas
                      = {n \in Names : /\ Services[n].churn \in 1..(HotChurn - 1)
                                       /\ Hub(E, n) # Hub(Imports, n)}
  <2> DEFINE diff == DiffReports(Report(E), Report(Imports))
             Churn(G, n) == IF n \in ComputeHotSpots(G, Services) THEN Services[n].churn ELSE 0
  <2>1. /\ diff.addedEdges = Imports \ E
        /\ diff.removedEdges = E \ Imports
        /\ diff.churnDeltas = {n \in Names : Churn(E, n) # Churn(Imports, n)}
    BY <1>2 DEF DiffReports
  <2>2. ASSUME NEW n \in Names
        PROVE  Churn(E, n) # Churn(Imports, n)
                 <=> Services[n].churn \in 1..(HotChurn - 1) /\ Hub(E, n) # Hub(Imports, n)
    <3> DEFINE c == Services[n].churn
    <3>1. c \in Nat
      BY <1>2
    <3>2. Hub(E, n) \in BOOLEAN /\ Hub(Imports, n) \in BOOLEAN
      OBVIOUS
    <3>3. /\ n \in ComputeHotSpots(E, Services) <=> c >= HotChurn \/ Hub(E, n)
          /\ n \in ComputeHotSpots(Imports, Services) <=> c >= HotChurn \/ Hub(Imports, n)
      BY <1>1, <1>4
    <3> HIDE DEF Hub, c
    <3>4. c \in 1..(HotChurn - 1) <=> c # 0 /\ ~(c >= HotChurn)
      BY <1>3, <3>1
    <3>5. Churn(E, n) = (IF n \in ComputeHotSpots(E, Services) THEN c ELSE 0)
      BY DEF c
    <3>6. Churn(Imports, n) = (IF n \in ComputeHotSpots(Imports, Services) THEN c ELSE 0)
      BY DEF c
    <3>7. Churn(E, n) # Churn(Imports, n) <=>
            /\ c # 0
            /\ ~(n \in ComputeHotSpots(E, Services) <=> n \in ComputeHotSpots(Imports, Services))
      BY <3>5, <3>6
    <3>8. QED
      BY <3>2, <3>3, <3>4, <3>7 DEF c
  <2> HIDE DEF Churn, Hub, diff
  <2>3. diff.churnDeltas = {n \in Names : /\ Services[n].churn \in 1..(HotChurn - 1)
                                          /\ Hub(E, n) # Hub(Imports, n)}
    BY <2>1, <2>2
  <2>4. QED
    BY <2>1, <2>3 DEF diff
<1>6. SUFFICES ASSUME NEW E \in {{}, turned}
      PROVE  LET diff == DiffReports(Report(E), Report(Imports))
             IN  /\ Imports = (E \ diff.removedEdges) \cup diff.addedEdges
                 /\ diff.addedEdges \cap E = {} /\ diff.removedEdges \cap Imports = {}
                 /\ diff.churnDeltas
                      = {n \in Names : /\ Services[n].churn \in 1..(HotChurn - 1)
                                       /\ Hub(E, n) # Hub(Imports, n)}
  BY DEF ReportsCompared
<1>7. E \in Graphs
  BY <1>1, <1>6
<1> HIDE DEF turned, Report, Hub
<1>8. QED
  BY <1>5, <1>7

(* However a graph of imports grows, the dependents that are found of a      *)
(* component, of a symbol or of files are those that walks lead from, and a  *)
(* comparison of reports gives one from the other.                           *)
THEOREM ChangesTrackedHolds == Spec => []ChangesTracked
<1>1. edges \in Graphs => ChangesTracked
  BY ImpactReached, ReportsComparedWell DEF ChangesTracked
<1>2. QED
  BY <1>1, GraphTypeOK, PTL

------------------------------------------------------------------------------
(* Groups of what is linked in either direction.                             *)

(* The graph with each edge both ways is the same turned round.              *)
LEMMA UndirectedGraph ==
  ASSUME NEW E \in Graphs
  PROVE  /\ Undirected(E) \in Graphs
         /\ \A a, b : <<a, b>> \in Undirected(E) <=> <<a, b>> \in E \/ <<b, a>> \in E
         /\ Reversed(Undirected(E)) = Undirected(E)
         /\ Nodes(Undirected(E)) = Nodes(E)
<1>1. Reversed(E) \in Graphs /\ \A a, b : <<a, b>> \in Reversed(E) <=> <<b, a>> \in E
  BY ReversedGraph
<1>2. Undirected(E) \in Graphs
  BY <1>1 DEF Undirected, Graphs
<1>3. ASSUME NEW a, NEW b PROVE <<a, b>> \in Undirected(E) <=> <<a, b>> \in E \/ <<b, a>> \in E
  BY <1>1 DEF Undirected
<1> DEFINE U == Undirected(E)
<1>4. Reversed(U) \in Graphs /\ \A a, b : <<a, b>> \in Reversed(U) <=> <<b, a>> \in U
  BY <1>2, ReversedGraph
<1>5. Reversed(U) = U
  <2>1. \A a, b : <<a, b>> \in Reversed(U) <=> <<a, b>> \in U
    BY <1>3, <1>4
  <2> HIDE DEF U
  <2>2. QED
    BY <1>2, <1>4, <2>1 DEF Graphs, U
<1>6. Nodes(U) = Nodes(E)
  <2>1. \A n : n \in Nodes(E) <=> \E m : <<n, m>> \in E \/ <<m, n>> \in E
    BY NodesOf
  <2>2. \A n : n \in Nodes(U) <=> \E m : <<n, m>> \in U \/ <<m, n>> \in U
    BY <1>2, NodesOf
  <2>3. QED
    BY <1>3, <2>1, <2>2
<1>7. QED
  BY <1>2, <1>3, <1>5, <1>6

(* A node and what it is linked to.                                          *)
Group(U, n) == {n} \cup {m \in Names : <<n, m>> \in Linked(U)}

(* The least set the links keep is what the start is linked to, itself       *)
(* included.                                                                 *)
LEMMA LeastReaches ==
  ASSUME NEW E \in Graphs, NEW start, NEW allowed, Nodes(E) \subseteq allowed,
         NEW R, Least(R, E, {start}, allowed)
  PROVE  R = Group(E, start)
<1> DEFINE C == Group(E, start)
<1>1. Targets(E, C) \subseteq C
  <2>1. ASSUME NEW b \in Targets(E, C) PROVE b \in C
    <3>1. PICK a \in C : <<a, b>> \in E
      BY TargetsOf
    <3>2. a \in Names /\ b \in Names
      BY <3>1, PairOfNames
    <3>3. CASE a = start
      BY <3>1, <3>2, <3>3, LinkedClosed DEF Group
    <3>4. CASE a # start
      <4>1. <<start, a>> \in Linked(E) /\ start \in Names
        BY <3>4, LinkedClosed DEF Graphs, Group
      <4>2. <<start, b>> \in Linked(E)
        BY <3>1, <3>2, <4>1, LinkedClosed
      <4>3. QED
        BY <3>2, <4>2 DEF Group
    <3>5. QED
      BY <3>3, <3>4
  <2>2. QED
    BY <2>1
<1>2. start \in C
  BY DEF Group
<1>3. R \subseteq C
  BY <1>1, <1>2 DEF Least
<1>4. Targets(E, R) \subseteq allowed
  BY DEF Targets, Nodes
<1>5. start \in R /\ Targets(E, R) \subseteq R
  BY <1>4 DEF Least
<1>6. ASSUME NEW n \in Names, <<start, n>> \in Linked(E) PROVE n \in R
  <2>1. start \in Names
    BY <1>6, LinkedClosed DEF Graphs
  <2>2. Targets(E, {start}) \subseteq R
    <3>1. ASSUME NEW y \in Targets(E, {start}) PROVE y \in R
      <4>1. <<start, y>> \in E
        BY <3>1, TargetsOfOne
      <4>2. y \in Targets(E, R)
        BY <1>5, <4>1, TargetsOf
      <4>3. QED
        BY <1>5, <4>2
    <3>2. QED
      BY <3>1
  <2>3. QED
    BY <1>5, <1>6, <2>1, <2>2, LinkedClosed
<1>7. QED
  BY <1>3, <1>5, <1>6 DEF Group

(* BFS from one node finds it.                                               *)
LEMMA BFSGroup ==
  ASSUME NEW E \in Graphs, NEW n, NEW N, Nodes(E) \subseteq N
  PROVE  BFS({n}, E, N, {}) = Group(E, n)
<1>1. Least(BFS({n}, E, N, {}), E, {n}, N \ {})
  BY GraphFinite, BFSLeast
<1> DEFINE R == BFS({n}, E, N, {})
<1>2. N \ {} = N
  OBVIOUS
<1>3. Least(R, E, {n}, N)
  BY <1>1, <1>2
<1> HIDE DEF R
<1>4. R = Group(E, n)
  BY <1>3, LeastReaches
<1>5. QED
  BY <1>4 DEF R

(* Where the links go both ways, so do the walks.                            *)
LEMMA LinkedBothWays ==
  ASSUME NEW E \in Graphs, NEW a \in Names, NEW b \in Names
  PROVE  <<a, b>> \in Linked(Undirected(E)) <=> <<b, a>> \in Linked(Undirected(E))
<1> DEFINE U == Undirected(E)
<1>1. U \in Graphs /\ Reversed(U) = U
  BY UndirectedGraph
<1> HIDE DEF U
<1>2. <<a, b>> \in Linked(Reversed(U)) <=> <<b, a>> \in Linked(U)
  BY <1>1, LinkedReversed
<1>3. QED
  BY <1>1, <1>2 DEF U

(* Groups are equal or apart.                                                *)
LEMMA GroupsApart ==
  ASSUME NEW E \in Graphs, NEW a \in Names, NEW b \in Names
  PROVE  LET U == Undirected(E)
         IN  /\ Group(U, a) \subseteq Names /\ a \in Group(U, a)
             /\ b \in Group(U, a) <=> a \in Group(U, b)
             /\ b \in Group(U, a) => Group(U, a) = Group(U, b)
             /\ b \notin Group(U, a) => Group(U, a) \cap Group(U, b) = {}
<1> DEFINE U == Undirected(E)
<1>1. U \in Graphs
  BY UndirectedGraph
<1>2. \A x, y \in Names : <<x, y>> \in Linked(U) <=> <<y, x>> \in Linked(U)
  BY LinkedBothWays
<1> HIDE DEF U
<1>3. \A x, y \in Names : y \in Group(U, x) <=> y = x \/ <<x, y>> \in Linked(U)
  BY DEF Group
<1>4. \A x \in Names : Group(U, x) \subseteq Names
  BY DEF Group
<1>5. \A x, y \in Names : y \in Group(U, x) <=> x \in Group(U, y)
  BY <1>2, <1>3
<1>6. ASSUME NEW x \in Names, NEW y \in Names, NEW z \in Names, y \in Group(U, x), z \in Group(U, y)
      PROVE  z \in Group(U, x)
  <2>1. CASE y = x
    BY <1>6, <2>1
  <2>2. CASE z = y
    BY <1>6, <2>2
  <2>3. CASE y # x /\ z # y
    <3>1. <<x, y>> \in Linked(U) /\ <<y, z>> \in Linked(U)
      BY <1>3, <1>6, <2>3
    <3>2. <<x, z>> \in Linked(U)
      BY <1>1, <3>1, LinkedTransitive
    <3>3. QED
      BY <1>3, <3>2
  <2>4. QED
    BY <2>1, <2>2, <2>3
<1>7. ASSUME b \in Group(U, a) PROVE Group(U, a) = Group(U, b)
  <2>1. ASSUME NEW z \in Group(U, a) PROVE z \in Group(U, b)
    <3>1. z \in Names
      BY <1>4
    <3>2. QED
      BY <1>5, <1>6, <1>7, <3>1
  <2>2. ASSUME NEW z \in Group(U, b) PROVE z \in Group(U, a)
    <3>1. z \in Names
      BY <1>4
    <3>2. QED
      BY <1>6, <1>7, <3>1
  <2>3. QED
    BY <2>1, <2>2
<1>8. ASSUME NEW z \in Group(U, a) \cap Group(U, b) PROVE b \in Group(U, a)
  <2>1. z \in Names
    BY <1>4
  <2>2. QED
    BY <1>5, <1>6, <2>1
<1>9. a \in Group(U, a)
  BY DEF Group
<1>10. QED
  BY <1>4, <1>5, <1>7, <1>8, <1>9 DEF U

(* More edges, more walks.                                                   *)
LEMMA LinkedMonotone ==
  ASSUME NEW E \in Graphs, NEW F \in Graphs, F \subseteq E
  PROVE  Linked(F) \subseteq Linked(E)
<1>1. SUFFICES ASSUME NEW a \in Names, NEW b \in Names, <<a, b>> \in Linked(F)
               PROVE  <<a, b>> \in Linked(E)
  <2>1. Linked(F) \in Graphs
    BY LinkedClosed
  <2>2. QED
    BY <2>1 DEF Graphs
<1> DEFINE C == {x \in Names : <<a, x>> \in Linked(E)}
<1>2. ASSUME NEW y \in Targets(F, {a}) PROVE y \in C
  <2>1. <<a, y>> \in F
    BY <1>2, TargetsOfOne
  <2>2. QED
    BY <2>1, PairOfNames, LinkedClosed
<1>3. ASSUME NEW y \in Targets(F, C) PROVE y \in C
  <2>1. PICK x \in C : <<x, y>> \in F
    BY <1>3, TargetsOf
  <2>2. x \in Names /\ y \in Names /\ <<a, x>> \in Linked(E) /\ <<x, y>> \in E
    BY <2>1, PairOfNames
  <2>3. QED
    BY <2>2, LinkedClosed
<1> HIDE DEF C
<1>4. Targets(F, {a}) \subseteq C /\ Targets(F, C) \subseteq C
  BY <1>2, <1>3
<1>5. b \in C
  BY <1>1, <1>4, LinkedClosed
<1>6. QED
  BY <1>5 DEF C

------------------------------------------------------------------------------
(* A symbol taken out.                                                       *)

(* The groups of a set of nodes.                                             *)
Groups(U, N) == {Group(U, n) : n \in N}

(* The parts that Isolate counts are the groups of the graph inside.         *)
LEMMA InsideGraph ==
  ASSUME NEW E \in Graphs, NEW N
  PROVE  /\ Inside(E, N) \in Graphs
         /\ Nodes(Undirected(Inside(E, N))) \subseteq N
         /\ ComponentsWith(E, N) = Cardinality(Groups(Undirected(Inside(E, N)), N))
<1> DEFINE U == Undirected(Inside(E, N))
<1>1. Inside(E, N) \in Graphs
  BY DEF Inside, Graphs
<1>2. Nodes(Inside(E, N)) \subseteq N
  BY DEF Inside, Nodes
<1>3. U \in Graphs /\ Nodes(U) \subseteq N
  BY <1>1, <1>2, UndirectedGraph
<1> HIDE DEF U
<1>4. \A n : BFS({n}, U, N, {}) = Group(U, n)
  BY <1>3, BFSGroup
<1>5. {BFS({n}, U, N, {}) : n \in N} = Groups(U, N)
  BY <1>4 DEF Groups
<1>6. QED
  BY <1>1, <1>3, <1>5 DEF ComponentsWith, U

(* More groups are left when the node parted two, fewer when it stood        *)
(* alone.                                                                    *)
LEMMA IsolateSplits ==
  ASSUME NEW E \in Graphs, NEW N \in SUBSET Names, NEW s \in N
  PROVE  LET isolated == Isolate(E, N, s)
             before == Linked(Undirected(Inside(E, N)))
             after == Linked(Undirected(Inside(E, N \ {s})))
         IN  /\ isolated.ComponentsAfter > isolated.ComponentsBefore
                  <=> \E x, y \in N \ {s} : x # y /\ <<x, y>> \in before \ after
             /\ isolated.ComponentsAfter < isolated.ComponentsBefore
                  <=> \A n \in N \ {s} : <<s, n>> \notin before
<1> DEFINE N1 == N \ {s}
           I == Inside(E, N)
           I1 == Inside(E, N1)
           U == Undirected(I)
           U1 == Undirected(I1)
           G(n) == Group(U, n)
           G1(n) == Group(U1, n)
           G0 == G(s)
           Old == Groups(U, N)
           New == Groups(U1, N1)
           K == {G1(n) : n \in G0 \ {s}}
           E1 == {e \in E : s \notin {e[1], e[2]}}
<1>1. Inside(E1, N1) = I1 /\ E1 \in Graphs
  <2>1. E1 \in Graphs
    BY DEF Graphs
  <2>2. QED
    BY <2>1 DEF Inside
<1>2. /\ Isolate(E, N, s).ComponentsBefore = Cardinality(Old)
      /\ Isolate(E, N, s).ComponentsAfter = Cardinality(New)
  <2>1. ComponentsWith(E, N) = Cardinality(Old)
    BY InsideGraph
  <2> HIDE DEF E1, N1, I1
  <2>2. ComponentsWith(E1, N1) = Cardinality(Groups(Undirected(Inside(E1, N1)), N1))
    BY <1>1, InsideGraph
  <2>3. Isolate(E, N, s).ComponentsBefore = ComponentsWith(E, N)
    BY DEF Isolate
  <2>4. Isolate(E, N, s).ComponentsAfter = ComponentsWith(E1, N1)
    BY DEF Isolate, E1, N1
  <2> HIDE DEF Old
  <2>5. QED
    BY <1>1, <2>1, <2>2, <2>3, <2>4
<1>3. I \in Graphs /\ I1 \in Graphs /\ U \in Graphs /\ U1 \in Graphs
  BY InsideGraph, UndirectedGraph
<1>4. \A a, b : <<a, b>> \in U1 <=> <<a, b>> \in U /\ a \in N1 /\ b \in N1
  <2>1. \A a, b : <<a, b>> \in I <=> <<a, b>> \in E /\ a \in N /\ b \in N
    BY DEF Inside
  <2>2. \A a, b : <<a, b>> \in I1 <=> <<a, b>> \in E /\ a \in N1 /\ b \in N1
    BY DEF Inside
  <2>3. \A a, b : <<a, b>> \in U <=> <<a, b>> \in I \/ <<b, a>> \in I
    BY <1>3, UndirectedGraph
  <2>4. \A a, b : <<a, b>> \in U1 <=> <<a, b>> \in I1 \/ <<b, a>> \in I1
    BY <1>3, UndirectedGraph
  <2> HIDE DEF I, I1, U, U1
  <2>5. QED
    BY <2>1, <2>2, <2>3, <2>4
<1>5. Linked(U1) \subseteq Linked(U)
  <2>1. U1 \subseteq U
    <3> HIDE DEF U, U1
    <3>1. QED
      BY <1>3, <1>4, PairOfNames
  <2> HIDE DEF U, U1
  <2>2. QED
    BY <1>3, <2>1, LinkedMonotone
<1>6. \A a, b \in Names : /\ G(a) \subseteq Names /\ a \in G(a)
                          /\ b \in G(a) <=> a \in G(b)
                          /\ b \in G(a) => G(a) = G(b)
                          /\ b \notin G(a) => G(a) \cap G(b) = {}
  BY <1>3, GroupsApart
<1>7. \A a, b \in Names : /\ G1(a) \subseteq Names /\ a \in G1(a)
                          /\ b \in G1(a) <=> a \in G1(b)
                          /\ b \in G1(a) => G1(a) = G1(b)
                          /\ b \notin G1(a) => G1(a) \cap G1(b) = {}
  BY <1>3, GroupsApart
<1>8. \A a, b \in Names : /\ b \in G(a) <=> b = a \/ <<a, b>> \in Linked(U)
                          /\ b \in G1(a) <=> b = a \/ <<a, b>> \in Linked(U1)
  BY DEF Group
<1>9. \A n \in N : G(n) \subseteq N
  <2>1. Nodes(U) \subseteq N
    BY InsideGraph
  <2> HIDE DEF U
  <2>2. ASSUME NEW n \in N, NEW m \in G(n) PROVE m \in N
    <3>1. CASE m = n
      BY <3>1
    <3>2. CASE m # n
      <4>1. <<n, m>> \in Linked(U) /\ m \in Names /\ n \in Names
        BY <3>2 DEF Group
      <4>2. \E c \in Names : <<c, m>> \in U
        BY <1>3, <4>1, LinkedLast
      <4>3. m \in Nodes(U)
        BY <4>2 DEF Nodes
      <4>4. QED
        BY <2>1, <4>3
    <3>3. QED
      BY <3>1, <3>2
  <2>3. QED
    BY <2>2
<1>10. \A n \in Names : G1(n) \subseteq G(n)
  BY <1>5, <1>8, <1>6, <1>7
<1> HIDE DEF I, I1, U, U1, G, G1, E1
<1>11. ASSUME NEW n \in N \ G0 PROVE G1(n) = G(n) /\ n # s
  <2>1. n \in Names /\ s \in Names /\ s \notin G(n)
    BY <1>6
  <2>2. G(n) \subseteq G1(n)
    <3>1. ASSUME NEW a \in G1(n), NEW b, <<a, b>> \in U PROVE b \in G1(n)
      <4>1. a \in Names /\ b \in Names /\ a \in G(n)
        BY <1>3, <1>10, <2>1, <3>1, PairOfNames
      <4>2. <<a, b>> \in Linked(U)
        BY <1>3, <3>1, LinkedClosed
      <4>3. b \in G(a) /\ G(a) = G(n)
        BY <1>6, <1>8, <2>1, <4>1, <4>2
      <4>4. a \in N1 /\ b \in N1
        BY <1>9, <2>1, <4>1, <4>3
      <4>5. <<a, b>> \in U1
        BY <1>4, <3>1, <4>4
      <4>6. <<a, b>> \in Linked(U1)
        BY <1>3, <4>5, LinkedClosed
      <4>7. b \in G1(a) /\ G1(a) = G1(n)
        BY <1>7, <1>8, <2>1, <3>1, <4>1, <4>6
      <4>8. QED
        BY <4>7
    <3>2. Targets(U, G1(n)) \subseteq G1(n)
      BY <1>3, <3>1, TargetsOf
    <3>3. ASSUME NEW y \in Targets(U, {n}) PROVE y \in G1(n)
      <4>1. <<n, y>> \in U
        BY <1>3, <3>3, TargetsOfOne
      <4>2. QED
        BY <1>7, <2>1, <3>1, <4>1
    <3>4. Targets(U, {n}) \subseteq G1(n)
      BY <3>3
    <3>5. ASSUME NEW b \in Names, <<n, b>> \in Linked(U) PROVE b \in G1(n)
      BY <1>3, <2>1, <3>2, <3>4, <3>5, LinkedClosed
    <3>6. QED
      BY <1>6, <1>7, <1>8, <2>1, <3>5
  <2>3. G1(n) \subseteq G(n)
    BY <1>10, <2>1
  <2>4. n # s
    BY <1>6, <2>1
  <2>5. G1(n) = G(n)
    BY <2>2, <2>3
  <2>6. QED
    BY <2>4, <2>5
<1>12. G0 \subseteq N /\ s \in G0 /\ G0 \in Old
  BY <1>6, <1>9 DEF Groups, G
<1>13. New = (Old \ {G0}) \cup K
  <2>1. Old = {G(n) : n \in N} /\ New = {G1(n) : n \in N1}
    BY DEF Groups, G, G1
  <2> HIDE DEF Old, New
  <2>2. ASSUME NEW X \in New PROVE X \in (Old \ {G0}) \cup K
    <3>1. PICK n \in N1 : X = G1(n)
      BY <2>1
    <3>2. CASE n \in G0
      BY <3>1, <3>2
    <3>3. CASE n \notin G0
      <4>1. X = G(n) /\ n \in G(n)
        BY <1>6, <1>11, <3>1, <3>3
      <4>2. G(n) # G0
        BY <3>3, <4>1
      <4>3. G(n) \in Old
        BY <2>1
      <4>4. QED
        BY <4>1, <4>2, <4>3
    <3>4. QED
      BY <3>2, <3>3
  <2>3. ASSUME NEW X \in Old \ {G0} PROVE X \in New
    <3>1. PICK n \in N : X = G(n)
      BY <2>1
    <3>2. n \notin G0
      <4>1. n \in G(s) => G(s) = G(n)
        BY <1>6
      <4>2. QED
        BY <2>3, <3>1, <4>1
    <3>3. G1(n) = X /\ n \in N1
      BY <1>11, <3>1, <3>2
    <3>4. QED
      BY <2>1, <3>3
  <2>4. ASSUME NEW X \in K PROVE X \in New
    <3>1. PICK n \in G0 \ {s} : X = G1(n)
      OBVIOUS
    <3>2. n \in N1
      BY <1>12
    <3>3. QED
      BY <2>1, <3>1, <3>2
  <2>5. QED
    BY <2>2, <2>3, <2>4
<1>14. (Old \ {G0}) \cap K = {}
  <2>1. ASSUME NEW X \in K, X \in Old, X # G0 PROVE FALSE
    <3>1. PICK n \in G0 \ {s} : X = G1(n)
      OBVIOUS
    <3>2. PICK m \in N : X = G(m)
      BY <2>1 DEF Groups, G
    <3>3. n \in Names /\ m \in Names /\ s \in Names
      BY <1>12
    <3>4. n \in G(m) /\ n \in G(s)
      <4>1. n \in G1(n) /\ G1(n) = G(m)
        BY <1>7, <3>1, <3>2, <3>3
      <4>2. n \in G0
        BY <3>1
      <4>3. QED
        BY <4>1, <4>2
    <3>5. G(m) = G(s)
      BY <1>6, <3>3, <3>4
    <3>6. QED
      BY <2>1, <3>2, <3>5
  <2>2. QED
    BY <2>1
<1>15. IsFiniteSet(N) /\ IsFiniteSet(G0)
  BY <1>12, NamesFinite, FS_Subset
<1>16. IsFiniteSet(Old) /\ IsFiniteSet(K)
  <2>1. IsFiniteSet(SUBSET Names)
    BY NamesFinite, FS_SUBSET
  <2>2. Old \subseteq SUBSET Names
    BY <1>6 DEF Groups, G
  <2>3. K \subseteq SUBSET Names
    BY <1>7, <1>12
  <2>4. QED
    BY <2>1, <2>2, <2>3, FS_Subset
<1> HIDE DEF Old, New, K, G0
<1>17. /\ Cardinality(New) = Cardinality(Old) - 1 + Cardinality(K)
       /\ Cardinality(Old) \in Nat /\ Cardinality(K) \in Nat
  <2>1. /\ IsFiniteSet(Old \ {G0}) /\ Cardinality(Old \ {G0}) = Cardinality(Old) - 1
        /\ Cardinality(Old \ {G0}) \in Nat
    BY <1>12, <1>16, FS_RemoveElement, FS_CardinalityType
  <2> DEFINE O1 == Old \ {G0}
  <2> HIDE DEF O1
  <2>2. Cardinality(O1 \cup K) = Cardinality(O1) + Cardinality(K) - Cardinality(O1 \cap K)
    BY <1>16, <2>1, FS_Union DEF O1
  <2>3. Cardinality(O1 \cap K) = 0
    BY <1>14, FS_EmptySet DEF O1
  <2>4. Cardinality(K) \in Nat /\ Cardinality(Old) \in Nat
    BY <1>16, FS_CardinalityType
  <2>5. QED
    BY <1>13, <2>1, <2>2, <2>3, <2>4 DEF O1
<1>18. Cardinality(New) < Cardinality(Old) <=> \A n \in N1 : <<s, n>> \notin Linked(U)
  <2>1. Cardinality(K) = 0 <=> K = {}
    BY <1>16, FS_EmptySet
  <2>2. K = {} <=> G0 \subseteq {s}
    BY DEF K
  <2>3. G0 \subseteq {s} <=> \A n \in N1 : <<s, n>> \notin Linked(U)
    BY <1>8, <1>12 DEF G0
  <2>4. QED
    BY <1>17, <2>1, <2>2, <2>3
<1>19. Cardinality(New) > Cardinality(Old)
         <=> \E x, y \in N1 : x # y /\ <<x, y>> \in Linked(U) \ Linked(U1)
  <2>1. Cardinality(New) > Cardinality(Old) <=> Cardinality(K) > 1
    BY <1>17
  <2>2. Cardinality(K) > 1 <=> \E X, Y \in K : X # Y
    <3>1. ASSUME NEW X \in K, NEW Y \in K, X # Y PROVE Cardinality(K) > 1
      <4>1. Cardinality(K \ {X}) = Cardinality(K) - 1 /\ IsFiniteSet(K \ {X})
        BY <1>16, FS_RemoveElement
      <4>2. Y \in K \ {X}
        BY <3>1
      <4>3. Cardinality(K \ {X}) # 0 /\ Cardinality(K \ {X}) \in Nat
        BY <4>1, <4>2, FS_EmptySet, FS_CardinalityType
      <4>4. QED
        BY <1>17, <4>1, <4>3
    <3>2. ASSUME \A X, Y \in K : X = Y PROVE ~(Cardinality(K) > 1)
      <4>1. CASE K = {}
        BY <4>1, FS_EmptySet
      <4>2. CASE K # {}
        <5>1. PICK X \in K : TRUE
          BY <4>2
        <5>2. K \ {X} = {}
          BY <3>2, <5>1
        <5>3. Cardinality(K \ {X}) = Cardinality(K) - 1
          BY <1>16, <5>1, FS_RemoveElement
        <5>4. Cardinality(K \ {X}) = 0
          BY <5>2, FS_EmptySet
        <5>5. QED
          BY <1>17, <5>3, <5>4
      <4>3. QED
        BY <4>1, <4>2
    <3>3. QED
      BY <3>1, <3>2
  <2>3. ASSUME NEW X \in K, NEW Y \in K, X # Y
        PROVE  \E x, y \in N1 : x # y /\ <<x, y>> \in Linked(U) \ Linked(U1)
    <3>1. PICK x \in G0 \ {s}, y \in G0 \ {s} : X = G1(x) /\ Y = G1(y)
      BY DEF K
    <3>2. x \in N1 /\ y \in N1 /\ x # y /\ x \in Names /\ y \in Names /\ s \in Names
      BY <1>12, <2>3, <3>1
    <3>3. y \notin G1(x)
      BY <1>7, <2>3, <3>1, <3>2
    <3>4. <<x, y>> \notin Linked(U1)
      BY <1>8, <3>2, <3>3
    <3>5. y \in G(x)
      BY <1>6, <3>1, <3>2 DEF G0
    <3>6. <<x, y>> \in Linked(U)
      BY <1>8, <3>2, <3>5
    <3>7. QED
      BY <3>2, <3>4, <3>6
  <2>4. ASSUME NEW x \in N1, NEW y \in N1, x # y, <<x, y>> \in Linked(U) \ Linked(U1)
        PROVE  \E X, Y \in K : X # Y
    <3>1. x \in Names /\ y \in Names /\ s \in Names
      OBVIOUS
    <3>2. y \in G(x) /\ y \notin G1(x)
      BY <1>8, <2>4, <3>1
    <3>3. x \in G0
      BY <1>11, <3>2
    <3>4. y \in G0
      BY <1>6, <3>1, <3>2, <3>3 DEF G0
    <3>5. G1(x) # G1(y)
      BY <1>7, <3>1, <3>2
    <3>6. G1(x) \in K /\ G1(y) \in K
      BY <3>3, <3>4 DEF K
    <3>7. QED
      BY <3>5, <3>6
  <2>5. QED
    BY <2>1, <2>2, <2>3, <2>4
<1>20. QED
  BY <1>2, <1>18, <1>19 DEF U, U1, I, I1

(* Part of CallsFollowed: isolating a symbol parts what only it joins.       *)
LEMMA IsolatePartsWell ==
  ASSUME edges \in Graphs
  PROVE  IsolateParts
<1>1. Symbols \subseteq Names
  BY NamesFinite DEF Symbols
<1>2. \A N \in {S \in {Names, Symbols} : 1 \in S} : N \in SUBSET Names /\ 1 \in N
  BY <1>1
<1>3. QED
  BY <1>2, IsolateSplits DEF IsolateParts

(* The search without a filter finds a group where the links go both ways.   *)
LEMMA BfsAllGroup ==
  ASSUME NEW E \in Graphs, NEW start
  PROVE  /\ BfsAll(E, start) = Group(E, start)
         /\ Linked(E) \in Graphs
  BY BfsAllReaches, LinkedClosed DEF Group

(* Part of CallsFollowed: islands are what no entry point leads to.          *)
LEMMA IslandsUnreachedWell ==
  ASSUME edges \in Graphs
  PROVE  IslandsUnreached
<1> DEFINE r == FindIslands(SymbolEdges, Symbols, {}, Calls, Exported)
           entries == DetectEntryPoints(Symbols, Calls, Exported)
<1>1. SymbolEdges \in Graphs /\ Calls \in Graphs /\ Calls \subseteq SymbolEdges /\ Symbols \subseteq Names
  BY ImportsGraph, NamesFinite DEF Calls, Symbols
<1>2. r.EntryPoints = entries /\ r.Unreachable = Symbols \ ReachableFrom(SymbolEdges, entries)
  BY DEF FindIslands
<1>3. ASSUME NEW n \in Names
      PROVE  n \in ReachableFrom(SymbolEdges, entries)
               <=> n \in entries \/ \E s \in entries : <<s, n>> \in Linked(SymbolEdges)
  <2>1. n \in ReachableFrom(SymbolEdges, entries) <=> \E s \in entries : n \in BfsAll(SymbolEdges, s)
    BY DEF ReachableFrom
  <2>2. \A s : n \in BfsAll(SymbolEdges, s) <=> n = s \/ <<s, n>> \in Linked(SymbolEdges)
    BY <1>1, BfsAllGroup DEF Group
  <2>3. QED
    BY <2>1, <2>2
<1>4. r.Unreachable = {n \in Symbols \ r.EntryPoints :
                         \A s \in r.EntryPoints : <<s, n>> \notin Linked(SymbolEdges)}
  <2> HIDE DEF entries, r
  <2>1. QED
    BY <1>1, <1>2, <1>3
<1>5. ASSUME NEW n \in r.Unreachable \cap Exported, FanOut(Calls, n) > 0
      PROVE  \E c \in r.Unreachable : <<c, n>> \in Calls
  <2>1. n \in Symbols /\ n \notin entries /\ \A s \in entries : <<s, n>> \notin Linked(SymbolEdges)
    BY <1>2, <1>4, <1>5
  <2>2. FanIn(Calls, n) # 0
    BY <1>5, <2>1 DEF DetectEntryPoints
  <2>3. \E e \in Calls : e[2] = n
    <3>1. {e \in Calls : e[2] = n} # {}
      BY <2>2, FS_EmptySet DEF FanIn
    <3>2. QED
      BY <3>1
  <2>4. PICK e \in Calls : e[2] = n
    BY <2>3
  <2> DEFINE c == e[1]
  <2>5. e = <<c, n>> /\ c \in Names /\ n \in Names
    BY <1>1, <2>4, PairOfNames
  <2>6. c \in Symbols
    BY <2>4 DEF Calls, SymbolEdges
  <2>7. <<c, n>> \in SymbolEdges
    BY <1>1, <2>4, <2>5
  <2> HIDE DEF c, entries, r
  <2>8. <<c, n>> \in Linked(SymbolEdges)
    BY <1>1, <2>7, LinkedClosed
  <2>9. c \notin entries
    BY <2>1, <2>8
  <2>10. ASSUME NEW s \in entries, <<s, c>> \in Linked(SymbolEdges) PROVE FALSE
    <3>1. s \in Names
      BY <1>1, <2>10, LinkedClosed DEF Graphs
    <3>2. <<s, n>> \in Linked(SymbolEdges)
      BY <1>1, <2>5, <2>7, <2>10, <3>1, LinkedClosed
    <3>3. QED
      BY <2>1, <3>2
  <2>11. c \in r.Unreachable
    BY <1>2, <1>4, <2>6, <2>9, <2>10
  <2>12. QED
    BY <2>4, <2>5, <2>11
<1>6. QED
  BY <1>4, <1>5 DEF IslandsUnreached

(* Part of CallsFollowed: symbols shared are those at least two of the       *)
(* given lead to.                                                            *)
LEMMA ConvergenceSharedWell ==
  ASSUME edges \in Graphs
  PROVE  ConvergenceShared
<1> DEFINE given == <<1, 2, 3>>
           Leading(n) == {s \in Range(given) \ {n} : <<s, n>> \in Linked(edges)}
           Conv(n) == Cardinality(Leading(n))
           shared == {n \in Nodes(edges) : Conv(n) >= 2}
           Before1(n) == {m \in shared : \/ Conv(m) > Conv(n)
                                         \/ Conv(m) = Conv(n) /\ m < n}
<1>1. Range(given) = {1, 2, 3} /\ DOMAIN given = {1, 2, 3} /\ \A i \in DOMAIN given : given[i] = i
  BY DEF Range
<1>2. ASSUME NEW n PROVE Sources(edges, given, n) = Leading(n)
  <2>1. \A i : n \in BfsAll(edges, i) <=> n = i \/ (n \in Names /\ <<i, n>> \in Linked(edges))
    BY BfsAllGroup DEF Group
  <2>2. \A i : <<i, n>> \in Linked(edges) => n \in Names
    BY LinkedClosed DEF Graphs
  <2> HIDE DEF given
  <2>3. QED
    BY <1>1, <2>1, <2>2 DEF Sources
<1>3. \A n : IsFiniteSet(Leading(n)) /\ Conv(n) \in Nat
  <2>1. \A n : Leading(n) \in SUBSET Names
    BY LinkedClosed DEF Graphs
  <2> HIDE DEF Leading
  <2>2. QED
    BY <2>1, NamesFinite, FS_Subset, FS_CardinalityType
<1>4. ASSUME NEW n, n \notin Nodes(edges) PROVE Conv(n) = 0
  <2>1. ASSUME NEW s, <<s, n>> \in Linked(edges) PROVE FALSE
    <3>1. s \in Names /\ n \in Names
      BY <2>1, LinkedClosed DEF Graphs
    <3>2. \E c \in Names : <<c, n>> \in edges
      BY <2>1, <3>1, LinkedLast
    <3>3. QED
      BY <1>4, <3>2 DEF Nodes
  <2>2. Leading(n) = {}
    BY <2>1
  <2>3. QED
    BY <2>2, FS_EmptySet
<1>5. /\ FindConvergence(edges, given, 0).Nodes = shared
      /\ FindConvergence(edges, given, 1).Nodes = {n \in shared : Cardinality(Before1(n)) < 1}
  <2>1. \A n : Cardinality(Sources(edges, given, n)) = Conv(n)
    BY <1>2
  <2> HIDE DEF Conv, given
  <2>2. QED
    BY <2>1 DEF FindConvergence
<1>6. Nodes(edges) \subseteq Names /\ IsFiniteSet(Nodes(edges))
  BY GraphFinite
<1>7. shared = {n \in Names : Conv(n) >= 2}
  <2> HIDE DEF Conv
  <2>1. QED
    BY <1>4, <1>6
<1>8. ASSUME NEW b \in Targets(edges, shared), b \notin Range(given) PROVE b \in shared
  <2>1. PICK a \in shared : <<a, b>> \in edges
    BY <1>8, TargetsOf
  <2>2. a \in Names /\ b \in Names
    BY <2>1, PairOfNames
  <2>3. ASSUME NEW s \in Leading(a) PROVE s \in Leading(b)
    <3>1. s \in Range(given) /\ <<s, a>> \in Linked(edges)
      BY <2>3
    <3>2. s \in Names
      BY <3>1, LinkedClosed DEF Graphs
    <3>3. <<s, b>> \in Linked(edges)
      BY <2>1, <2>2, <3>1, <3>2, LinkedClosed
    <3>4. QED
      BY <1>8, <3>1, <3>3
  <2>4. Conv(a) <= Conv(b)
    <3>1. Leading(a) \in SUBSET Leading(b)
      BY <2>3
    <3> HIDE DEF Leading
    <3>2. QED
      BY <1>3, <3>1, FS_Subset
  <2>5. Conv(a) >= 2 /\ Conv(a) \in Nat /\ Conv(b) \in Nat
    BY <1>3
  <2> HIDE DEF Conv
  <2>6. QED
    BY <1>7, <2>2, <2>4, <2>5
<1>9. ASSUME NEW top \in FindConvergence(edges, given, 1).Nodes, NEW n \in Names
      PROVE  Conv(n) <= Conv(top)
  <2>1. top \in shared /\ Cardinality(Before1(top)) < 1
    BY <1>5, <1>9
  <2>2. Before1(top) \in SUBSET Nodes(edges)
    OBVIOUS
  <2>3. IsFiniteSet(Before1(top))
    BY <1>6, <2>2, FS_Subset
  <2>4. Before1(top) = {}
    <3> DEFINE B == Before1(top)
    <3> HIDE DEF B
    <3>1. B = {}
      BY <2>1, <2>3, FS_EmptySet, FS_CardinalityType DEF B
    <3>2. QED
      BY <3>1 DEF B
  <2>5. \A m : Conv(m) \in Nat
    BY <1>3
  <2> HIDE DEF Conv
  <2>6. CASE n \in shared
    BY <2>4, <2>5, <2>6
  <2>7. CASE n \notin shared
    BY <1>7, <2>1, <2>5, <2>7
  <2>8. QED
    BY <2>6, <2>7
<1>10. FindConvergence(edges, given, 0).Nodes = {n \in Names : Conv(n) >= 2}
  BY <1>5, <1>7
<1>11. Targets(edges, shared) \subseteq shared \cup Range(given)
  BY <1>8
<1> HIDE DEF shared
<1>12. Targets(edges, FindConvergence(edges, given, 0).Nodes)
         \subseteq FindConvergence(edges, given, 0).Nodes \cup Range(given)
  BY <1>5, <1>11
<1>13. QED
  BY <1>9, <1>10, <1>12 DEF ConvergenceShared

------------------------------------------------------------------------------
(* Distances.                                                                *)

(* A walk can also be made from its first edge.                              *)
LEMMA WalkFirst ==
  ASSUME NEW E \in Graphs, NEW k \in Nat
  PROVE  \A a, b \in Names :
           <<a, b>> \in Walks(E, k + 1) <=> \E c \in Names : <<a, c>> \in E /\ <<c, b>> \in Walks(E, k)
<1> DEFINE S == {j \in Nat : \A a, b \in Names :
                   <<a, b>> \in Walks(E, j + 1) <=> \E c \in Names : <<a, c>> \in E /\ <<c, b>> \in Walks(E, j)}
<1>0. \A a, b \in Names : <<a, b>> \in Walks(E, 0) <=> a = b
  <2>1. Walks(E, 0) = {<<m, m>> : m \in Names}
    BY WalkRounds
  <2>2. QED
    BY <2>1
<1>1. 0 \in S
  <2>1. \A a, b \in Names : <<a, b>> \in Walks(E, 0 + 1) <=> \E c \in Names : <<a, c>> \in Walks(E, 0) /\ <<c, b>> \in E
    BY WalkRounds
  <2>2. QED
    BY <1>0, <2>1
<1>2. ASSUME NEW j \in Nat, j \in S PROVE j + 1 \in S
  <2>1. ASSUME NEW a \in Names, NEW b \in Names
        PROVE  <<a, b>> \in Walks(E, (j + 1) + 1)
                 <=> \E c \in Names : <<a, c>> \in E /\ <<c, b>> \in Walks(E, j + 1)
    <3>1. \A x, y \in Names : <<x, y>> \in Walks(E, j + 1) <=> \E c \in Names : <<x, c>> \in Walks(E, j) /\ <<c, y>> \in E
      BY WalkRounds
    <3>2. j + 1 \in Nat
      OBVIOUS
    <3>3. \A x, y \in Names : <<x, y>> \in Walks(E, (j + 1) + 1) <=> \E c \in Names : <<x, c>> \in Walks(E, j + 1) /\ <<c, y>> \in E
      BY <3>2, WalkRounds
    <3>4. \A x, y \in Names : <<x, y>> \in Walks(E, j + 1) <=> \E c \in Names : <<x, c>> \in E /\ <<c, y>> \in Walks(E, j)
      BY <1>2
    <3>5. <<a, b>> \in Walks(E, (j + 1) + 1)
            <=> \E c, d \in Names : <<a, d>> \in E /\ <<d, c>> \in Walks(E, j) /\ <<c, b>> \in E
      BY <3>3, <3>4
    <3>6. (\E c \in Names : <<a, c>> \in E /\ <<c, b>> \in Walks(E, j + 1))
            <=> \E c, d \in Names : <<a, d>> \in E /\ <<d, c>> \in Walks(E, j) /\ <<c, b>> \in E
      BY <3>1
    <3>7. QED
      BY <3>5, <3>6
  <2>2. j + 1 \in Nat
    OBVIOUS
  <2>3. QED
    BY <2>1, <2>2
<1> HIDE DEF S
<1>3. Nat \subseteq S
  BY <1>1, <1>2, Induction
<1>4. k \in S
  BY <1>3
<1>5. QED
  BY <1>4 DEF S

(* A walk without an edge stays where it is.                                 *)
LEMMA WalkZero ==
  ASSUME NEW E \in Graphs
  PROVE  \A a, b \in Names : <<a, b>> \in Walks(E, 0) <=> a = b
<1>1. Walks(E, 0) = {<<m, m>> : m \in Names}
  BY WalkRounds
<1>2. QED
  BY <1>1

(* Walks of a length of the reversed graph.                                  *)
LEMMA WalksReversed ==
  ASSUME NEW E \in Graphs, NEW k \in Nat, NEW a \in Names, NEW b \in Names
  PROVE  <<a, b>> \in Walks(Reversed(E), k) <=> <<b, a>> \in Walks(E, k)
<1> DEFINE F == Reversed(E)
           S == {j \in Nat : \A x, y \in Names : <<x, y>> \in Walks(F, j) <=> <<y, x>> \in Walks(E, j)}
<1>1. F \in Graphs /\ \A x, y : <<x, y>> \in F <=> <<y, x>> \in E
  BY ReversedGraph
<1> HIDE DEF F
<1>2. 0 \in S
  BY <1>1, WalkZero
<1>3. ASSUME NEW j \in Nat, j \in S PROVE j + 1 \in S
  <2>1. \A x, y \in Names : <<x, y>> \in Walks(F, j) <=> <<y, x>> \in Walks(E, j)
    BY <1>3
  <2>2. \A x, y \in Names : <<x, y>> \in Walks(F, j + 1) <=> \E c \in Names : <<x, c>> \in Walks(F, j) /\ <<c, y>> \in F
    BY <1>1, WalkRounds
  <2>3. \A x, y \in Names : <<y, x>> \in Walks(E, j + 1) <=> \E c \in Names : <<y, c>> \in E /\ <<c, x>> \in Walks(E, j)
    BY WalkFirst
  <2>4. \A x, y \in Names : <<x, y>> \in Walks(F, j + 1) <=> <<y, x>> \in Walks(E, j + 1)
    BY <1>1, <2>1, <2>2, <2>3
  <2>5. QED
    BY <2>4
<1> HIDE DEF S
<1>4. Nat \subseteq S
  BY <1>2, <1>3, Induction
<1>5. k \in S
  BY <1>4
<1>6. QED
  BY <1>5 DEF S, F

(* A walk of at least one edge links its ends, however long.                 *)
LEMMA WalkLinked ==
  ASSUME NEW E \in Graphs, NEW a \in Names, NEW b \in Names, NEW k \in Nat \ {0}, <<a, b>> \in Walks(E, k)
  PROVE  <<a, b>> \in Linked(E)
<1> DEFINE S == {j \in Nat : \A y \in Names : <<a, y>> \in Walks(E, j + 1) => <<a, y>> \in Linked(E)}
<1>1. \A j \in Nat, y \in Names : <<a, y>> \in Walks(E, j + 1) <=> \E c \in Names : <<a, c>> \in Walks(E, j) /\ <<c, y>> \in E
  BY WalkRounds
<1>2. 0 \in S
  <2>1. \A y \in Names : <<a, y>> \in Walks(E, 0 + 1) <=> \E c \in Names : <<a, c>> \in Walks(E, 0) /\ <<c, y>> \in E
    BY <1>1
  <2>2. \A y \in Names : <<a, y>> \in Walks(E, 0 + 1) => <<a, y>> \in E
    BY <2>1, WalkZero
  <2>3. E \subseteq Linked(E)
    BY LinkedClosed
  <2>4. QED
    BY <2>2, <2>3
<1>3. ASSUME NEW j \in Nat, j \in S PROVE j + 1 \in S
  <2>1. j + 1 \in Nat
    OBVIOUS
  <2>2. ASSUME NEW y \in Names, <<a, y>> \in Walks(E, (j + 1) + 1) PROVE <<a, y>> \in Linked(E)
    <3>1. PICK c \in Names : <<a, c>> \in Walks(E, j + 1) /\ <<c, y>> \in E
      BY <1>1, <2>1, <2>2
    <3>2. <<a, c>> \in Linked(E)
      BY <1>3, <3>1
    <3>3. QED
      BY <3>1, <3>2, LinkedClosed
  <2>3. QED
    BY <2>1, <2>2
<1> HIDE DEF S
<1>4. Nat \subseteq S
  BY <1>2, <1>3, Induction
<1>5. k - 1 \in Nat /\ (k - 1) + 1 = k
  OBVIOUS
<1>6. k - 1 \in S
  BY <1>4, <1>5
<1>7. \A y \in Names : <<a, y>> \in Walks(E, (k - 1) + 1) => <<a, y>> \in Linked(E)
  BY <1>6 DEF S
<1>8. QED
  BY <1>5, <1>7

(* Nodes at exactly some distance.                                           *)
At(E, start, n, d) == <<start, n>> \in Walks(E, d) /\ \A j \in 0..(d - 1) : <<start, n>> \notin Walks(E, j)

(* The distance of a node is its number of steps.                            *)
LEMMA AtSteps ==
  ASSUME NEW E \in Graphs, NEW a \in Names, NEW b \in Names, NEW d \in Nat, At(E, a, b, d)
  PROVE  Steps(E, a, b) = d
<1> DEFINE S == {k \in 0..Size : <<a, b>> \in Walks(E, k)}
<1>1. d \in S
  <2>1. CASE d = 0
    BY <2>1, NamesFinite DEF At
  <2>2. CASE d # 0
    <3>1. <<a, b>> \in Linked(E)
      BY <2>2, WalkLinked DEF At
    <3>2. PICK j \in 1..Size : <<a, b>> \in Walks(E, j)
      BY <3>1 DEF Linked
    <3>3. j \notin 0..(d - 1)
      BY <3>2 DEF At
    <3>4. d <= j /\ Size \in Nat
      BY <3>3, NamesFinite
    <3>5. QED
      BY <3>4 DEF At
  <2>3. QED
    BY <2>1, <2>2
<1>2. \A k \in S : d <= k
  BY DEF At
<1>3. S \in SUBSET Int
  OBVIOUS
<1> HIDE DEF S
<1>4. Min(S) = d
  BY <1>1, <1>2, <1>3, MinIs
<1>5. QED
  BY <1>4 DEF S, Steps

(* A node a walk leads to is at a distance, no longer than the walk.         *)
LEMMA WalkAt ==
  ASSUME NEW E \in Graphs, NEW a \in Names, NEW b \in Names, NEW k \in Nat, <<a, b>> \in Walks(E, k)
  PROVE  \E d \in 0..k : At(E, a, b, d)
<1> DEFINE S == {j \in Nat : <<a, b>> \in Walks(E, j)}
<1>1. PICK d \in S : \A j \in S : d <= j
  <2>1. k \in S
    OBVIOUS
  <2> HIDE DEF S
  <2>2. S \in SUBSET Nat
    BY DEF S
  <2>3. QED
    BY <2>1, <2>2, LeastOf
<1>2. d <= k /\ d \in 0..k
  BY <1>1
<1>3. At(E, a, b, d)
  BY <1>1 DEF At
<1>4. QED
  BY <1>2, <1>3

(* A node farther by one is called by one at the distance before, and not    *)
(* met sooner.                                                               *)
LEMMA AtBefore ==
  ASSUME NEW E \in Graphs, NEW a \in Names, NEW b \in Names, NEW d \in Nat
  PROVE  At(E, a, b, d + 1) <=>
           /\ \E c \in Names : At(E, a, c, d) /\ <<c, b>> \in E
           /\ \A j \in 0..d : <<a, b>> \notin Walks(E, j)
<1>1. \A j \in Nat, y \in Names : <<a, y>> \in Walks(E, j + 1) <=> \E c \in Names : <<a, c>> \in Walks(E, j) /\ <<c, y>> \in E
  BY WalkRounds
<1>2. ASSUME At(E, a, b, d + 1) PROVE \E c \in Names : At(E, a, c, d) /\ <<c, b>> \in E
  <2>1. PICK c \in Names : <<a, c>> \in Walks(E, d) /\ <<c, b>> \in E
    BY <1>1, <1>2 DEF At
  <2>2. ASSUME NEW j \in 0..(d - 1), <<a, c>> \in Walks(E, j) PROVE FALSE
    <3>1. j \in Nat /\ j + 1 \in 0..d
      OBVIOUS
    <3>2. <<a, b>> \in Walks(E, j + 1)
      BY <1>1, <2>1, <2>2, <3>1
    <3>3. QED
      BY <1>2, <3>1, <3>2 DEF At
  <2>3. QED
    BY <2>1, <2>2 DEF At
<1>3. At(E, a, b, d + 1) => \A j \in 0..d : <<a, b>> \notin Walks(E, j)
  BY DEF At
<1>4. ASSUME NEW c \in Names, At(E, a, c, d), <<c, b>> \in E, \A j \in 0..d : <<a, b>> \notin Walks(E, j)
      PROVE  At(E, a, b, d + 1)
  <2>1. <<a, b>> \in Walks(E, d + 1)
    BY <1>1, <1>4 DEF At
  <2>2. (d + 1) - 1 = d
    OBVIOUS
  <2>3. QED
    BY <1>4, <2>1, <2>2 DEF At
<1>5. QED
  BY <1>2, <1>3, <1>4

(* The same where a round knows its number.                                  *)
Numbered(f, base, step) == f = [k \in Nat |-> IF k = 0 THEN base ELSE step[<<k, f[k - 1]>>]]

(* A recursion that reads the number of its round.                           *)
LEMMA NumberedRounds ==
  ASSUME NEW D, NEW base \in D, NEW step \in [Nat \X D -> D]
  PROVE  \E f \in [Nat -> D] : Numbered(f, base, step)
<1> DEFINE D2 == Nat \X D
           base2 == <<0, base>>
           step2 == [p \in D2 |-> <<p[1] + 1, step[<<p[1] + 1, p[2]>>]>>]
<1>1. base2 \in D2 /\ step2 \in [D2 -> D2]
  <2>1. \A p \in D2 : p[1] + 1 \in Nat /\ step[<<p[1] + 1, p[2]>>] \in D
    OBVIOUS
  <2>2. QED
    BY <2>1
<1> HIDE DEF base2, step2, D2
<1>2. PICK g \in [Nat -> D2] : Iterates(g, base2, step2)
  BY <1>1, Rounds
<1> USE DEF D2, Iterates
<1>3. g[0] = base2
  BY <1>2
<1>4. \A k \in Nat : g[k] \in D2
  BY <1>2
<1>5. ASSUME NEW k \in Nat PROVE g[k + 1] = <<g[k][1] + 1, step[<<g[k][1] + 1, g[k][2]>>]>>
  <2>1. k + 1 \in Nat /\ k + 1 # 0 /\ (k + 1) - 1 = k
    OBVIOUS
  <2>2. g[k + 1] = step2[g[k]]
    BY <1>2, <2>1
  <2>3. g[k] \in D2
    BY <1>4
  <2>4. QED
    BY <2>2, <2>3 DEF step2
<1> DEFINE S == {k \in Nat : g[k][1] = k}
<1>6. \A k \in Nat : g[k][1] = k
  <2>1. 0 \in S
    BY <1>3 DEF base2
  <2>2. ASSUME NEW k \in Nat, k \in S PROVE k + 1 \in S
    <3>1. g[k + 1] = <<g[k][1] + 1, step[<<g[k][1] + 1, g[k][2]>>]>>
      BY <1>5
    <3>2. g[k][1] = k
      BY <2>2
    <3> DEFINE t == step[<<g[k][1] + 1, g[k][2]>>]
    <3> HIDE DEF t
    <3>3. g[k + 1] = <<k + 1, t>>
      BY <3>1, <3>2 DEF t
    <3>4. QED
      BY <3>3
  <2> HIDE DEF S
  <2>3. Nat \subseteq S
    BY <2>1, <2>2, Induction
  <2>4. QED
    BY <2>3 DEF S
<1> DEFINE f == [k \in Nat |-> g[k][2]]
<1>7. f \in [Nat -> D]
  BY <1>4
<1>8. \A k \in Nat : f[k] = IF k = 0 THEN base ELSE step[<<k, f[k - 1]>>]
  <2>1. f[0] = base
    BY <1>3 DEF base2
  <2>2. ASSUME NEW k \in Nat, k # 0 PROVE f[k] = step[<<k, f[k - 1]>>]
    <3>1. k - 1 \in Nat /\ (k - 1) + 1 = k
      BY <2>2
    <3>2. g[(k - 1) + 1] = <<g[k - 1][1] + 1, step[<<g[k - 1][1] + 1, g[k - 1][2]>>]>>
      BY <1>5, <3>1
    <3>3. g[k] = <<k, step[<<k, g[k - 1][2]>>]>>
      BY <1>6, <3>1, <3>2
    <3>4. QED
      BY <3>1, <3>3
  <2>3. QED
    BY <2>1, <2>2
<1> HIDE DEF f
<1>9. f = [k \in Nat |-> IF k = 0 THEN base ELSE step[<<k, f[k - 1]>>]]
  <2>1. f = [k \in Nat |-> f[k]]
    BY <1>7
  <2>2. QED
    BY <1>8, <2>1
<1>10. QED
  BY <1>7, <1>9 DEF Numbered

(* The distances found in so many rounds.                                    *)
DirectedNext(E, start, d, v) ==
    LET frontier == IF d = 1 THEN {start} ELSE {n \in DOMAIN v : v[n] = d - 1}
        next == Targets(E, frontier) \ (DOMAIN v \cup {start})
    IN  [n \in DOMAIN v \cup next |-> IF n \in next THEN d ELSE v[n]]

(* The rounds of the search along the directed edges, as a function.         *)
DirectedVisited(E, start) ==
    CHOOSE visited : visited =
      [d \in Nat |->
          IF d = 0 THEN [n \in {} |-> 0]
          ELSE LET v == visited[d - 1]
                   frontier == IF d = 1 THEN {start} ELSE {n \in DOMAIN v : v[n] = d - 1}
                   next == Targets(E, frontier) \ (DOMAIN v \cup {start})
               IN  [n \in DOMAIN v \cup next |-> IF n \in next THEN d ELSE v[n]]]

(* DirectedDistances is the last of those rounds.                            *)
LEMMA DirectedRounds ==
  ASSUME NEW E \in Graphs, NEW start, NEW d \in Nat
  PROVE  /\ BfsDirected(E, start, 0) = [n \in {} |-> 0]
         /\ BfsDirected(E, start, d + 1) = DirectedNext(E, start, d + 1, BfsDirected(E, start, d))
<1> DEFINE D == UNION {[S -> Nat] : S \in SUBSET Names}
           base == [n \in {} |-> 0]
           step == [p \in Nat \X D |-> DirectedNext(E, start, p[1], p[2])]
           Is(f) == f = [k \in Nat |-> IF k = 0 THEN base ELSE DirectedNext(E, start, k, f[k - 1])]
           visited == DirectedVisited(E, start)
<1>1. base \in D
  <2>1. base \in [{} -> Nat] /\ {} \in SUBSET Names
    OBVIOUS
  <2> HIDE DEF base
  <2>2. QED
    BY <2>1
<1>2. ASSUME NEW k \in Nat, NEW v \in D PROVE DirectedNext(E, start, k, v) \in D
  <2> DEFINE frontier == IF k = 1 THEN {start} ELSE {n \in DOMAIN v : v[n] = k - 1}
             next == Targets(E, frontier) \ (DOMAIN v \cup {start})
  <2>1. PICK S \in SUBSET Names : v \in [S -> Nat]
    OBVIOUS
  <2>2. next \subseteq Names
    BY TargetsOf
  <2> HIDE DEF next
  <2>3. [n \in DOMAIN v \cup next |-> IF n \in next THEN k ELSE v[n]] \in [S \cup next -> Nat]
    BY <2>1
  <2>4. S \cup next \in SUBSET Names
    BY <2>1, <2>2
  <2> DEFINE w == [n \in DOMAIN v \cup next |-> IF n \in next THEN k ELSE v[n]]
  <2>5. DirectedNext(E, start, k, v) = w
    BY DEF DirectedNext, next
  <2> HIDE DEF w
  <2>6. w \in D
    BY <2>3, <2>4 DEF w
  <2>7. QED
    BY <2>5, <2>6
<1> HIDE DEF D, base
<1>3. \E f : Is(f)
  <2>1. step \in [Nat \X D -> D]
    BY <1>2
  <2> HIDE DEF step
  <2>2. PICK f \in [Nat -> D] : Numbered(f, base, step)
    BY <1>1, <2>1, NumberedRounds
  <2>3. \A k \in Nat : k # 0 => step[<<k, f[k - 1]>>] = DirectedNext(E, start, k, f[k - 1])
    <3>1. \A k \in Nat : k # 0 => <<k, f[k - 1]>> \in Nat \X D
      BY <2>2
    <3>2. QED
      BY <3>1 DEF step
  <2>4. Is(f)
    BY <2>2, <2>3 DEF Numbered
  <2>5. QED
    BY <2>4
<1>4. Is(visited)
  BY <1>3 DEF DirectedVisited, DirectedNext, base
<1>5. \A k : BfsDirected(E, start, k) = visited[k]
  BY DEF BfsDirected, DirectedVisited
<1> HIDE DEF visited
<1>6. visited[0] = base
  BY <1>4
<1>7. d + 1 \in Nat /\ d + 1 # 0 /\ (d + 1) - 1 = d
  OBVIOUS
<1>8. visited[d + 1] = DirectedNext(E, start, d + 1, visited[d])
  BY <1>4, <1>7
<1>9. QED
  BY <1>5, <1>6, <1>8 DEF base

(* What is reached in at most d edges, without the start.                    *)
Reached(E, start, d) == {m \in Names \ {start} : \E k \in 1..d : <<start, m>> \in Walks(E, k)}

(* DirectedDistances gives the least number of edges to what is reached.     *)
LEMMA DirectedDistances ==
  ASSUME NEW E \in Graphs, NEW start \in Names, NEW d \in Nat
  PROVE  BfsDirected(E, start, d) = [n \in Reached(E, start, d) |-> Steps(E, start, n)]
<1> DEFINE V(k) == [n \in Reached(E, start, k) |-> Steps(E, start, n)]
           S == {k \in Nat : BfsDirected(E, start, k) = V(k)}
<1>1. 0 \in S
  <2>1. Reached(E, start, 0) = {}
    BY DEF Reached
  <2>2. BfsDirected(E, start, 0) = [n \in {} |-> 0]
    BY DirectedRounds
  <2>3. V(0) = [n \in {} |-> 0]
    BY <2>1
  <2>4. QED
    BY <2>2, <2>3
<1>2. ASSUME NEW n \in Names, NEW k \in Nat PROVE n \in Reached(E, start, k) <=> \E j \in 1..k : At(E, start, n, j)
  <2>1. ASSUME NEW j \in 1..k, <<start, n>> \in Walks(E, j), n # start PROVE \E i \in 1..k : At(E, start, n, i)
    <3>1. j \in Nat
      OBVIOUS
    <3>2. PICK i \in 0..j : At(E, start, n, i)
      BY <2>1, <3>1, WalkAt
    <3>3. i # 0
      BY <2>1, <3>2, WalkZero DEF At
    <3>4. i \in 1..k
      BY <3>3
    <3>5. QED
      BY <3>2, <3>4
  <2>2. ASSUME NEW j \in 1..k, At(E, start, n, j) PROVE n # start /\ <<start, n>> \in Walks(E, j)
    <3>1. 0 \in 0..(j - 1)
      OBVIOUS
    <3>2. <<start, n>> \notin Walks(E, 0)
      BY <2>2, <3>1 DEF At
    <3>3. QED
      BY <2>2, <3>2, WalkZero DEF At
  <2>3. QED
    BY <2>1, <2>2 DEF Reached
<1>3. ASSUME NEW k \in Nat, k \in S PROVE k + 1 \in S
  <2> DEFINE v == V(k)
             frontier == IF k + 1 = 1 THEN {start} ELSE {n \in DOMAIN v : v[n] = (k + 1) - 1}
             next == Targets(E, frontier) \ (DOMAIN v \cup {start})
  <2>1. BfsDirected(E, start, k + 1) = [n \in DOMAIN v \cup next |-> IF n \in next THEN k + 1 ELSE v[n]]
    <3>1. BfsDirected(E, start, k) = v
      BY <1>3
    <3>2. BfsDirected(E, start, k + 1) = DirectedNext(E, start, k + 1, v)
      BY <3>1, DirectedRounds
    <3> HIDE DEF v
    <3>3. QED
      BY <3>2 DEF DirectedNext
  <2>2. DOMAIN v = Reached(E, start, k) /\ \A n \in DOMAIN v : v[n] = Steps(E, start, n) /\ n \in Names
    BY DEF Reached
  <2> HIDE DEF v
  <2>3. \A n : n \in frontier <=> n \in Names /\ At(E, start, n, k)
    <3>1. CASE k = 0
      <4>1. \A n : n \in frontier <=> n = start
        BY <3>1
      <4>2. \A n \in Names : At(E, start, n, 0) <=> n = start
        BY WalkZero DEF At
      <4>3. QED
        BY <3>1, <4>1, <4>2
    <3>2. CASE k # 0
      <4>1. \A n : n \in frontier <=> n \in Reached(E, start, k) /\ Steps(E, start, n) = k
        BY <2>2, <3>2
      <4>2. ASSUME NEW n \in Names, At(E, start, n, k) PROVE n \in Reached(E, start, k) /\ Steps(E, start, n) = k
        <5>1. k \in 1..k
          BY <3>2
        <5>2. QED
          BY <1>2, <4>2, <5>1, AtSteps
      <4>3. ASSUME NEW n \in Reached(E, start, k), Steps(E, start, n) = k PROVE n \in Names /\ At(E, start, n, k)
        <5>1. n \in Names
          BY DEF Reached
        <5>2. PICK j \in 1..k : At(E, start, n, j)
          BY <1>2, <5>1
        <5>3. j \in Nat
          OBVIOUS
        <5>4. Steps(E, start, n) = j
          BY <5>1, <5>2, <5>3, AtSteps
        <5>5. QED
          BY <4>3, <5>1, <5>2, <5>4
      <4> HIDE DEF frontier
      <4>4. QED
        BY <4>1, <4>2, <4>3
    <3>3. QED
      BY <3>1, <3>2
  <2> HIDE DEF frontier
  <2>4. \A n : n \in next <=> n \in Names /\ At(E, start, n, k + 1)
    <3>1. \A n : n \in Targets(E, frontier) <=> n \in Names /\ \E c \in Names : At(E, start, c, k) /\ <<c, n>> \in E
      <4>1. \A n : n \in Targets(E, frontier) <=> \E c \in frontier : <<c, n>> \in E
        BY TargetsOf
      <4>2. \A n : n \in Targets(E, frontier) => n \in Names
        BY TargetsOf
      <4>3. QED
        BY <2>3, <4>1, <4>2
    <3>2. ASSUME NEW n \in Names
          PROVE  (\A j \in 0..k : <<start, n>> \notin Walks(E, j)) <=> n \notin DOMAIN v \cup {start}
      <4>1. n = start <=> <<start, n>> \in Walks(E, 0)
        BY WalkZero
      <4>2. n # start => (n \in DOMAIN v <=> \E j \in 1..k : <<start, n>> \in Walks(E, j))
        BY <2>2 DEF Reached
      <4>3. \A j : j \in 0..k <=> j = 0 \/ j \in 1..k
        OBVIOUS
      <4>4. QED
        BY <4>1, <4>2, <4>3
    <3>3. \A n \in Names : At(E, start, n, k + 1) <=>
            /\ \E c \in Names : At(E, start, c, k) /\ <<c, n>> \in E
            /\ \A j \in 0..k : <<start, n>> \notin Walks(E, j)
      BY AtBefore
    <3>4. QED
      BY <3>1, <3>2, <3>3
  <2> HIDE DEF next
  <2>5. k + 1 \in Nat
    OBVIOUS
  <2>6. DOMAIN v \cup next = Reached(E, start, k + 1)
    <3>1. \A n \in Names : n \in Reached(E, start, k + 1) <=> n \in Reached(E, start, k) \/ At(E, start, n, k + 1)
      <4>1. \A j : j \in 1..(k + 1) <=> j \in 1..k \/ j = k + 1
        OBVIOUS
      <4>2. \A n \in Names : n \in Reached(E, start, k + 1) <=> \E j \in 1..(k + 1) : At(E, start, n, j)
        BY <1>2, <2>5
      <4>3. \A n \in Names : n \in Reached(E, start, k) <=> \E j \in 1..k : At(E, start, n, j)
        BY <1>2
      <4>4. QED
        BY <4>1, <4>2, <4>3
    <3>2. Reached(E, start, k + 1) \subseteq Names /\ next \subseteq Names /\ DOMAIN v \subseteq Names
      BY <2>2, <2>4 DEF Reached
    <3>3. QED
      BY <2>2, <2>4, <3>1, <3>2
  <2>7. \A n \in Reached(E, start, k + 1) :
          (IF n \in next THEN k + 1 ELSE v[n]) = Steps(E, start, n)
    <3>1. ASSUME NEW n \in next PROVE Steps(E, start, n) = k + 1
      BY <2>4, <2>5, AtSteps
    <3>2. QED
      BY <2>2, <2>6, <3>1
  <2>8. BfsDirected(E, start, k + 1) = V(k + 1)
    BY <2>1, <2>6, <2>7
  <2>9. QED
    BY <2>5, <2>8
<1> HIDE DEF S
<1>4. Nat \subseteq S
  BY <1>1, <1>3, Induction
<1>5. d \in S
  BY <1>4
<1>6. QED
  BY <1>5 DEF S

(* What is cut is no nearer than what is kept.                               *)
LEMMA NearestKeeps ==
  ASSUME NEW depths, NEW topN, NEW S \in Nearest(depths, topN)
  PROVE  /\ S \subseteq DOMAIN depths
         /\ \A n \in S, cut \in DOMAIN depths \ S : depths[n] <= depths[cut]
         /\ topN = 0 => S = DOMAIN depths
<1>1. CASE topN = 0 \/ Cardinality(DOMAIN depths) <= topN
  BY <1>1 DEF Nearest
<1>2. CASE ~(topN = 0 \/ Cardinality(DOMAIN depths) <= topN)
  BY <1>2 DEF Nearest
<1>3. QED
  BY <1>1, <1>2

(* Part of CallsFollowed: a scenario gives distances, and stays connected    *)
(* when cut.                                                                 *)
LEMMA ScenarioConnectedWell ==
  ASSUME edges \in Graphs
  PROVE  ScenarioConnected
<1>1. SUFFICES ASSUME NEW maxDepth \in 1..3, NEW topN \in 0..2,
                      NEW r \in TraceScenario(edges, 1, maxDepth, topN)
      PROVE  /\ r.Upstream = [n \in {m \in Names \ {1} : \E k \in 1..maxDepth :
                                        <<m, 1>> \in Walks(edges, k)} |-> Steps(edges, n, 1)]
             /\ \A n \in DOMAIN r.Downstream :
                  /\ n # 1
                  /\ r.Downstream[n] = Steps(edges, 1, n)
                  /\ \E m \in {1} \cup DOMAIN r.Downstream :
                       <<m, n>> \in r.Edges /\ Steps(edges, 1, m) = r.Downstream[n] - 1
             /\ topN = 0 => DOMAIN r.Downstream
                              = {n \in Names \ {1} : \E k \in 1..maxDepth :
                                   <<1, n>> \in Walks(edges, k)}
  BY DEF ScenarioConnected
<1> DEFINE F == Reversed(edges)
           down == BfsDirected(edges, 1, maxDepth)
           up == BfsDirected(F, 1, maxDepth)
           all == {1} \cup DOMAIN down \cup DOMAIN up
<1>2. 1 \in Names /\ maxDepth \in Nat
  BY NamesFinite
<1>3. F \in Graphs
  BY ReversedGraph
<1>4. down = [n \in Reached(edges, 1, maxDepth) |-> Steps(edges, 1, n)]
  BY <1>2, DirectedDistances
<1>5. up = [n \in Reached(F, 1, maxDepth) |-> Steps(F, 1, n)]
  <2> HIDE DEF F
  <2>1. QED
    BY <1>2, <1>3, DirectedDistances
<1>6. PICK S \in Nearest(down, topN) : r = [Upstream |-> up,
          Downstream |-> Restrict(down, S),
          Entries |-> {n \in DOMAIN up : FanIn(edges, n) = 0},
          Leaves |-> {n \in S : FanOut(edges, n) = 0},
          Edges |-> {e \in edges : {e[1], e[2]} \subseteq all}]
  <2> HIDE DEF down, up
  <2>1. QED
    BY DEF TraceScenario, down, up, F
<1>7. /\ S \subseteq DOMAIN down
      /\ \A n \in S, cut \in DOMAIN down \ S : down[n] <= down[cut]
      /\ topN = 0 => S = DOMAIN down
  <2> HIDE DEF down
  <2>1. QED
    BY NearestKeeps
<1>8. up = [n \in {m \in Names \ {1} : \E k \in 1..maxDepth : <<m, 1>> \in Walks(edges, k)}
              |-> Steps(edges, n, 1)]
  <2>1. \A n \in Names, k \in Nat : <<1, n>> \in Walks(F, k) <=> <<n, 1>> \in Walks(edges, k)
    BY <1>2, WalksReversed
  <2> HIDE DEF F
  <2>2. Reached(F, 1, maxDepth) = {m \in Names \ {1} : \E k \in 1..maxDepth : <<m, 1>> \in Walks(edges, k)}
    <3>1. \A k \in 1..maxDepth : k \in Nat
      OBVIOUS
    <3>2. QED
      BY <2>1, <3>1 DEF Reached
  <2>3. ASSUME NEW n \in Names PROVE Steps(F, 1, n) = Steps(edges, n, 1)
    <3>1. {k \in 0..Size : <<1, n>> \in Walks(F, k)} = {k \in 0..Size : <<n, 1>> \in Walks(edges, k)}
      <4>1. \A k \in 0..Size : k \in Nat
        OBVIOUS
      <4>2. QED
        BY <2>1, <4>1
    <3>2. QED
      BY <3>1 DEF Steps
  <2>4. \A n \in Reached(F, 1, maxDepth) : n \in Names
    BY DEF Reached
  <2> HIDE DEF up
  <2>5. QED
    BY <1>5, <2>2, <2>3, <2>4
<1>9. DOMAIN down = Reached(edges, 1, maxDepth) /\ \A n \in DOMAIN down : down[n] = Steps(edges, 1, n)
  BY <1>4
<1>10. /\ r.Upstream = up /\ r.Edges = {e \in edges : {e[1], e[2]} \subseteq all}
       /\ r.Downstream = [n \in S |-> down[n]]
  <2> HIDE DEF down, up, all
  <2>1. Restrict(down, S) = [n \in S |-> down[n]]
    BY DEF Restrict
  <2>2. QED
    BY <1>6, <2>1
<1>11. all = {1} \cup DOMAIN down \cup DOMAIN up
  OBVIOUS
<1> HIDE DEF down, up, all, F
<1>12. ASSUME NEW n \in S
       PROVE  /\ n # 1
              /\ down[n] = Steps(edges, 1, n)
              /\ \E m \in {1} \cup S :
                   <<m, n>> \in r.Edges /\ Steps(edges, 1, m) = down[n] - 1
  <2>1. n \in Reached(edges, 1, maxDepth) /\ n \in Names /\ n # 1 /\ down[n] = Steps(edges, 1, n)
    BY <1>7, <1>9 DEF Reached
  <2>2. PICK k \in 1..maxDepth : <<1, n>> \in Walks(edges, k)
    BY <2>1 DEF Reached
  <2>3. PICK d \in 0..k : At(edges, 1, n, d)
    <3>1. k \in Nat
      OBVIOUS
    <3>2. QED
      BY <1>2, <2>1, <2>2, <3>1, WalkAt
  <2>4. d # 0
    BY <1>2, <2>1, <2>3, WalkZero DEF At
  <2> DEFINE i == d - 1
  <2>5. i \in Nat /\ i + 1 = d /\ d \in Nat
    BY <2>4
  <2> HIDE DEF i
  <2>6. PICK c \in Names : At(edges, 1, c, i) /\ <<c, n>> \in edges
    BY <1>2, <2>1, <2>3, <2>5, AtBefore
  <2>7. Steps(edges, 1, n) = d /\ Steps(edges, 1, c) = i
    BY <1>2, <2>1, <2>3, <2>5, <2>6, AtSteps
  <2>8. c \in {1} \cup DOMAIN down
    <3>1. CASE c = 1
      BY <3>1
    <3>2. CASE c # 1
      <4>1. i # 0
        BY <1>2, <2>6, <3>2, WalkZero DEF At
      <4>2. i \in 1..maxDepth
        BY <2>5, <4>1
      <4>3. <<1, c>> \in Walks(edges, i)
        BY <2>6 DEF At
      <4>4. QED
        BY <1>9, <3>2, <4>2, <4>3 DEF Reached
    <3>3. QED
      BY <3>1, <3>2
  <2>9. c \in {1} \cup S
    <3>1. CASE c \in DOMAIN down \ S
      <4>1. down[n] <= down[c]
        BY <1>7, <3>1
      <4>2. down[n] = i + 1 /\ down[c] = i
        BY <1>9, <2>1, <2>5, <2>7, <3>1
      <4>3. QED
        BY <2>5, <4>1, <4>2
    <3>2. QED
      BY <2>8, <3>1
  <2>10. <<c, n>> \in r.Edges
    BY <1>7, <1>10, <1>11, <2>6, <2>8
  <2>11. Steps(edges, 1, c) = down[n] - 1
    BY <2>1, <2>5, <2>7
  <2>12. QED
    BY <2>1, <2>9, <2>10, <2>11
<1>13. DOMAIN r.Downstream = S /\ \A n \in S : r.Downstream[n] = down[n]
  BY <1>10
<1>14. topN = 0 => DOMAIN r.Downstream = {n \in Names \ {1} : \E k \in 1..maxDepth : <<1, n>> \in Walks(edges, k)}
  BY <1>7, <1>9, <1>13 DEF Reached
<1>15. r.Upstream = [n \in {m \in Names \ {1} : \E k \in 1..maxDepth :
                               <<m, 1>> \in Walks(edges, k)} |-> Steps(edges, n, 1)]
  BY <1>8, <1>10
<1>16. \A n \in DOMAIN r.Downstream :
         /\ n # 1
         /\ r.Downstream[n] = Steps(edges, 1, n)
         /\ \E m \in {1} \cup DOMAIN r.Downstream :
              <<m, n>> \in r.Edges /\ Steps(edges, 1, m) = r.Downstream[n] - 1
  BY <1>12, <1>13
<1>17. QED
  BY <1>14, <1>15, <1>16

(* However a graph of symbols grows, scenarios hold each symbol at its       *)
(* distance and are connected, convergence is what several lead to, and what *)
(* falls apart without a symbol, or is apart, is what no walk links.         *)
THEOREM CallsFollowedHolds == Spec => []CallsFollowed
<1>1. edges \in Graphs => CallsFollowed
  BY ScenarioConnectedWell, ConvergenceSharedWell, IsolatePartsWell, IslandsUnreachedWell
     DEF CallsFollowed, FlowsConnected, PartsApart
<1>2. QED
  BY <1>1, GraphTypeOK, PTL

------------------------------------------------------------------------------
(* Risk.                                                                     *)

(* Products grow with their factors.                                         *)
LEMMA ProductMonotone ==
  ASSUME NEW a \in Nat, NEW b \in Nat, NEW k \in Nat, a <= b
  PROVE  a * k <= b * k /\ a * k \in Nat /\ b * k \in Nat
<1>1. PICK c \in Nat : b = a + c
  <2>1. b - a \in Nat /\ b = a + (b - a)
    OBVIOUS
  <2>2. QED
    BY <2>1
<1>2. b * k = a * k + c * k
  BY <1>1
<1>3. c * k \in Nat /\ a * k \in Nat
  OBVIOUS
<1>4. QED
  BY <1>2, <1>3

(* Quotients grow with what is divided.                                      *)
LEMMA DivMonotone ==
  ASSUME NEW a \in Nat, NEW b \in Nat, NEW d \in Nat \ {0}, a <= b
  PROVE  a \div d <= b \div d /\ a \div d \in Nat /\ b \div d \in Nat
  OBVIOUS

(* Dividing a multiple.                                                      *)
LEMMA DivExact ==
  ASSUME NEW k \in Nat, NEW d \in Nat \ {0}
  PROVE  (k * d) \div d = k
  OBVIOUS

(* Of two components of which one imports the other, the other has no        *)
(* fewer dependents.                                                         *)
LEMMA DependentsFewer ==
  ASSUME NEW E \in Graphs, NEW a \in Names, NEW b \in Names, <<a, b>> \in E, a # b
  PROVE  Cardinality(DependentsOf(E, a)) <= Cardinality(DependentsOf(E, b))
<1> DEFINE A == DependentsOf(E, a)
           B == DependentsOf(E, b)
<1>1. A \subseteq Names /\ B \subseteq Names /\ a \notin A /\ b \notin B
  BY DEF DependentsOf
<1>2. <<a, b>> \in Linked(E)
  BY LinkedClosed
<1>3. a \in B
  BY <1>2 DEF DependentsOf
<1>4. A \ {b} \subseteq B
  <2>1. ASSUME NEW d \in A \ {b} PROVE d \in B
    <3>1. d \in Names /\ <<d, a>> \in Linked(E)
      BY DEF DependentsOf
    <3>2. <<d, b>> \in Linked(E)
      BY <1>2, <3>1, LinkedTransitive
    <3>3. QED
      BY <3>1, <3>2 DEF DependentsOf
  <2>2. QED
    BY <2>1
<1>5. IsFiniteSet(A) /\ IsFiniteSet(B) /\ Cardinality(A) \in Nat /\ Cardinality(B) \in Nat
  BY <1>1, NamesFinite, FS_Subset, FS_CardinalityType
<1> HIDE DEF A, B
<1>6. CASE b \notin A
  <2>1. A \in SUBSET B
    BY <1>4, <1>6
  <2>2. QED
    BY <1>5, <2>1, FS_Subset DEF A, B
<1>7. CASE b \in A
  <2> DEFINE A1 == A \ {b}
             B1 == B \ {a}
  <2>1. IsFiniteSet(A1) /\ Cardinality(A1) = Cardinality(A) - 1
    BY <1>5, <1>7, FS_RemoveElement
  <2>2. IsFiniteSet(B1) /\ Cardinality(B1) = Cardinality(B) - 1
    BY <1>3, <1>5, FS_RemoveElement
  <2>3. A1 \in SUBSET B1
    BY <1>1, <1>4
  <2> HIDE DEF A1, B1
  <2>4. Cardinality(A1) <= Cardinality(B1)
    BY <2>2, <2>3, FS_Subset
  <2>5. Cardinality(A) <= Cardinality(B)
    BY <1>5, <2>1, <2>2, <2>4
  <2>6. QED
    BY <2>5 DEF A, B
<1>8. QED
  BY <1>6, <1>7

(* The blast radius is a natural, and along an import it does not shrink.    *)
LEMMA BlastNumbers ==
  ASSUME NEW E \in Graphs, \A n : <<n, n>> \notin E
  PROVE  /\ \A n \in Names : BlastRadius(E, Names, n) \in Nat
         /\ \A a, b \in Names : <<a, b>> \in E => BlastRadius(E, Names, a) <= BlastRadius(E, Names, b)
<1>1. \A n \in Names : BlastRadius(E, Names, n) = (Cardinality(DependentsOf(E, n)) * 100) \div Size
  BY ImpactDependents, NamesFinite DEF BlastRadius
<1>2. \A n \in Names : Cardinality(DependentsOf(E, n)) \in Nat
  <2>1. \A n \in Names : DependentsOf(E, n) \in SUBSET Names
    BY DEF DependentsOf
  <2>2. QED
    BY <2>1, NamesFinite, FS_Subset, FS_CardinalityType
<1>3. Size \in Nat \ {0}
  BY NamesFinite
<1>4. \A n \in Names : BlastRadius(E, Names, n) \in Nat
  BY <1>1, <1>2, <1>3
<1>5. ASSUME NEW a \in Names, NEW b \in Names, <<a, b>> \in E
      PROVE  BlastRadius(E, Names, a) <= BlastRadius(E, Names, b)
  <2> DEFINE x == Cardinality(DependentsOf(E, a))
             y == Cardinality(DependentsOf(E, b))
  <2>1. x \in Nat /\ y \in Nat /\ x <= y
    BY <1>2, <1>5, DependentsFewer
  <2> HIDE DEF x, y
  <2>2. x * 100 \in Nat /\ y * 100 \in Nat /\ x * 100 <= y * 100
    BY <2>1
  <2> DEFINE u == x * 100
             v == y * 100
  <2> HIDE DEF u, v
  <2>3. u \div Size <= v \div Size
    BY <1>3, <2>2, DivMonotone DEF u, v
  <2>4. QED
    BY <1>1, <2>3 DEF u, v, x, y
<1>6. QED
  BY <1>4, <1>5

(* The score before it is rounded.                                           *)
RawRisk(churn, blast, gap, maxChurn, maxBlast) ==
    40 * churn * maxBlast * 100 + 40 * blast * maxChurn * 100 + 20 * gap * maxChurn * maxBlast

(* The score of the risk grows with each of its factors.                     *)
LEMMA RawRiskMonotone ==
  ASSUME NEW c1 \in Nat, NEW c2 \in Nat, c1 <= c2, NEW b1 \in Nat, NEW b2 \in Nat, b1 <= b2,
         NEW g1 \in Nat, NEW g2 \in Nat, g1 <= g2, NEW mc \in Nat, NEW mb \in Nat
  PROVE  /\ RawRisk(c1, b1, g1, mc, mb) <= RawRisk(c2, b2, g2, mc, mb)
         /\ RawRisk(c1, b1, g1, mc, mb) \in Nat /\ RawRisk(c2, b2, g2, mc, mb) \in Nat
<1>1. c1 * mb <= c2 * mb /\ c1 * mb \in Nat /\ c2 * mb \in Nat
  BY ProductMonotone
<1>2. b1 * mc <= b2 * mc /\ b1 * mc \in Nat /\ b2 * mc \in Nat
  BY ProductMonotone
<1>3. mc * mb \in Nat
  OBVIOUS
<1> DEFINE m == mc * mb
<1> HIDE DEF m
<1>4. g1 * m <= g2 * m /\ g1 * m \in Nat /\ g2 * m \in Nat
  BY <1>3, ProductMonotone DEF m
<1>5. \A c, b, g \in Nat : RawRisk(c, b, g, mc, mb) = 4000 * (c * mb) + 4000 * (b * mc) + 20 * (g * m)
  BY DEF RawRisk, m
<1> DEFINE p1 == c1 * mb
           p2 == c2 * mb
           q1 == b1 * mc
           q2 == b2 * mc
           r1 == g1 * m
           r2 == g2 * m
<1>6. /\ RawRisk(c1, b1, g1, mc, mb) = 4000 * p1 + 4000 * q1 + 20 * r1
      /\ RawRisk(c2, b2, g2, mc, mb) = 4000 * p2 + 4000 * q2 + 20 * r2
  BY <1>5
<1>7. /\ p1 \in Nat /\ p2 \in Nat /\ q1 \in Nat /\ q2 \in Nat /\ r1 \in Nat /\ r2 \in Nat
      /\ p1 <= p2 /\ q1 <= q2 /\ r1 <= r2
  BY <1>1, <1>2, <1>4
<1> HIDE DEF p1, p2, q1, q2, r1, r2
<1>8. QED
  BY <1>6, <1>7

(* The worst in all three has the full score.                                *)
LEMMA RawRiskFull ==
  ASSUME NEW mc \in Nat \ {0}, NEW mb \in Nat \ {0}
  PROVE  /\ RawRisk(mc, mb, 100, mc, mb) \div (100 * mc * mb) = 100
         /\ 100 * mc * mb \in Nat \ {0}
<1>1. mc * mb \in Nat \ {0}
  OBVIOUS
<1> DEFINE m == mc * mb
           d == 100 * m
<1>2. 100 * mc * mb = d
  OBVIOUS
<1>3. RawRisk(mc, mb, 100, mc, mb) = 4000 * m + 4000 * m + 2000 * m
  BY DEF RawRisk
<1> HIDE DEF m
<1>4. RawRisk(mc, mb, 100, mc, mb) = 100 * d /\ d \in Nat \ {0}
  BY <1>1, <1>3 DEF m
<1> HIDE DEF d
<1>5. (100 * d) \div d = 100
  BY <1>4, DivExact
<1>6. QED
  BY <1>2, <1>4, <1>5

(* Part of HealthScored: what is worse in all is never the less risky.       *)
LEMMA RiskMonotoneWell ==
  ASSUME edges \in Graphs
  PROVE  RiskMonotone
<1> SUFFICES ASSUME NEW p \in Projects
    PROVE
      LET risk == ComputeRiskScores(Imports, p.services)
          Radius(n) == BlastRadius(Imports, Names, n)
          Worse(a, b) == /\ p.services[a].churn <= p.services[b].churn
                         /\ CoverageGap(p.services[a].coverage) <= CoverageGap(p.services[b].coverage)
      IN  /\ \A e \in Imports : Radius(e[1]) <= Radius(e[2])
          /\ \A a, b \in DOMAIN risk :
               Worse(a, b) /\ (Radius(a) <= Radius(b) \/ <<a, b>> \in Imports) => risk[a] <= risk[b]
          /\ \A b \in DOMAIN risk :
               /\ p.services[b].churn > 0 /\ Radius(b) > 0 /\ p.services[b].coverage = Unknown
               /\ \A a \in Names : Worse(a, b) /\ Radius(a) <= Radius(b)
               => risk[b] = 100 /\ RiskLevel(risk[b]) = "critical"
  BY DEF RiskMonotone
<1> DEFINE risk == ComputeRiskScores(Imports, p.services)
           Radius(n) == BlastRadius(Imports, Names, n)
           Churn(n) == p.services[n].churn
           Gap(n) == CoverageGap(p.services[n].coverage)
           churns == {1} \cup {Churn(n) : n \in Names}
           blasts == {1} \cup {Radius(n) : n \in Names}
           mc == Max(churns)
           mb == Max(blasts)
           Raw(n) == RawRisk(Churn(n), Radius(n), Gap(n), mc, mb)
           d == 100 * mc * mb
<1>1. Imports \in Graphs /\ \A n : <<n, n>> \notin Imports
  BY ImportsGraph
<1>2. DOMAIN p.services = Names /\ \A n \in Names : Churn(n) \in Nat /\ Gap(n) \in Nat
  <2>1. \A n \in Names : p.services[n].coverage \in Unknown..100
    BY HealthReportsAssumption
  <2>2. \A c \in Unknown..100 : CoverageGap(c) \in Nat
    BY DEF CoverageGap, Unknown
  <2>3. QED
    BY <2>1, <2>2, HealthReportsAssumption
<1>3. /\ \A n \in Names : Radius(n) \in Nat
      /\ \A a, b \in Names : <<a, b>> \in Imports => Radius(a) <= Radius(b)
  BY <1>1, BlastNumbers
<1>4. \A e \in Imports : Radius(e[1]) <= Radius(e[2])
  BY <1>1, <1>3, PairOfNames
<1>5. /\ DOMAIN risk \subseteq Names
      /\ \A n \in DOMAIN risk : risk[n] = Min({100, Raw(n) \div d})
  <2> DEFINE blast == [n \in Names |-> Radius(n)]
             active == {n \in Names : p.services[n].churn # 0 \/ FanIn(Imports, n) # 0}
  <2>1. {blast[n] : n \in Names} = {Radius(n) : n \in Names}
    OBVIOUS
  <2>2. \A n \in Names : blast[n] = Radius(n)
    OBVIOUS
  <2>3. risk = [n \in active |->
                  Min({100, RawRisk(p.services[n].churn, blast[n], CoverageGap(p.services[n].coverage),
                                    mc, Max({1} \cup {blast[k] : k \in Names}))
                              \div (100 * mc * Max({1} \cup {blast[k] : k \in Names}))})]
    BY <1>2 DEF ComputeRiskScores, RawRisk
  <2> HIDE DEF blast, Radius, risk
  <2>4. risk = [n \in active |-> Min({100, RawRisk(Churn(n), blast[n], Gap(n), mc, mb) \div d})]
    BY <2>1, <2>3
  <2> HIDE DEF mc, mb, d, Churn, Gap
  <2>5. \A n \in active : risk[n] = Min({100, Raw(n) \div d})
    BY <2>2, <2>4
  <2>6. DOMAIN risk = active
    BY <2>4
  <2>7. QED
    BY <2>5, <2>6
<1> HIDE DEF Radius, Churn, Gap, risk
<1>6. IsFiniteSet(churns) /\ IsFiniteSet(blasts) /\ churns \in SUBSET Int /\ blasts \in SUBSET Int
  <2>1. ASSUME NEW f \in [Names -> Nat]
        PROVE  IsFiniteSet({1} \cup {f[n] : n \in Names})
    <3> DEFINE T == {f[n] : n \in Names}
    <3>1. f \in Surjection(Names, T)
      BY DEF Surjection
    <3> HIDE DEF T
    <3>2. IsFiniteSet(T)
      BY <3>1, NamesFinite, FS_Surjection
    <3>3. IsFiniteSet(T \cup {1})
      BY <3>2, FS_AddElement
    <3>4. T \cup {1} = {1} \cup T
      OBVIOUS
    <3>5. QED
      BY <3>3, <3>4 DEF T
  <2> DEFINE f == [n \in Names |-> Churn(n)]
             g == [n \in Names |-> Radius(n)]
  <2>2. f \in [Names -> Nat] /\ g \in [Names -> Nat]
    BY <1>2, <1>3
  <2>3. churns = {1} \cup {f[n] : n \in Names} /\ blasts = {1} \cup {g[n] : n \in Names}
    OBVIOUS
  <2>4. churns \in SUBSET Int /\ blasts \in SUBSET Int
    BY <1>2, <1>3
  <2> HIDE DEF f, g, churns, blasts
  <2>5. QED
    BY <2>1, <2>2, <2>3, <2>4
<1>7. /\ mc \in Nat \ {0} /\ \A n \in Names : Churn(n) <= mc
      /\ mb \in Nat \ {0} /\ \A n \in Names : Radius(n) <= mb
      /\ mc \in churns /\ mb \in blasts
  <2>1. 1 \in churns /\ 1 \in blasts /\ \A n \in Names : Churn(n) \in churns /\ Radius(n) \in blasts
    OBVIOUS
  <2>2. churns # {} /\ blasts # {}
    BY <2>1
  <2> HIDE DEF churns, blasts
  <2>3. mc \in churns /\ \A y \in churns : y <= mc
    BY <1>6, <2>2, MaxOf
  <2>4. mb \in blasts /\ \A y \in blasts : y <= mb
    BY <1>6, <2>2, MaxOf
  <2> HIDE DEF mc, mb
  <2>5. mc \in Int /\ mb \in Int /\ 1 <= mc /\ 1 <= mb
    BY <1>6, <2>1, <2>3, <2>4
  <2>6. mc \in Nat \ {0} /\ mb \in Nat \ {0}
    BY <2>5
  <2>7. \A n \in Names : Churn(n) <= mc
    BY <2>1, <2>3
  <2>8. \A n \in Names : Radius(n) <= mb
    BY <2>1, <2>4
  <2>9. QED
    BY <2>3, <2>4, <2>6, <2>7, <2>8
<1> HIDE DEF mc, mb
<1>8. d \in Nat \ {0}
  BY <1>7, RawRiskFull
<1> HIDE DEF d
<1>9. ASSUME NEW a \in DOMAIN risk, NEW b \in DOMAIN risk, Churn(a) <= Churn(b), Gap(a) <= Gap(b),
             Radius(a) <= Radius(b) \/ <<a, b>> \in Imports
      PROVE  risk[a] <= risk[b]
  <2>1. a \in Names /\ b \in Names
    BY <1>5
  <2>2. Radius(a) <= Radius(b)
    BY <1>3, <1>9, <2>1
  <2>3. Raw(a) <= Raw(b) /\ Raw(a) \in Nat /\ Raw(b) \in Nat
    BY <1>2, <1>3, <1>7, <1>9, <2>1, <2>2, RawRiskMonotone
  <2> DEFINE x == Raw(a) \div d
             y == Raw(b) \div d
  <2> HIDE DEF Raw
  <2>4. x \in Nat /\ y \in Nat /\ x <= y
    BY <1>8, <2>3, DivMonotone
  <2>5. risk[a] = Min({100, x}) /\ risk[b] = Min({100, y})
    BY <1>5
  <2> HIDE DEF x, y
  <2>6. risk[a] = (IF 100 <= x THEN 100 ELSE x) /\ risk[b] = (IF 100 <= y THEN 100 ELSE y)
    BY <2>4, <2>5, MinOfTwo
  <2>7. QED
    BY <2>4, <2>6
<1>10. ASSUME NEW b \in DOMAIN risk, Churn(b) > 0, Radius(b) > 0, p.services[b].coverage = Unknown,
              \A a \in Names : Churn(a) <= Churn(b) /\ Radius(a) <= Radius(b)
       PROVE  risk[b] = 100 /\ RiskLevel(risk[b]) = "critical"
  <2>1. b \in Names
    BY <1>5
  <2>2. mc = Churn(b)
    <3>1. mc = 1 \/ \E a \in Names : mc = Churn(a)
      BY <1>7
    <3>2. QED
      BY <1>2, <1>7, <1>10, <2>1, <3>1
  <2>3. mb = Radius(b)
    <3>1. mb = 1 \/ \E a \in Names : mb = Radius(a)
      BY <1>7
    <3>2. QED
      BY <1>3, <1>7, <1>10, <2>1, <3>1
  <2>4. Gap(b) = 100
    BY <1>10 DEF Gap, CoverageGap
  <2>5. Raw(b) = RawRisk(mc, mb, 100, mc, mb)
    BY <2>2, <2>3, <2>4
  <2>6. Raw(b) \div d = 100
    BY <1>7, <2>5, RawRiskFull DEF d
  <2> HIDE DEF Raw
  <2>7. risk[b] = Min({100, 100})
    BY <1>5, <2>6
  <2>8. risk[b] = 100
    BY <2>7, MinOfTwo
  <2>9. QED
    BY <2>8 DEF RiskLevel
<1>11. QED
  BY <1>4, <1>9, <1>10 DEF Radius, Churn, Gap, risk

------------------------------------------------------------------------------
(* Leverage.                                                                 *)

(* The edges into a component, and those that enrich it.                     *)
ImportsTo(E, t) == {e \in E : e[2] = t}
EnrichingTo(E, uses, t) == {e \in ImportsTo(E, t) : Enriches(uses[e])}

(* The consumers of a component are enriching or binary; together they are   *)
(* fewer than the names.                                                     *)
LEMMA LeverageParts ==
  ASSUME NEW E \in Graphs, NEW uses, NEW t \in Names, \A n : <<n, n>> \notin E
  PROVE  LET all == ComputeLeverage(E, Names, uses, t)
             consumers == ImportsTo(E, t)
             enrichment == EnrichingTo(E, uses, t)
             k == Cardinality(enrichment)
             b == Cardinality(consumers \ enrichment)
         IN  /\ all.Enrichment \cup all.Binary = Targets(Reversed(E), {t})
             /\ all.Enrichment \cap all.Binary = {}
             /\ all.Score = Min({100, ((3 * k + b) * 100) \div (3 * Size)})
             /\ IsFiniteSet(consumers)
             /\ k \in Nat /\ b \in Nat /\ k + b <= Size - 1
<1> DEFINE all == ComputeLeverage(E, Names, uses, t)
           consumers == ImportsTo(E, t)
           enrichment == EnrichingTo(E, uses, t)
           binary == consumers \ enrichment
           k == Cardinality(enrichment)
           b == Cardinality(binary)
<1> USE DEF ImportsTo, EnrichingTo
<1>1. /\ all.Enrichment = {e[1] : e \in enrichment}
      /\ all.Binary = {e[1] : e \in binary}
      /\ all.Score = Min({100, ((3 * k + b) * 100) \div (3 * Size)})
  BY NamesFinite DEF ComputeLeverage
<1>2. enrichment \subseteq consumers
  OBVIOUS
<1> HIDE DEF all, enrichment
<1>3. \A e \in consumers : e \in E /\ e = <<e[1], t>> /\ e[1] \in Names /\ e[1] # t
  BY PairOfNames
<1>4. \A x : x \in Targets(Reversed(E), {t}) <=> <<x, t>> \in E
  BY ReversedGraph, TargetsOfOne
<1>5. all.Enrichment \cup all.Binary = Targets(Reversed(E), {t})
  <2>1. ASSUME NEW x, <<x, t>> \in E PROVE x \in all.Enrichment \cup all.Binary
    <3> DEFINE e == <<x, t>>
    <3>1. e \in enrichment \cup binary /\ e[1] = x
      BY <1>2, <2>1
    <3> HIDE DEF e
    <3>2. QED
      BY <1>1, <3>1
  <2>2. ASSUME NEW x \in all.Enrichment \cup all.Binary PROVE <<x, t>> \in E
    <3>1. PICK e \in consumers : x = e[1]
      BY <1>1, <1>2
    <3>2. QED
      BY <1>3, <3>1
  <2>3. QED
    BY <1>4, <2>1, <2>2
<1>6. all.Enrichment \cap all.Binary = {}
  <2>1. ASSUME NEW x \in all.Enrichment, x \in all.Binary PROVE FALSE
    <3>1. PICK e \in enrichment : x = e[1]
      BY <1>1
    <3>2. PICK f \in binary : x = f[1]
      BY <1>1, <2>1
    <3>3. e = f
      BY <1>2, <1>3, <3>1, <3>2
    <3>4. QED
      BY <3>1, <3>2, <3>3
  <2>2. QED
    BY <2>1
<1>7. IsFiniteSet(consumers) /\ Cardinality(consumers) <= Size - 1
  <2> DEFINE others == Names \ {t}
             f == [e \in consumers |-> e[1]]
  <2>1. IsFiniteSet(others) /\ Cardinality(others) = Size - 1
    <3>1. IsFiniteSet(Names) /\ Cardinality(Names) = Size /\ t \in Names
      BY NamesFinite
    <3>2. QED
      BY <3>1, FS_RemoveElement
  <2>2. f \in Injection(consumers, others)
    <3>1. f \in [consumers -> others]
      BY <1>3
    <3>2. \A x, y \in consumers : f[x] = f[y] => x = y
      BY <1>3
    <3> HIDE DEF f, consumers, others
    <3>3. QED
      BY <3>1, <3>2 DEF Injection, IsInjective
  <2> HIDE DEF others, f
  <2>3. QED
    BY <2>1, <2>2, FS_Injection
<1>8. IsFiniteSet(enrichment) /\ IsFiniteSet(binary) /\ k \in Nat /\ b \in Nat
  BY <1>2, <1>7, FS_Subset, FS_CardinalityType
<1>9. k + b = Cardinality(consumers)
  <2> HIDE DEF binary
  <2>1. Cardinality(enrichment \cup binary) = Cardinality(enrichment) + Cardinality(binary) - Cardinality(enrichment \cap binary)
    BY <1>8, FS_Union
  <2>2. enrichment \cup binary = consumers /\ enrichment \cap binary = {}
    BY <1>2 DEF binary
  <2>3. Cardinality(enrichment \cap binary) = 0
    BY <2>2, FS_EmptySet
  <2>4. Cardinality(enrichment \cup binary) = Cardinality(consumers)
    BY <2>2
  <2> DEFINE c == Cardinality(consumers)
             u == Cardinality(enrichment)
             v == Cardinality(binary)
  <2>5. u \in Nat /\ v \in Nat
    BY <1>8 DEF binary
  <2>6. c = u + v - 0
    BY <2>1, <2>3, <2>4
  <2> HIDE DEF c, u, v
  <2>7. u + v = c
    BY <2>5, <2>6
  <2>8. QED
    BY <2>7 DEF u, v, c, binary
<1>10. QED
  BY <1>1, <1>5, <1>6, <1>7, <1>8, <1>9 DEF all, enrichment

(* Leverage is below 100, and grows with every import.                       *)
LEMMA LeverageOf ==
  ASSUME edges \in Graphs, NEW p \in Projects, NEW t \in Names
  PROVE  LET Leverage(E) == ComputeLeverage(E, Names, p.uses, t)
             all == Leverage(Imports)
         IN  /\ all.Enrichment \cup all.Binary = ComputeImpact(Imports, Names, t).DirectDeps
             /\ all.Enrichment \cap all.Binary = {}
             /\ all.Score < 100
             /\ \A e \in Imports : Leverage(Imports \ {e}).Score <= all.Score
<1> DEFINE Leverage(E) == ComputeLeverage(E, Names, p.uses, t)
           consumers(E) == ImportsTo(E, t)
           enrichment(E) == EnrichingTo(E, p.uses, t)
           k(E) == Cardinality(enrichment(E))
           b(E) == Cardinality(consumers(E) \ enrichment(E))
           share(E) == ((3 * k(E) + b(E)) * 100) \div (3 * Size)
<1>1. Imports \in Graphs /\ (\A n : <<n, n>> \notin Imports) /\ Size \in Nat \ {0}
  BY ImportsGraph, NamesFinite
<1>2. ASSUME NEW E \in Graphs, \A n : <<n, n>> \notin E
      PROVE  /\ Leverage(E).Enrichment \cup Leverage(E).Binary = Targets(Reversed(E), {t})
             /\ Leverage(E).Enrichment \cap Leverage(E).Binary = {}
             /\ Leverage(E).Score = Min({100, share(E)})
             /\ k(E) \in Nat /\ b(E) \in Nat /\ k(E) + b(E) <= Size - 1
             /\ IsFiniteSet(consumers(E))
  <2> DEFINE uses == p.uses
  <2> HIDE DEF uses
  <2>1. LET all == ComputeLeverage(E, Names, uses, t)
            consume == ImportsTo(E, t)
            enrich == EnrichingTo(E, uses, t)
            x == Cardinality(enrich)
            y == Cardinality(consume \ enrich)
        IN  /\ all.Enrichment \cup all.Binary = Targets(Reversed(E), {t})
            /\ all.Enrichment \cap all.Binary = {}
            /\ all.Score = Min({100, ((3 * x + y) * 100) \div (3 * Size)})
            /\ IsFiniteSet(consume)
            /\ x \in Nat /\ y \in Nat /\ x + y <= Size - 1
    BY <1>2, LeverageParts
  <2>2. QED
    BY <2>1, Zenon DEF uses
<1> USE DEF ImportsTo, EnrichingTo
<1>3. ComputeImpact(Imports, Names, t).DirectDeps = Targets(Reversed(Imports), {t})
  BY <1>1, ImpactDependents
<1>4. ASSUME NEW E \in Graphs, \A n : <<n, n>> \notin E
      PROVE  share(E) \in Nat /\ share(E) < 100 /\ Leverage(E).Score = share(E)
  <2> DEFINE x == k(E)
             y == b(E)
  <2>1. x \in Nat /\ y \in Nat /\ x + y <= Size - 1
    BY <1>2, <1>4
  <2>2. Leverage(E).Score = Min({100, ((3 * x + y) * 100) \div (3 * Size)})
    BY <1>2, <1>4
  <2> HIDE DEF x, y, Leverage
  <2> DEFINE a == (3 * x + y) * 100
             d == 3 * Size
             s == a \div d
  <2>3. a \in Nat /\ d \in Nat \ {0} /\ a < 100 * d
    BY <1>1, <2>1
  <2> HIDE DEF a, d
  <2>4. s \in Nat /\ s < 100
    BY <2>3
  <2>5. share(E) = s
    BY DEF x, y, a, d
  <2> HIDE DEF s, share
  <2>6. Leverage(E).Score = Min({100, s})
    BY <2>2 DEF s, a, d
  <2>7. Min({100, s}) = s
    BY <2>4, MinOfTwo
  <2>8. QED
    BY <2>4, <2>5, <2>6, <2>7
<1>5. ASSUME NEW e \in Imports PROVE Leverage(Imports \ {e}).Score <= Leverage(Imports).Score
  <2> DEFINE F == Imports \ {e}
  <2>1. F \in Graphs /\ \A n : <<n, n>> \notin F
    BY <1>1 DEF Graphs
  <2>2. enrichment(F) \in SUBSET enrichment(Imports)
    OBVIOUS
  <2>3. consumers(F) \ enrichment(F) \in SUBSET (consumers(Imports) \ enrichment(Imports))
    OBVIOUS
  <2>4. IsFiniteSet(consumers(Imports)) /\ IsFiniteSet(enrichment(Imports))
          /\ IsFiniteSet(consumers(Imports) \ enrichment(Imports))
    <3>1. IsFiniteSet(consumers(Imports))
      BY <1>1, <1>2
    <3>2. QED
      BY <3>1, FS_Subset
  <2> DEFINE k1 == k(F)
             b1 == b(F)
             k2 == k(Imports)
             b2 == b(Imports)
  <2>5. k1 <= k2 /\ b1 <= b2
    <3> HIDE DEF enrichment, consumers
    <3>1. QED
      BY <2>2, <2>3, <2>4, FS_Subset
  <2>6. k1 \in Nat /\ b1 \in Nat /\ k2 \in Nat /\ b2 \in Nat
    <3>1. k2 \in Nat /\ b2 \in Nat
      BY <1>1, <1>2
    <3>2. k1 \in Nat /\ b1 \in Nat
      <4> HIDE DEF F
      <4>1. QED
        BY <1>2, <2>1
    <3>3. QED
      BY <3>1, <3>2
  <2> DEFINE x == (3 * k1 + b1) * 100
             y == (3 * k2 + b2) * 100
             d == 3 * Size
  <2>7. x \in Nat /\ y \in Nat /\ x <= y /\ d \in Nat \ {0}
    <3> HIDE DEF k1, b1, k2, b2
    <3>1. QED
      BY <1>1, <2>5, <2>6
  <2>8. share(F) = x \div d /\ share(Imports) = y \div d
    OBVIOUS
  <2>9. Leverage(F).Score = share(F)
    <3> HIDE DEF F, share, Leverage
    <3>1. QED
      BY <1>4, <2>1
  <2>10. Leverage(Imports).Score = share(Imports)
    <3> HIDE DEF share, Leverage
    <3>1. QED
      BY <1>1, <1>4
  <2> HIDE DEF F, x, y, d, share, Leverage
  <2>11. x \div d <= y \div d
    BY <2>7, DivMonotone
  <2>12. QED
    BY <2>8, <2>9, <2>10, <2>11 DEF F
<1>6. Leverage(Imports).Score < 100
  <2> HIDE DEF Leverage, share
  <2>1. QED
    BY <1>1, <1>4
<1>7. /\ Leverage(Imports).Enrichment \cup Leverage(Imports).Binary = Targets(Reversed(Imports), {t})
      /\ Leverage(Imports).Enrichment \cap Leverage(Imports).Binary = {}
  BY <1>1, <1>2
<1> HIDE DEF Leverage
<1>8. QED
  BY <1>3, <1>5, <1>6, <1>7 DEF Leverage

(* Part of HealthScored, of all projects and components.                     *)
LEMMA LeverageCountsWell ==
  ASSUME edges \in Graphs
  PROVE  LeverageCounts
<1>1. 1 \in Names
  BY NamesFinite
<1>2. QED
  BY <1>1, LeverageOf DEF LeverageCounts


------------------------------------------------------------------------------
(* Clusters.                                                                 *)

(* The pairs of targets whose consumers are alike, as edges.                 *)
HighSim(E, t) ==
    {p \in {e[2] : e \in E} \X {e[2] : e \in E} :
       p[1] < p[2] /\ Similar(Consumers(E, p[1]), Consumers(E, p[2]), t)}

(* The consumers of a target are where the edges into it come from.          *)
LEMMA ConsumersOf ==
  ASSUME NEW E \in Graphs, NEW n
  PROVE  /\ \A x : x \in Consumers(E, n) <=> <<x, n>> \in E
         /\ Consumers(E, n) \in SUBSET Names /\ IsFiniteSet(Consumers(E, n))
<1>1. ASSUME NEW x PROVE x \in Consumers(E, n) <=> <<x, n>> \in E
  <2>1. ASSUME NEW e \in E, e[2] = n, x = e[1] PROVE <<x, n>> \in E
    BY <2>1, PairOfNames
  <2>2. ASSUME <<x, n>> \in E PROVE x \in Consumers(E, n)
    <3> DEFINE e == <<x, n>>
    <3>1. e \in E /\ e[1] = x /\ e[2] = n
      BY <2>2
    <3> HIDE DEF e
    <3>2. QED
      BY <3>1 DEF Consumers
  <2>3. QED
    BY <2>1, <2>2 DEF Consumers
<1>2. Consumers(E, n) \in SUBSET Names
  <2>1. ASSUME NEW x \in Consumers(E, n) PROVE x \in Names
    <3>1. <<x, n>> \in E
      BY <1>1, <2>1
    <3>2. QED
      BY <3>1 DEF Graphs
  <2>2. QED
    BY <2>1
<1>3. QED
  BY <1>1, <1>2, NamesFinite, FS_Subset

(* The clusters are the groups of those edges.                               *)
LEMMA ClustersAreGroups ==
  ASSUME NEW E \in Graphs, NEW t
  PROVE  /\ HighSim(E, t) \in Graphs
         /\ Nodes(HighSim(E, t)) \subseteq Names
         /\ DetectCohesionClusters(E, t)
              = {Group(Undirected(HighSim(E, t)), n) : n \in Nodes(HighSim(E, t))}
<1> DEFINE H == HighSim(E, t)
           U == Undirected(H)
<1>1. H \in Graphs
  BY PairOfNames DEF HighSim, Graphs
<1>2. Nodes(H) \subseteq Names
  BY <1>1, GraphFinite
<1>3. DetectCohesionClusters(E, t) = ConnectedComponents(H)
  BY DEF DetectCohesionClusters, HighSim
<1> HIDE DEF H
<1>4. U \in Graphs /\ Nodes(U) = Nodes(H)
  BY <1>1, UndirectedGraph
<1>5. ConnectedComponents(H) = {BFS({n}, U, Nodes(H), {}) : n \in Nodes(H)}
  BY DEF ConnectedComponents
<1> HIDE DEF U
<1>6. \A n : BFS({n}, U, Nodes(H), {}) = Group(U, n)
  BY <1>4, BFSGroup
<1>7. ConnectedComponents(H) = {Group(U, n) : n \in Nodes(H)}
  BY <1>5, <1>6
<1>8. QED
  BY <1>1, <1>2, <1>3, <1>7 DEF H, U

(* Similarity above a limit is above a lower one; at the full limit it is    *)
(* equality.                                                                 *)
LEMMA SimilarLess ==
  ASSUME NEW a, NEW b, IsFiniteSet(a), IsFiniteSet(b), NEW t \in Nat
  PROVE  /\ Similar(a, b, t + 1) => Similar(a, b, t)
         /\ Similar(a, b, 10) <=> a = b /\ a # {}
         /\ Similar(a, b, t + 1) => a \cap b # {}
<1> DEFINE u == Cardinality(a \cup b)
           i == Cardinality(a \cap b)
<1>1. IsFiniteSet(a \cup b) /\ IsFiniteSet(a \cap b) /\ u \in Nat /\ i \in Nat
  BY FS_Union, FS_Intersection, FS_CardinalityType
<1>2. Similar(a, b, t + 1) <=> u > 0 /\ 10 * i >= (t + 1) * u
  BY DEF Similar
<1>3. Similar(a, b, t) <=> u > 0 /\ 10 * i >= t * u
  BY DEF Similar
<1>4. Similar(a, b, 10) <=> u > 0 /\ 10 * i >= 10 * u
  BY DEF Similar
<1>5. u = 0 <=> a \cup b = {}
  BY <1>1, FS_EmptySet
<1>6. i = 0 <=> a \cap b = {}
  BY <1>1, FS_EmptySet
<1>7. a \cap b \in SUBSET (a \cup b) /\ (i <= u) /\ (i = u => a \cap b = a \cup b)
  BY <1>1, FS_Subset
<1> HIDE DEF u, i
<1>8. Similar(a, b, t + 1) => Similar(a, b, t)
  <2>1. (t + 1) * u = t * u + u /\ t * u \in Nat
    BY <1>1
  <2> DEFINE m == t * u
  <2> HIDE DEF m
  <2>2. (t + 1) * u = m + u /\ m \in Nat
    BY <2>1 DEF m
  <2>3. Similar(a, b, t) <=> u > 0 /\ 10 * i >= m
    BY <1>3 DEF m
  <2>4. QED
    BY <1>1, <1>2, <2>2, <2>3
<1>9. Similar(a, b, t + 1) => i # 0
  <2>1. (t + 1) * u = t * u + u /\ t * u \in Nat
    BY <1>1
  <2> DEFINE m == t * u
  <2> HIDE DEF m
  <2>2. (t + 1) * u = m + u /\ m \in Nat
    BY <2>1 DEF m
  <2>3. QED
    BY <1>1, <1>2, <2>2
<1>10. ASSUME Similar(a, b, 10) PROVE a = b /\ a # {}
  <2>1. u > 0 /\ i >= u
    BY <1>1, <1>4, <1>10
  <2>2. i = u
    BY <1>1, <1>7, <2>1
  <2>3. a \cap b = a \cup b /\ a \cup b # {}
    BY <1>1, <1>5, <1>7, <2>1, <2>2
  <2>4. QED
    BY <2>3
<1>11. ASSUME a = b, a # {} PROVE Similar(a, b, 10)
  <2>1. a \cup b = a \cap b /\ a \cup b # {}
    BY <1>11
  <2>2. u = i /\ u # 0
    BY <1>5, <2>1 DEF u, i
  <2>3. QED
    BY <1>1, <1>4, <2>2
<1>12. QED
  BY <1>6, <1>8, <1>9, <1>10, <1>11

(* Between which targets there is such an edge, and one both ways.           *)
LEMMA SimilarPairs ==
  ASSUME NEW E \in Graphs, NEW t
  PROVE  /\ \A a, b : <<a, b>> \in HighSim(E, t) <=>
              /\ \E x : <<x, a>> \in E
              /\ \E x : <<x, b>> \in E
              /\ a < b /\ Similar(Consumers(E, a), Consumers(E, b), t)
         /\ \A a, b : <<a, b>> \in Undirected(HighSim(E, t)) =>
              /\ a \in Names /\ b \in Names
              /\ (\E x : <<x, a>> \in E) /\ (\E x : <<x, b>> \in E)
              /\ Similar(Consumers(E, a), Consumers(E, b), t) \/ Similar(Consumers(E, b), Consumers(E, a), t)
<1> DEFINE imported == {e[2] : e \in E}
<1>1. ASSUME NEW n PROVE n \in imported <=> \E x : <<x, n>> \in E
  <2>1. ASSUME NEW e \in E, n = e[2] PROVE \E x : <<x, n>> \in E
    <3>1. e = <<e[1], n>>
      BY <2>1, PairOfNames
    <3>2. QED
      BY <3>1
  <2>2. ASSUME NEW x, <<x, n>> \in E PROVE n \in imported
    <3> DEFINE e == <<x, n>>
    <3>1. e \in E /\ e[2] = n
      BY <2>2
    <3> HIDE DEF e
    <3>2. QED
      BY <3>1
  <2>3. QED
    BY <2>1, <2>2
<1>2. ASSUME NEW a, NEW b
      PROVE  <<a, b>> \in HighSim(E, t) <=>
               a \in imported /\ b \in imported /\ a < b /\ Similar(Consumers(E, a), Consumers(E, b), t)
  <2> DEFINE q == <<a, b>>
  <2>1. q[1] = a /\ q[2] = b /\ (q \in imported \X imported <=> a \in imported /\ b \in imported)
    OBVIOUS
  <2>2. HighSim(E, t) = {p \in imported \X imported :
                           p[1] < p[2] /\ Similar(Consumers(E, p[1]), Consumers(E, p[2]), t)}
    BY DEF HighSim
  <2> HIDE DEF q, imported
  <2>3. q \in HighSim(E, t) <=> q \in imported \X imported /\ q[1] < q[2] /\ Similar(Consumers(E, q[1]), Consumers(E, q[2]), t)
    BY <2>2
  <2>4. QED
    BY <2>1, <2>3 DEF q
<1> HIDE DEF imported
<1>3. \A a, b : <<a, b>> \in HighSim(E, t) <=>
        (\E x : <<x, a>> \in E) /\ (\E x : <<x, b>> \in E) /\ a < b /\ Similar(Consumers(E, a), Consumers(E, b), t)
  BY <1>1, <1>2
<1>4. ASSUME NEW a, NEW b, <<a, b>> \in Undirected(HighSim(E, t))
      PROVE  /\ a \in Names /\ b \in Names
             /\ (\E x : <<x, a>> \in E) /\ (\E x : <<x, b>> \in E)
             /\ Similar(Consumers(E, a), Consumers(E, b), t) \/ Similar(Consumers(E, b), Consumers(E, a), t)
  <2>1. HighSim(E, t) \in Graphs
    BY ClustersAreGroups
  <2>2. <<a, b>> \in HighSim(E, t) \/ <<b, a>> \in HighSim(E, t)
    BY <1>4, <2>1, UndirectedGraph
  <2>3. a \in Names /\ b \in Names
    BY <2>1, <2>2 DEF Graphs
  <2>4. QED
    BY <1>3, <2>2, <2>3
<1>5. QED
  BY <1>3, <1>4

(* No two clusters share a target.                                           *)
LEMMA ClustersApart ==
  ASSUME NEW E \in Graphs, NEW t,
         NEW c \in DetectCohesionClusters(E, t), NEW d \in DetectCohesionClusters(E, t)
  PROVE  c = d \/ c \cap d = {}
<1> DEFINE H == HighSim(E, t)
           U == Undirected(H)
<1>1. H \in Graphs /\ Nodes(H) \subseteq Names /\ DetectCohesionClusters(E, t) = {Group(U, n) : n \in Nodes(H)}
  BY ClustersAreGroups
<1>2. PICK a \in Nodes(H), b \in Nodes(H) : c = Group(U, a) /\ d = Group(U, b)
  BY <1>1
<1>3. a \in Names /\ b \in Names
  BY <1>1
<1> HIDE DEF H
<1>4. /\ b \in Group(U, a) => Group(U, a) = Group(U, b)
      /\ b \notin Group(U, a) => Group(U, a) \cap Group(U, b) = {}
  BY <1>1, <1>3, GroupsApart
<1>5. QED
  BY <1>2, <1>4

(* A lower limit merges clusters and splits none.                            *)
LEMMA ClustersMerge ==
  ASSUME NEW E \in Graphs, NEW t \in Nat, NEW c \in DetectCohesionClusters(E, t + 1)
  PROVE  \E d \in DetectCohesionClusters(E, t) : c \subseteq d
<1> DEFINE H1 == HighSim(E, t + 1)
           H == HighSim(E, t)
           U1 == Undirected(H1)
           U == Undirected(H)
<1>1. H \in Graphs /\ Nodes(H) \subseteq Names /\ DetectCohesionClusters(E, t) = {Group(U, n) : n \in Nodes(H)}
  BY ClustersAreGroups
<1>2. H1 \in Graphs /\ DetectCohesionClusters(E, t + 1) = {Group(U1, n) : n \in Nodes(H1)}
  BY ClustersAreGroups
<1>3. H1 \subseteq H
  <2>1. ASSUME NEW a, NEW b, <<a, b>> \in H1 PROVE <<a, b>> \in H
    <3>1. (\E x : <<x, a>> \in E) /\ (\E x : <<x, b>> \in E) /\ a < b
            /\ Similar(Consumers(E, a), Consumers(E, b), t + 1)
      BY <2>1, SimilarPairs
    <3>2. IsFiniteSet(Consumers(E, a)) /\ IsFiniteSet(Consumers(E, b))
      BY ConsumersOf
    <3>3. Similar(Consumers(E, a), Consumers(E, b), t)
      BY <3>1, <3>2, SimilarLess
    <3>4. QED
      BY <3>1, <3>3, SimilarPairs
  <2> HIDE DEF H, H1
  <2>2. QED
    BY <1>2, <2>1, PairOfNames
<1> HIDE DEF H, H1
<1>4. U1 \in Graphs /\ U \in Graphs /\ U1 \subseteq U /\ Nodes(H1) \subseteq Nodes(H)
  <2>1. U1 \in Graphs /\ U \in Graphs
    BY <1>1, <1>2, UndirectedGraph
  <2>2. U1 \subseteq U
    BY <1>3 DEF Undirected, Reversed
  <2>3. Nodes(H1) \subseteq Nodes(H)
    BY <1>3 DEF Nodes
  <2>4. QED
    BY <2>1, <2>2, <2>3
<1> HIDE DEF U, U1
<1>5. Linked(U1) \subseteq Linked(U)
  BY <1>4, LinkedMonotone
<1>6. PICK n \in Nodes(H1) : c = Group(U1, n)
  BY <1>2
<1>7. Group(U1, n) \subseteq Group(U, n)
  BY <1>5 DEF Group
<1>8. Group(U, n) \in DetectCohesionClusters(E, t)
  BY <1>1, <1>4
<1>9. QED
  BY <1>6, <1>7, <1>8

(* At the full limit two are in one cluster when their consumers are the     *)
(* same.                                                                     *)
LEMMA ClustersOfAlike ==
  ASSUME NEW E \in Graphs, NEW a \in Nodes(E), NEW b \in Nodes(E), a # b, Consumers(E, a) # {}
  PROVE  Consumers(E, a) = Consumers(E, b)
           <=> \E c \in DetectCohesionClusters(E, 10) : {a, b} \subseteq c
<1> DEFINE H == HighSim(E, 10)
           U == Undirected(H)
<1>1. H \in Graphs /\ Nodes(H) \subseteq Names /\ DetectCohesionClusters(E, 10) = {Group(U, n) : n \in Nodes(H)}
  BY ClustersAreGroups
<1>2. \A m, n : Similar(Consumers(E, m), Consumers(E, n), 10) <=> Consumers(E, m) = Consumers(E, n) /\ Consumers(E, m) # {}
  <2>1. \A n : IsFiniteSet(Consumers(E, n))
    BY ConsumersOf
  <2>2. 1 \in Nat
    OBVIOUS
  <2>3. QED
    BY <2>1, <2>2, SimilarLess
<1>3. a \in Names /\ b \in Names /\ a \in Int /\ b \in Int
  BY GraphFinite, NamesFinite
<1>4. ASSUME Consumers(E, a) = Consumers(E, b)
      PROVE  \E c \in DetectCohesionClusters(E, 10) : {a, b} \subseteq c
  <2>1. (\E x : <<x, a>> \in E) /\ (\E x : <<x, b>> \in E)
    BY <1>4, ConsumersOf
  <2>2. /\ Similar(Consumers(E, a), Consumers(E, b), 10)
        /\ Similar(Consumers(E, b), Consumers(E, a), 10)
    BY <1>2, <1>4
  <2>3. <<a, b>> \in H \/ <<b, a>> \in H
    <3>1. a < b \/ b < a
      BY <1>3
    <3>2. QED
      BY <2>1, <2>2, <3>1, SimilarPairs
  <2> HIDE DEF H
  <2>4. <<a, b>> \in U /\ U \in Graphs
    BY <1>1, <2>3, UndirectedGraph
  <2>5. a \in Nodes(H)
    BY <2>3 DEF Nodes
  <2> HIDE DEF U
  <2>6. <<a, b>> \in Linked(U)
    BY <2>4, LinkedClosed
  <2>7. a \in Group(U, a) /\ b \in Group(U, a)
    BY <1>3, <2>6 DEF Group
  <2>8. QED
    BY <1>1, <2>5, <2>7
<1>5. ASSUME NEW c \in DetectCohesionClusters(E, 10), a \in c, b \in c
      PROVE  Consumers(E, a) = Consumers(E, b)
  <2>1. PICK n \in Nodes(H) : c = Group(U, n)
    BY <1>1
  <2>2. n \in Names
    BY <1>1
  <2> DEFINE C == {m \in Names : Consumers(E, m) = Consumers(E, n)}
  <2>3. \A x, y : <<x, y>> \in U => x \in Names /\ y \in Names /\ Consumers(E, x) = Consumers(E, y)
    <3>1. ASSUME NEW x, NEW y, <<x, y>> \in U
          PROVE  x \in Names /\ y \in Names /\ Consumers(E, x) = Consumers(E, y)
      <4>1. /\ x \in Names /\ y \in Names
            /\ Similar(Consumers(E, x), Consumers(E, y), 10) \/ Similar(Consumers(E, y), Consumers(E, x), 10)
        BY <3>1, SimilarPairs
      <4>2. QED
        BY <1>2, <4>1
    <3>2. QED
      BY <3>1
  <2>4. U \in Graphs
    BY <1>1, UndirectedGraph
  <2> HIDE DEF H, U
  <2>5. ASSUME NEW y \in Targets(U, {n}) PROVE y \in C
    <3>1. <<n, y>> \in U
      BY <2>4, <2>5, TargetsOfOne
    <3>2. QED
      BY <2>3, <3>1
  <2>6. ASSUME NEW y \in Targets(U, C) PROVE y \in C
    <3>1. PICK x \in C : <<x, y>> \in U
      BY <2>4, <2>6, TargetsOf
    <3>2. QED
      BY <2>3, <3>1
  <2>7. ASSUME NEW m \in c PROVE Consumers(E, m) = Consumers(E, n)
    <3>1. CASE m = n
      BY <3>1
    <3>2. CASE m # n
      <4>1. <<n, m>> \in Linked(U)
        BY <2>1, <3>2 DEF Group
      <4>2. Targets(U, {n}) \subseteq C /\ Targets(U, C) \subseteq C
        BY <2>5, <2>6
      <4> HIDE DEF C
      <4>3. m \in C
        BY <2>2, <2>4, <4>1, <4>2, LinkedClosed
      <4>4. QED
        BY <4>3 DEF C
    <3>3. QED
      BY <3>1, <3>2
  <2>8. QED
    BY <1>5, <2>7
<1>6. QED
  BY <1>4, <1>5

(* Part of HealthScored: clusters are apart, nest, and hold what is alike.   *)
LEMMA ClustersNestWell ==
  ASSUME edges \in Graphs
  PROVE  ClustersNest
<1> DEFINE Clusters(t) == DetectCohesionClusters(Imports, t)
<1>1. Imports \in Graphs
  BY ImportsGraph
<1>2. \A t \in 1..10 : \A c, d \in Clusters(t) : c = d \/ c \cap d = {}
  BY <1>1, ClustersApart
<1>3. \A t \in 1..9 : \A c \in Clusters(t + 1) : \E d \in Clusters(t) : c \subseteq d
  <2>1. \A t \in 1..9 : t \in Nat
    OBVIOUS
  <2>2. QED
    BY <1>1, <2>1, ClustersMerge
<1>4. \A a, b \in Nodes(Imports) : a # b /\ Consumers(Imports, a) # {} =>
        (Consumers(Imports, a) = Consumers(Imports, b) <=> \E c \in Clusters(10) : {a, b} \subseteq c)
  BY <1>1, ClustersOfAlike
<1>5. ASSUME NEW p \in Projects
      PROVE  LET consolidation == ComputeConsolidation(Imports, p.services)
             IN  /\ consolidation.Clusters = Clusters(7)
                 /\ \A n \in UNION Clusters(7) : p.services[n].symbols > 0 =>
                      consolidation.Independence[n][1] > 0
  <2> DEFINE consolidation == ComputeConsolidation(Imports, p.services)
             H == HighSim(Imports, 7)
             U == Undirected(H)
  <2>1. DOMAIN p.services = Names /\ \A n \in Names : p.services[n].symbols \in Nat
    BY HealthReportsAssumption
  <2>2. /\ consolidation.Clusters = Clusters(7)
        /\ \A n \in Names : consolidation.Independence[n][1] = FanIn(Imports, n) * p.services[n].symbols
    BY <2>1 DEF ComputeConsolidation
  <2>3. H \in Graphs /\ Nodes(H) \subseteq Names /\ Clusters(7) = {Group(U, m) : m \in Nodes(H)}
    BY <1>1, ClustersAreGroups
  <2>4. U \in Graphs /\ Nodes(U) = Nodes(H)
    BY <2>3, UndirectedGraph
  <2>5. \A x, y : <<x, y>> \in U => (\E z : <<z, x>> \in Imports) /\ (\E z : <<z, y>> \in Imports)
    BY <1>1, SimilarPairs
  <2>6. ASSUME NEW n \in UNION Clusters(7) PROVE n \in Names /\ \E z : <<z, n>> \in Imports
    <3>1. PICK m \in Nodes(H) : n \in Group(U, m)
      BY <2>3
    <3>2. m \in Names /\ n \in Names
      BY <2>3, <3>1 DEF Group
    <3> HIDE DEF H, U
    <3>3. CASE n = m
      <4>1. n \in Nodes(U)
        BY <2>4, <3>1, <3>3
      <4>2. PICK e \in U : n = e[1] \/ n = e[2]
        BY <4>1 DEF Nodes
      <4>3. e = <<e[1], e[2]>>
        BY <2>4, PairOfNames
      <4>4. (\E z : <<z, e[1]>> \in Imports) /\ (\E z : <<z, e[2]>> \in Imports)
        <5>1. <<e[1], e[2]>> \in U
          BY <4>2, <4>3
        <5>2. QED
          BY <2>5, <5>1
      <4>5. QED
        BY <3>2, <4>2, <4>4
    <3>4. CASE n # m
      <4>1. <<m, n>> \in Linked(U)
        BY <3>1, <3>4 DEF Group
      <4>2. \E y \in Names : <<y, n>> \in U
        BY <2>4, <3>2, <4>1, LinkedLast
      <4>3. QED
        BY <2>5, <3>2, <4>2
    <3>5. QED
      BY <3>3, <3>4
  <2>7. ASSUME NEW n \in UNION Clusters(7), p.services[n].symbols > 0
        PROVE  consolidation.Independence[n][1] > 0
    <3>1. PICK z : <<z, n>> \in Imports
      BY <2>6
    <3>2. n \in Names
      BY <2>6
    <3> DEFINE into == {e \in Imports : e[2] = n}
               e0 == <<z, n>>
    <3>3. e0 \in into
      BY <3>1
    <3>4. IsFiniteSet(into)
      BY <1>1, GraphFinite, FS_Subset
    <3> HIDE DEF into, e0
    <3>5. Cardinality(into) # 0 /\ Cardinality(into) \in Nat
      BY <3>3, <3>4, FS_EmptySet, FS_CardinalityType
    <3>6. FanIn(Imports, n) \in Nat /\ FanIn(Imports, n) # 0
      BY <3>5 DEF FanIn, into
    <3> DEFINE f == FanIn(Imports, n)
               s == p.services[n].symbols
    <3>7. f \in Nat /\ f # 0 /\ s \in Nat /\ s # 0
      BY <2>1, <2>7, <3>2, <3>6
    <3>8. consolidation.Independence[n][1] = f * s
      BY <2>2, <3>2
    <3> HIDE DEF f, s, consolidation
    <3>9. f * s > 0
      BY <3>7
    <3>10. QED
      BY <3>8, <3>9
  <2>8. QED
    BY <2>2, <2>7
<1>6. QED
  BY <1>2, <1>3, <1>4, <1>5 DEF ClustersNest

(* However a graph of imports grows, risk never falls along an import,       *)
(* leverage counts the importers and clusters nest.                          *)
THEOREM HealthScoredHolds == Spec => []HealthScored
<1>1. edges \in Graphs => HealthScored
  BY RiskMonotoneWell, LeverageCountsWell, ClustersNestWell DEF HealthScored
<1>2. QED
  BY <1>1, GraphTypeOK, PTL

------------------------------------------------------------------------------
(* What is near in the mesh.                                                 *)

(* The symbols at most k edges from a symbol, those before the last hop,     *)
(* and the edge between.                                                     *)
Near(A, start, k) == BfsAllVisited(A, start)[k]
Nearer(A, start, k) == IF k = 0 THEN {} ELSE Near(A, start, k - 1)
Edge(A, start, k) == Near(A, start, k) \ Nearer(A, start, k)

(* A hop more adds the targets of the symbols met.                           *)
LEMMA NearRounds ==
  ASSUME NEW A \in Graphs, NEW start \in Names
  PROVE  /\ Near(A, start, 0) = {start}
         /\ \A k \in Nat : Near(A, start, k + 1) = Near(A, start, k) \cup Targets(A, Near(A, start, k))
         /\ \A k \in Nat : Near(A, start, k) \subseteq Names /\ start \in Near(A, start, k)
         /\ \A k \in Nat : Near(A, start, k) \subseteq Near(A, start, Cardinality(Nodes(A)))
<1> DEFINE f == BfsAllVisited(A, start)
           n == Cardinality(Nodes(A))
<1>1. Searches(f, A, {start}, Nodes(A))
  BY BfsAllSearches
<1>2. \A X : Targets(A, X) \subseteq Nodes(A)
  BY DEF Targets, Nodes
<1>3. f[0] = {start} /\ \A k \in Nat : f[k + 1] = f[k] \cup Targets(A, f[k])
  BY <1>1, <1>2 DEF Searches
<1>4. n \in Nat /\ BfsAll(A, start) = f[n]
  BY GraphFinite, FS_CardinalityType DEF BfsAll, BfsAllVisited
<1>5. Least(f[n], A, {start}, Nodes(A))
  BY <1>4, GraphFinite, BfsAllLeast
<1> HIDE DEF f, n
<1> DEFINE S == {k \in Nat : f[k] \subseteq Names /\ start \in f[k] /\ f[k] \subseteq f[n]}
<1>6. 0 \in S
  BY <1>3, <1>5 DEF Least
<1>7. ASSUME NEW k \in Nat, k \in S PROVE k + 1 \in S
  <2>1. Targets(A, f[k]) \subseteq Names
    BY TargetsOf
  <2>2. Targets(A, f[k]) \subseteq Targets(A, f[n])
    BY <1>7 DEF Targets
  <2>3. Targets(A, f[n]) \subseteq f[n]
    BY <1>2, <1>5 DEF Least
  <2>4. QED
    BY <1>3, <1>7, <2>1, <2>2, <2>3
<1> HIDE DEF S
<1>8. Nat \subseteq S
  BY <1>6, <1>7, Induction
<1>9. QED
  BY <1>3, <1>8 DEF S, Near, f, n

(* What is met next is met from the last hop.                                *)
LEMMA EdgeLeads ==
  ASSUME NEW A \in Graphs, NEW start \in Names, NEW k \in Nat
  PROVE  /\ Edge(A, start, 0) = {start}
         /\ Nearer(A, start, k) \subseteq Near(A, start, k)
         /\ Nearer(A, start, k + 1) = Near(A, start, k)
         /\ Targets(A, Nearer(A, start, k)) \subseteq Near(A, start, k)
         /\ Targets(A, Edge(A, start, k)) \ Near(A, start, k) = Edge(A, start, k + 1)
<1>1. k + 1 \in Nat /\ k + 1 # 0 /\ (k + 1) - 1 = k
  OBVIOUS
<1>2. Nearer(A, start, k + 1) = Near(A, start, k)
  BY <1>1 DEF Nearer
<1>3. /\ Nearer(A, start, k) \subseteq Near(A, start, k)
      /\ Targets(A, Nearer(A, start, k)) \subseteq Near(A, start, k)
  <2>1. CASE k = 0
    <3>1. Nearer(A, start, k) = {} /\ Targets(A, {}) = {}
      BY <2>1 DEF Nearer, Targets
    <3>2. QED
      BY <3>1
  <2>2. CASE k # 0
    <3>1. k - 1 \in Nat /\ (k - 1) + 1 = k
      BY <2>2
    <3>2. Near(A, start, k) = Near(A, start, k - 1) \cup Targets(A, Near(A, start, k - 1))
      BY <3>1, NearRounds
    <3>3. QED
      BY <2>2, <3>2 DEF Nearer
  <2>3. QED
    BY <2>1, <2>2
<1>4. Near(A, start, k + 1) = Near(A, start, k) \cup Targets(A, Near(A, start, k))
  BY NearRounds
<1>5. \A X, Y : Targets(A, X \cup Y) = Targets(A, X) \cup Targets(A, Y)
  BY DEF Targets
<1>6. Near(A, start, k) = Nearer(A, start, k) \cup Edge(A, start, k)
  BY <1>3 DEF Edge
<1>7. Targets(A, Near(A, start, k)) = Targets(A, Nearer(A, start, k)) \cup Targets(A, Edge(A, start, k))
  BY <1>5, <1>6
<1>8. Edge(A, start, k + 1) = Near(A, start, k + 1) \ Near(A, start, k)
  BY <1>2 DEF Edge
<1>9. Edge(A, start, 0) = {start}
  BY NearRounds DEF Edge, Nearer
<1>10. QED
  BY <1>2, <1>3, <1>4, <1>7, <1>8, <1>9

(* Neighborhood finds them.                                                  *)
LEMMA NeighborhoodNear ==
  ASSUME NEW mesh, NEW start, NEW k
  PROVE  Neighborhood(mesh, start, k) = Near(Undirected(DOMAIN mesh), start, k)
  BY DEF Neighborhood, Near, BfsAllVisited

(* The search that Distance makes, with its frontier.                        *)
SearchNext(A, w) ==
    LET new == Targets(A, w.frontier) \ w.visited
    IN  [visited |-> w.visited \cup new, frontier |-> new]
SearchStart(start) == [visited |-> {start}, frontier |-> {start}]

SearchOf(A, start) ==
    CHOOSE search : search = [d \in Nat |->
          IF d = 0 THEN [visited |-> {start}, frontier |-> {start}]
          ELSE LET w == search[d - 1]
                   new == Targets(A, w.frontier) \ w.visited
               IN  [visited |-> w.visited \cup new, frontier |-> new]]

(* Its rounds hold the symbols near and the edge of them.                    *)
LEMMA SearchRounds ==
  ASSUME NEW A \in Graphs, NEW start \in Names
  PROVE  \A d \in Nat : SearchOf(A, start)[d].frontier = Edge(A, start, d)
<1> DEFINE At0(d) == [visited |-> Near(A, start, d), frontier |-> Edge(A, start, d)]
           g == [d \in Nat |-> At0(d)]
           Is(f) == f = [d \in Nat |-> IF d = 0 THEN SearchStart(start) ELSE SearchNext(A, f[d - 1])]
           search == SearchOf(A, start)
<1>1. At0(0) = SearchStart(start)
  BY NearRounds, EdgeLeads DEF SearchStart
<1>2. ASSUME NEW d \in Nat PROVE At0(d + 1) = SearchNext(A, At0(d))
  <2>1. Targets(A, Edge(A, start, d)) \ Near(A, start, d) = Edge(A, start, d + 1)
    BY EdgeLeads
  <2>2. Near(A, start, d + 1) = Near(A, start, d) \cup Edge(A, start, d + 1)
    <3>1. d + 1 \in Nat
      OBVIOUS
    <3>2. Nearer(A, start, d + 1) = Near(A, start, d) /\ Near(A, start, d) \subseteq Near(A, start, d + 1)
      BY <3>1, EdgeLeads, NearRounds
    <3>3. QED
      BY <3>2 DEF Edge
  <2>3. QED
    BY <2>1, <2>2 DEF SearchNext
<1> HIDE DEF At0
<1>3. \A d \in Nat : d # 0 => d - 1 \in Nat /\ (d - 1) + 1 = d
  OBVIOUS
<1>4. Is(g)
  <2>1. \A d \in Nat : g[d] = IF d = 0 THEN SearchStart(start) ELSE SearchNext(A, g[d - 1])
    BY <1>1, <1>2, <1>3
  <2>2. QED
    BY <2>1
<1>5. Is(search)
  <2>1. \E f : Is(f)
    BY <1>4
  <2>2. QED
    BY <2>1 DEF SearchOf, SearchStart, SearchNext
<1> HIDE DEF search, g
<1> DEFINE S == {d \in Nat : search[d] = At0(d)}
<1>6. 0 \in S
  BY <1>1, <1>5
<1>7. ASSUME NEW d \in Nat, d \in S PROVE d + 1 \in S
  <2>1. d + 1 \in Nat /\ d + 1 # 0 /\ (d + 1) - 1 = d
    OBVIOUS
  <2>2. search[d + 1] = SearchNext(A, search[d])
    BY <1>5, <2>1
  <2>3. QED
    BY <1>2, <1>7, <2>2
<1> HIDE DEF S
<1>8. Nat \subseteq S
  BY <1>6, <1>7, Induction
<1>9. \A d \in Nat : At0(d).frontier = Edge(A, start, d)
  BY DEF At0
<1>10. \A d \in Nat : search[d] = At0(d)
  BY <1>8 DEF S
<1>11. \A d \in Nat : search[d].frontier = Edge(A, start, d)
  BY <1>9, <1>10
<1>12. QED
  BY <1>11 DEF search

(* A symbol is as near as so many hops exactly if it is in their             *)
(* neighborhood.                                                             *)
LEMMA DistanceNear ==
  ASSUME NEW mesh, DOMAIN mesh \in Graphs, NEW start \in Names, NEW hops \in Nat, NEW n \in Names
  PROVE  n \in Neighborhood(mesh, start, hops) <=> Distance(mesh, start, n) \in 0..hops
<1> DEFINE A == Undirected(DOMAIN mesh)
           search == SearchOf(A, start)
           size == Cardinality(Nodes(A))
           seen == {d \in 1..size : n \in Targets(A, search[d - 1].frontier)}
<1>0. Neighborhood(mesh, start, hops) = Near(A, start, hops)
  BY NeighborhoodNear
<1>1. A \in Graphs
  BY UndirectedGraph
<1>2. size \in Nat
  BY <1>1, GraphFinite, FS_CardinalityType
<1>3. Distance(mesh, start, n) = IF start = n THEN 0 ELSE IF seen = {} THEN -1 ELSE Min(seen)
  BY DEF Distance, SearchOf
<1>4. \A d \in 1..size : d - 1 \in Nat /\ (d - 1) + 1 = d /\ search[d - 1].frontier = Edge(A, start, d - 1)
  <2>2. \A d \in Nat : search[d].frontier = Edge(A, start, d)
    BY <1>1, SearchRounds
  <2> HIDE DEF A, search, size
  <2>3. \A d \in 1..size : d - 1 \in Nat /\ (d - 1) + 1 = d
    BY <1>2
  <2>4. QED
    BY <2>2, <2>3
<1>5. seen \in SUBSET Nat /\ \A d \in seen : d \in 1..size
  BY <1>2
<1>6. \A k \in Nat : Near(A, start, k) \subseteq Near(A, start, k + 1)
  BY <1>1, NearRounds
<1> HIDE DEF A, search, size
<1>7. CASE start = n
  BY <1>0, <1>1, <1>3, <1>7, NearRounds
<1>8. CASE start # n
  <2>1. ASSUME n \in Near(A, start, hops) PROVE Distance(mesh, start, n) \in 0..hops
    <3> DEFINE K == {k \in Nat : n \in Near(A, start, k)}
    <3>1. PICK k \in K : \A j \in K : k <= j
      <4>1. K # {} /\ K \in SUBSET Nat
        BY <2>1
      <4> HIDE DEF K
      <4>2. QED
        BY <4>1, LeastOf
    <3>2. k \in Nat /\ k <= hops /\ n \in Near(A, start, k) /\ k # 0
      BY <1>1, <1>8, <2>1, <3>1, NearRounds
    <3>3. k <= size
      <4>1. n \in Near(A, start, size)
        BY <1>1, <3>2, NearRounds DEF size
      <4>2. QED
        BY <1>2, <3>1, <4>1
    <3>4. k - 1 \in Nat /\ (k - 1) + 1 = k /\ n \notin Near(A, start, k - 1)
      BY <3>1, <3>2
    <3>5. n \in Targets(A, Edge(A, start, k - 1))
      <4>1. Edge(A, start, (k - 1) + 1) = Targets(A, Edge(A, start, k - 1)) \ Near(A, start, k - 1)
        BY <1>1, <3>4, EdgeLeads
      <4>2. Nearer(A, start, (k - 1) + 1) = Near(A, start, k - 1)
        BY <1>1, <3>4, EdgeLeads
      <4>3. n \in Edge(A, start, k)
        BY <3>2, <3>4, <4>2 DEF Edge
      <4>4. QED
        BY <3>4, <4>1, <4>3
    <3>6. k \in 1..size
      BY <1>2, <3>2, <3>3
    <3>7. k \in seen
      BY <1>4, <3>5, <3>6
    <3> HIDE DEF seen, K
    <3>8. Min(seen) \in Nat /\ Min(seen) <= k
      BY <1>5, <3>7, MinOf
    <3>9. Distance(mesh, start, n) = Min(seen)
      BY <1>3, <1>8, <3>7
    <3>10. QED
      BY <3>2, <3>8, <3>9
  <2>2. ASSUME Distance(mesh, start, n) \in 0..hops PROVE n \in Near(A, start, hops)
    <3> DEFINE d == Min(seen)
    <3>1. seen # {} /\ Distance(mesh, start, n) = d
      BY <1>3, <1>8, <2>2
    <3>2. d \in seen
      BY <1>5, <3>1, MinOf
    <3>3. d <= hops /\ d \in 1..size /\ d \in Nat /\ d - 1 \in Nat /\ (d - 1) + 1 = d
      BY <1>2, <1>4, <1>5, <2>2, <3>1, <3>2
    <3>4. n \in Targets(A, Edge(A, start, d - 1))
      BY <1>4, <3>2
    <3> HIDE DEF seen, d
    <3>5. n \in Near(A, start, d)
      <4>1. Edge(A, start, d - 1) \subseteq Near(A, start, d - 1)
        BY DEF Edge
      <4>2. n \in Targets(A, Near(A, start, d - 1))
        BY <3>4, <4>1 DEF Targets
      <4>3. n \in Near(A, start, (d - 1) + 1)
        BY <1>1, <3>3, <4>2, NearRounds
      <4>4. QED
        BY <3>3, <4>3
    <3> DEFINE S == {i \in Nat : n \in Near(A, start, d + i)}
    <3>6. 0 \in S
      BY <3>3, <3>5
    <3>7. ASSUME NEW i \in Nat, i \in S PROVE i + 1 \in S
      <4>1. d + i \in Nat /\ (d + i) + 1 = d + (i + 1) /\ i + 1 \in Nat
        BY <3>3
      <4>2. n \in Near(A, start, (d + i) + 1)
        BY <1>6, <3>7, <4>1
      <4>3. QED
        BY <4>1, <4>2
    <3> HIDE DEF S
    <3>8. Nat \subseteq S
      BY <3>6, <3>7, Induction
    <3>9. hops - d \in Nat /\ d + (hops - d) = hops
      BY <3>3
    <3>10. QED
      BY <3>8, <3>9 DEF S
  <2>3. QED
    BY <1>0, <2>1, <2>2 DEF A
<1>9. QED
  BY <1>7, <1>8

(* Max of two sets joined.                                                   *)
LEMMA MaxJoined ==
  ASSUME NEW a \in SUBSET Nat, NEW b \in SUBSET Nat, IsFiniteSet(a), IsFiniteSet(b)
  PROVE  /\ Max({Max({0} \cup a)} \cup b) = Max({0} \cup (a \cup b))
         /\ b # {} => Max({Min(b)} \cup b) = Max({0} \cup b)
         /\ b # {} => Max({0} \cup b) = Max(b)
         /\ Max({0} \cup a) \in Nat
<1> DEFINE a0 == {0} \cup a
           ab == {0} \cup (a \cup b)
           m == Max(a0)
           mb == {m} \cup b
           b0 == {0} \cup b
<1>1. IsFiniteSet({0})
  BY FS_Singleton
<1>2. IsFiniteSet(a0) /\ IsFiniteSet(ab) /\ IsFiniteSet(b0)
  <2> DEFINE z == {0}
  <2>1. IsFiniteSet(z)
    BY <1>1
  <2> HIDE DEF z
  <2>2. IsFiniteSet(z \cup a) /\ IsFiniteSet(a \cup b) /\ IsFiniteSet(z \cup b)
    BY <2>1, FS_Union
  <2>3. IsFiniteSet(z \cup (a \cup b))
    BY <2>1, <2>2, FS_Union
  <2>4. QED
    BY <2>2, <2>3 DEF z
<1>3. a0 \in SUBSET Int /\ a0 # {} /\ ab \in SUBSET Int /\ ab # {} /\ b0 \in SUBSET Int /\ b0 # {}
  OBVIOUS
<1>4. 0 \in a0 /\ 0 \in ab /\ 0 \in b0 /\ a \subseteq a0 /\ a \subseteq ab /\ b \subseteq ab /\ b \subseteq b0
  OBVIOUS
<1>5. /\ \A x : x \in a0 <=> x = 0 \/ x \in a
      /\ \A x : x \in ab <=> x = 0 \/ x \in a \/ x \in b
      /\ \A x : x \in b0 <=> x = 0 \/ x \in b
  OBVIOUS
<1> HIDE DEF a0, ab, b0
<1>6. m \in a0 /\ \A y \in a0 : y <= m
  BY <1>2, <1>3, MaxOf
<1>7. Max(ab) \in ab /\ \A y \in ab : y <= Max(ab)
  BY <1>2, <1>3, MaxOf
<1>8. Max(b0) \in b0 /\ \A y \in b0 : y <= Max(b0)
  BY <1>2, <1>3, MaxOf
<1> DEFINE M == Max(ab)
           B == Max(b0)
<1>9. m \in Nat /\ M \in Nat /\ B \in Nat
  <2>1. (\A x \in a : x \in Nat) /\ (\A x \in b : x \in Nat) /\ 0 \in Nat
    OBVIOUS
  <2> HIDE DEF m
  <2>2. m \in Nat
    BY <1>5, <1>6, <2>1
  <2>3. Max(ab) \in Nat /\ Max(b0) \in Nat
    BY <1>5, <1>7, <1>8, <2>1
  <2>4. QED
    BY <2>2, <2>3
<1>10. mb \in SUBSET Int /\ m \in mb /\ b \subseteq mb /\ \A x : x \in mb <=> x = m \/ x \in b
  <2> HIDE DEF m
  <2>1. QED
    BY <1>9
<1> HIDE DEF m, mb, M, B
<1>11. Max(mb) = M
  <2>1. M \in mb
    <3>1. CASE M \in b
      BY <1>10, <3>1
    <3>2. CASE M \in a0
      <4>1. M <= m /\ m <= M
        BY <1>4, <1>5, <1>6, <1>7, <3>2 DEF M
      <4>2. QED
        BY <1>9, <1>10, <4>1
    <3>3. QED
      BY <1>5, <1>7, <3>1, <3>2 DEF M
  <2>2. \A y \in mb : y <= M
    BY <1>5, <1>6, <1>7, <1>10 DEF M
  <2>3. QED
    BY <1>10, <2>1, <2>2, MaxIs
<1>12. ASSUME b # {} PROVE Max({Min(b)} \cup b) = B /\ Max(b) = B
  <2>1. Min(b) \in b
    BY <1>12, MinOf
  <2>2. {Min(b)} \cup b = b
    BY <2>1
  <2>3. B \in b
    <3>1. PICK x \in b : TRUE
      BY <1>12
    <3>2. x <= B /\ x \in Nat
      BY <1>5, <1>8 DEF B
    <3>3. CASE B = 0
      <4>1. x = 0
        BY <3>2, <3>3
      <4>2. QED
        BY <3>3, <4>1
    <3>4. CASE B # 0
      BY <1>5, <1>8, <3>4 DEF B
    <3>5. QED
      BY <3>3, <3>4
  <2>4. \A y \in b : y <= B
    BY <1>5, <1>8 DEF B
  <2>5. Max(b) = B
    BY <2>3, <2>4, MaxIs
  <2>6. QED
    BY <2>2, <2>5
<1>13. QED
  BY <1>9, <1>11, <1>12 DEF m, mb, M, B, a0, ab, b0

(* The weights of what links a symbol to those of a set.                     *)
Linking(mesh, S, n) == {x \in DOMAIN mesh : \/ x[1] \in S /\ x[2] = n
                                            \/ x[2] \in S /\ x[1] = n}
WeightsTo(mesh, S, n) == {mesh[e] : e \in Linking(mesh, S, n)}

(* Weights are finitely many numbers, some where there is a link, and        *)
(* joined with their sets.                                                   *)
LEMMA WeightsOf ==
  ASSUME NEW mesh, DOMAIN mesh \in Graphs, NEW V \in SUBSET Nat, IsFiniteSet(V),
         \A e \in DOMAIN mesh : mesh[e] \in V, NEW S, NEW T, NEW n
  PROVE  /\ WeightsTo(mesh, S, n) \in SUBSET Nat /\ IsFiniteSet(WeightsTo(mesh, S, n))
         /\ WeightsTo(mesh, S, n) # {} <=> n \in Targets(Undirected(DOMAIN mesh), S)
         /\ WeightsTo(mesh, S \cup T, n) = WeightsTo(mesh, S, n) \cup WeightsTo(mesh, T, n)
<1> DEFINE E == DOMAIN mesh
           A == Undirected(E)
<1>0. /\ Linking(mesh, S, n) \subseteq E
      /\ \A e \in E : e \in Linking(mesh, S, n) <=> (e[1] \in S /\ e[2] = n) \/ (e[2] \in S /\ e[1] = n)
  BY DEF Linking
<1>1. /\ \A x \in WeightsTo(mesh, S, n) : \E e \in Linking(mesh, S, n) : mesh[e] = x
      /\ \A e \in Linking(mesh, S, n) : mesh[e] \in WeightsTo(mesh, S, n)
  BY DEF WeightsTo
<1>2. WeightsTo(mesh, S, n) \subseteq V
  BY <1>0, <1>1
<1>3. A \in Graphs /\ \A a, b : <<a, b>> \in A <=> <<a, b>> \in E \/ <<b, a>> \in E
  BY UndirectedGraph
<1>4. ASSUME WeightsTo(mesh, S, n) # {} PROVE n \in Targets(A, S)
  <2>1. PICK e \in E : (e[1] \in S /\ e[2] = n) \/ (e[2] \in S /\ e[1] = n)
    BY <1>0, <1>1, <1>4
  <2>2. <<e[1], e[2]>> \in E
    BY <2>1, PairOfNames
  <2>3. <<e[1], e[2]>> \in A /\ <<e[2], e[1]>> \in A
    BY <1>3, <2>2
  <2> HIDE DEF A
  <2>4. \E a \in S : <<a, n>> \in A
    BY <2>1, <2>3
  <2>5. QED
    BY <1>3, <2>4, TargetsOf
<1>5. ASSUME n \in Targets(A, S) PROVE WeightsTo(mesh, S, n) # {}
  <2>1. PICK a \in S : <<a, n>> \in A
    BY <1>3, <1>5, TargetsOf
  <2>2. <<a, n>> \in E \/ <<n, a>> \in E
    BY <1>3, <2>1
  <2>3. PICK e : e \in E /\ (e = <<a, n>> \/ e = <<n, a>>)
    BY <2>2
  <2>4. e \in Linking(mesh, S, n)
    <3>1. CASE e = <<a, n>>
      <4>1. e[1] = a /\ e[2] = n
        BY <3>1
      <4>2. QED
        BY <1>0, <2>1, <2>3, <4>1
    <3>3. CASE e = <<n, a>>
      <4>1. e[1] = n /\ e[2] = a
        BY <3>3
      <4>2. QED
        BY <1>0, <2>1, <2>3, <4>1
    <3>4. QED
      BY <2>3, <3>1, <3>3
  <2>5. QED
    BY <1>1, <2>4
<1>6. WeightsTo(mesh, S \cup T, n) = WeightsTo(mesh, S, n) \cup WeightsTo(mesh, T, n)
  <2>1. Linking(mesh, S \cup T, n) = Linking(mesh, S, n) \cup Linking(mesh, T, n)
    BY DEF Linking
  <2>2. QED
    BY <2>1 DEF WeightsTo
<1>7. QED
  BY <1>2, <1>4, <1>5, <1>6, FS_Subset

(* The weight of the heaviest edge met up to a hop, 0 if none is.            *)
Heaviest(mesh, start, k, n) ==
    Max({0} \cup WeightsTo(mesh, Nearer(Undirected(DOMAIN mesh), start, k), n))

(* One round of NeighborhoodWeighted.                                        *)
BestNext(mesh, b) ==
    LET near == Targets(Undirected(DOMAIN mesh), b.frontier)
        new == near \ DOMAIN b.weight
        Known(n) == IF n \in new THEN Min(WeightsTo(mesh, b.frontier, n)) ELSE b.weight[n]
    IN  [weight |-> [n \in DOMAIN b.weight \cup new |->
                       Raise(Known(n), WeightsTo(mesh, b.frontier, n))],
         frontier |-> new]

(* All its rounds, as the source of the mesh runs them.                      *)
BestOf(mesh, fqn) ==
    LET Weights(S, n) == {mesh[e] : e \in {x \in DOMAIN mesh :
                            \/ x[1] \in S /\ x[2] = n
                            \/ x[2] \in S /\ x[1] = n}}
    IN  CHOOSE best : best = [d \in Nat |->
          IF d = 0 THEN [weight |-> [n \in {fqn} |-> 0], frontier |-> {fqn}]
          ELSE LET b == best[d - 1]
                   near == Targets(Undirected(DOMAIN mesh), b.frontier)
                   new == near \ DOMAIN b.weight
                   Known(n) == IF n \in new THEN Min(Weights(b.frontier, n)) ELSE b.weight[n]
               IN  [weight |-> [n \in DOMAIN b.weight \cup new |->
                                  Raise(Known(n), Weights(b.frontier, n))],
                    frontier |-> new]]

(* What they hold after d rounds.                                            *)
BestAt(mesh, start, d) ==
    [weight |-> [n \in Near(Undirected(DOMAIN mesh), start, d) |-> Heaviest(mesh, start, d, n)],
     frontier |-> Edge(Undirected(DOMAIN mesh), start, d)]

(* One hop more raises the weights as the definition does.                   *)
LEMMA BestGoesOn ==
  ASSUME NEW mesh, DOMAIN mesh \in Graphs, NEW V \in SUBSET Nat, IsFiniteSet(V),
         \A e \in DOMAIN mesh : mesh[e] \in V, NEW start \in Names, NEW d \in Nat
  PROVE  BestNext(mesh, BestAt(mesh, start, d)) = BestAt(mesh, start, d + 1)
<1> DEFINE A == Undirected(DOMAIN mesh)
           N == Near(A, start, d)
           N1 == Near(A, start, d + 1)
           F == Edge(A, start, d)
           F1 == Edge(A, start, d + 1)
           P == Nearer(A, start, d)
           W(S, n) == WeightsTo(mesh, S, n)
           b == BestAt(mesh, start, d)
<1>1. A \in Graphs
  BY UndirectedGraph
<1>2. /\ d + 1 \in Nat
      /\ P \subseteq N /\ Targets(A, P) \subseteq N /\ Targets(A, F) \ N = F1
      /\ Nearer(A, start, d + 1) = N /\ F = N \ P
  BY <1>1, EdgeLeads DEF Edge
<1>3. N1 = N \cup F1
  <2>1. N \subseteq N1 /\ Nearer(A, start, d + 1) = N
    BY <1>1, <1>2, NearRounds
  <2> HIDE DEF N, N1
  <2>2. F1 = N1 \ N
    BY <2>1 DEF Edge, N1
  <2>3. QED
    BY <2>1, <2>2
<1>4. b.frontier = F /\ b.weight = [n \in N |-> Heaviest(mesh, start, d, n)]
  BY DEF BestAt
<1>5. \A S, n : /\ W(S, n) \in SUBSET Nat /\ IsFiniteSet(W(S, n))
                /\ W(S, n) # {} <=> n \in Targets(A, S)
  BY WeightsOf
<1>6. \A S, T, n : W(S \cup T, n) = W(S, n) \cup W(T, n)
  BY WeightsOf
<1>7. \A k, n : Heaviest(mesh, start, k, n) = Max({0} \cup W(Nearer(A, start, k), n))
  BY DEF Heaviest
<1> DEFINE Known(n) == IF n \in F1 THEN Min(W(F, n)) ELSE b.weight[n]
<1>8. ASSUME NEW n \in N1 PROVE Raise(Known(n), W(F, n)) = Heaviest(mesh, start, d + 1, n)
  <2>1. Heaviest(mesh, start, d + 1, n) = Max({0} \cup W(N, n))
    BY <1>2, <1>7
  <2>2. N = P \cup F
    BY <1>2
  <2> HIDE DEF A, N, N1, F, F1, P, W, b
  <2>3. W(N, n) = W(P, n) \cup W(F, n)
    BY <1>6, <2>2
  <2>4. CASE n \in F1
    <3>1. n \notin Targets(A, P) /\ n \in Targets(A, F)
      BY <1>2, <2>4
    <3>2. W(P, n) = {} /\ W(F, n) # {}
      BY <1>5, <3>1
    <3>3. W(N, n) = W(F, n)
      BY <2>3, <3>2
    <3>4. Max({Min(W(F, n))} \cup W(F, n)) = Max({0} \cup W(F, n))
      BY <1>5, <3>2, MaxJoined
    <3>5. Known(n) = Min(W(F, n))
      BY <2>4
    <3>6. QED
      BY <2>1, <3>3, <3>4, <3>5 DEF Raise
  <2>5. CASE n \notin F1
    <3>1. n \in N
      BY <1>3, <2>5
    <3>2. b.weight[n] = Max({0} \cup W(P, n))
      BY <1>4, <1>7, <3>1 DEF P
    <3>3. Max({Max({0} \cup W(P, n))} \cup W(F, n)) = Max({0} \cup (W(P, n) \cup W(F, n)))
      BY <1>5, MaxJoined
    <3>4. Known(n) = Max({0} \cup W(P, n))
      BY <2>5, <3>2
    <3>5. QED
      BY <2>1, <2>3, <3>3, <3>4 DEF Raise
  <2>6. QED
    BY <2>4, <2>5
<1> DEFINE G == [n \in N \cup F1 |-> Raise(Known(n), W(F, n))]
<1>9. BestNext(mesh, b) = [weight |-> G, frontier |-> F1]
  <2>1. DOMAIN b.weight = N
    BY <1>4
  <2> DEFINE near == Targets(A, b.frontier)
             new == near \ DOMAIN b.weight
  <2>2. new = F1
    BY <1>2, <1>4, <2>1
  <2>3. BestNext(mesh, b) = [weight |-> [n \in DOMAIN b.weight \cup new |->
                               Raise(IF n \in new THEN Min(W(b.frontier, n)) ELSE b.weight[n],
                                     W(b.frontier, n))],
                             frontier |-> new]
    BY DEF BestNext
  <2> HIDE DEF A, N, N1, F, F1, P, W, b, new
  <2>4. QED
    BY <1>4, <2>1, <2>2, <2>3
<1>10. G = [n \in N1 |-> Heaviest(mesh, start, d + 1, n)]
  <2> HIDE DEF A, N, N1, F, F1, P, W, b, Known
  <2>1. QED
    BY <1>3, <1>8
<1>11. BestAt(mesh, start, d + 1) = [weight |-> [n \in N1 |-> Heaviest(mesh, start, d + 1, n)], frontier |-> F1]
  BY DEF BestAt
<1> HIDE DEF G, b, F1, N1
<1>12. BestNext(mesh, b) = BestAt(mesh, start, d + 1)
  BY <1>9, <1>10, <1>11
<1>13. QED
  BY <1>12 DEF b

(* Where they start.                                                         *)
BestStart(start) == [weight |-> [n \in {start} |-> 0], frontier |-> {start}]

(* After d rounds each symbol near has the heaviest link by which it was     *)
(* met.                                                                      *)
LEMMA BestRounds ==
  ASSUME NEW mesh, DOMAIN mesh \in Graphs, NEW V \in SUBSET Nat, IsFiniteSet(V),
         \A e \in DOMAIN mesh : mesh[e] \in V, NEW start \in Names
  PROVE  \A d \in Nat : BestOf(mesh, start)[d] = BestAt(mesh, start, d)
<1> DEFINE A == Undirected(DOMAIN mesh)
           g == [d \in Nat |-> BestAt(mesh, start, d)]
           Is(f) == f = [d \in Nat |-> IF d = 0 THEN BestStart(start) ELSE BestNext(mesh, f[d - 1])]
           best == BestOf(mesh, start)
<1>1. BestAt(mesh, start, 0) = BestStart(start)
  <2>1. Near(A, start, 0) = {start} /\ Edge(A, start, 0) = {start}
    BY UndirectedGraph, NearRounds, EdgeLeads
  <2>2. Nearer(A, start, 0) = {}
    BY DEF Nearer
  <2>3. WeightsTo(mesh, {}, start) = {}
    BY DEF WeightsTo, Linking
  <2> DEFINE z == {0}
  <2>4. z \in SUBSET Int /\ 0 \in z /\ \A y \in z : y <= 0
    OBVIOUS
  <2> HIDE DEF z
  <2>5. Max(z) = 0
    BY <2>4, MaxIs
  <2>6. {0} \cup WeightsTo(mesh, Nearer(A, start, 0), start) = z
    BY <2>2, <2>3 DEF z
  <2>7. Heaviest(mesh, start, 0, start) = 0
    BY <2>5, <2>6 DEF Heaviest
  <2>8. [n \in {start} |-> Heaviest(mesh, start, 0, n)] = [n \in {start} |-> 0]
    BY <2>7
  <2>9. QED
    BY <2>1, <2>8 DEF BestAt, BestStart
<1>2. \A d \in Nat : BestNext(mesh, BestAt(mesh, start, d)) = BestAt(mesh, start, d + 1)
  BY BestGoesOn
<1>3. \A d \in Nat : d # 0 => d - 1 \in Nat /\ (d - 1) + 1 = d
  OBVIOUS
<1>4. Is(g)
  <2>1. \A d \in Nat : g[d] = IF d = 0 THEN BestStart(start) ELSE BestNext(mesh, g[d - 1])
    BY <1>1, <1>2, <1>3
  <2>2. QED
    BY <2>1
<1>5. Is(best)
  <2>1. \E f : Is(f)
    BY <1>4
  <2>2. best = CHOOSE f : Is(f)
    BY DEF BestOf, BestStart, BestNext, WeightsTo, Linking
  <2>3. QED
    BY <2>1, <2>2
<1> HIDE DEF best, g
<1> DEFINE S == {d \in Nat : best[d] = BestAt(mesh, start, d)}
<1>6. 0 \in S
  BY <1>1, <1>5
<1>7. ASSUME NEW d \in Nat, d \in S PROVE d + 1 \in S
  <2>1. d + 1 \in Nat /\ d + 1 # 0 /\ (d + 1) - 1 = d
    OBVIOUS
  <2>2. best[d + 1] = BestNext(mesh, best[d])
    BY <1>5, <2>1
  <2>3. QED
    BY <1>2, <1>7, <2>1, <2>2
<1> HIDE DEF S
<1>8. Nat \subseteq S
  BY <1>6, <1>7, Induction
<1>9. QED
  BY <1>8 DEF S, best

(* A symbol met before the last hop has a neighbour there as well.           *)
LEMMA MetFromNear ==
  ASSUME NEW A \in Graphs, NEW start \in Names, NEW k \in Nat,
         NEW n \in Near(A, start, k), n # start
  PROVE  n \in Targets(A, Near(A, start, k))
<1> DEFINE S == {j \in Nat : \A m \in Near(A, start, j) : m # start => m \in Targets(A, Near(A, start, j))}
<1>1. 0 \in S
  BY NearRounds
<1>2. ASSUME NEW j \in Nat, j \in S PROVE j + 1 \in S
  <2>1. Near(A, start, j + 1) = Near(A, start, j) \cup Targets(A, Near(A, start, j))
    BY NearRounds
  <2>2. Targets(A, Near(A, start, j)) \subseteq Targets(A, Near(A, start, j + 1))
    BY <2>1 DEF Targets
  <2>3. QED
    BY <1>2, <2>1, <2>2
<1> HIDE DEF S
<1>3. Nat \subseteq S
  BY <1>1, <1>2, Induction
<1>4. QED
  BY <1>3 DEF S

(* Each symbol near with the heaviest of its links from the symbols          *)
(* nearer.                                                                   *)
WeightsNear(mesh, start, hops) ==
    [n \in Neighborhood(mesh, start, hops) \ {start} |->
        Max(WeightsTo(mesh, Neighborhood(mesh, start, hops - 1), n))]

(* NeighborhoodWeighted gives just that.                                     *)
LEMMA WeightedNear ==
  ASSUME NEW mesh, DOMAIN mesh \in Graphs, NEW V \in SUBSET Nat, IsFiniteSet(V),
         \A e \in DOMAIN mesh : mesh[e] \in V, NEW start \in Names, NEW hops \in Nat \ {0}
  PROVE  NeighborhoodWeighted(mesh, start, hops) = WeightsNear(mesh, start, hops)
<1> DEFINE A == Undirected(DOMAIN mesh)
           N == Near(A, start, hops)
           P == Near(A, start, hops - 1)
           w == BestOf(mesh, start)[hops].weight
<1>1. A \in Graphs /\ hops - 1 \in Nat /\ (hops - 1) + 1 = hops
  BY UndirectedGraph
<1>2. Neighborhood(mesh, start, hops) = N /\ Neighborhood(mesh, start, hops - 1) = P
  BY NeighborhoodNear
<1>3. w = [n \in N |-> Heaviest(mesh, start, hops, n)]
  <2>1. BestOf(mesh, start)[hops] = BestAt(mesh, start, hops)
    BY BestRounds
  <2>2. BestAt(mesh, start, hops).weight = [n \in N |-> Heaviest(mesh, start, hops, n)]
    BY DEF BestAt
  <2>3. QED
    BY <2>1, <2>2
<1>4. NeighborhoodWeighted(mesh, start, hops) = [n \in {m \in DOMAIN w : m # start} |-> w[n]]
  BY DEF NeighborhoodWeighted, BestOf, RestrictDomain, Restrict
<1>5. Nearer(A, start, hops) = P
  BY DEF Nearer
<1>6. ASSUME NEW n \in N \ {start} PROVE w[n] = Max(WeightsTo(mesh, P, n))
  <2>1. w[n] = Max({0} \cup WeightsTo(mesh, P, n))
    BY <1>3, <1>5 DEF Heaviest
  <2>2. n \in Targets(A, P)
    <3>1. N = P \cup Targets(A, P)
      BY <1>1, NearRounds
    <3>2. n \in P => n \in Targets(A, P)
      BY <1>1, MetFromNear
    <3>3. QED
      BY <3>1, <3>2
  <2>3. /\ WeightsTo(mesh, P, n) \in SUBSET Nat /\ IsFiniteSet(WeightsTo(mesh, P, n))
        /\ WeightsTo(mesh, P, n) # {}
    BY <2>2, WeightsOf
  <2>4. Max({0} \cup WeightsTo(mesh, P, n)) = Max(WeightsTo(mesh, P, n))
    BY <2>3, MaxJoined
  <2>5. QED
    BY <2>1, <2>4
<1>7. {m \in DOMAIN w : m # start} = N \ {start}
  BY <1>3
<1> HIDE DEF N, P, w
<1>8. NeighborhoodWeighted(mesh, start, hops) = [n \in N \ {start} |-> Max(WeightsTo(mesh, P, n))]
  BY <1>4, <1>6, <1>7
<1>9. QED
  BY <1>2, <1>8, Zenon DEF WeightsNear

(* MeshConsistent of every graph of calls.                                   *)
LEMMA MeshConsistentWell ==
  ASSUME edges \in Graphs
  PROVE  MeshConsistent
<1> SUFFICES ASSUME NEW l \in Layouts, NEW hops \in 1..3
    PROVE
      LET mesh == BuildMesh(edges, l.symbol, l.comps)
          near == Neighborhood(mesh, 1, hops)
          inner == Neighborhood(mesh, 1, hops - 1)
          Beside(n) == {e \in edges : {e[1], e[2]} \in {{n, m} : m \in inner}}
      IN  /\ near = {1} \cup {n \in Names : Distance(mesh, 1, n) \in 0..hops}
          /\ NeighborhoodWeighted(mesh, 1, hops)
               = [n \in near \ {1} |-> Max({mesh[e] : e \in Beside(n)})]
  BY DEF MeshConsistent
<1> DEFINE mesh == BuildMesh(edges, l.symbol, l.comps)
           near == Neighborhood(mesh, 1, hops)
           inner == Neighborhood(mesh, 1, hops - 1)
           Beside(n) == {e \in edges : {e[1], e[2]} \in {{n, m} : m \in inner}}
           V == {100, 50, 30}
<1>1. DOMAIN mesh = edges /\ \A e \in edges : mesh[e] \in V
  <2>1. \A s, t, c : ClassifyEdgeWeight(s, t, c) \in V
    BY DEF ClassifyEdgeWeight, WeightExternalMeaningful, WeightInternalCross, WeightInternalSame
  <2>2. QED
    BY <2>1 DEF BuildMesh
<1>2. V \in SUBSET Nat /\ IsFiniteSet(V)
  <2>1. IsFiniteSet({} \cup {100})
    BY FS_EmptySet, FS_AddElement
  <2>2. IsFiniteSet(({} \cup {100}) \cup {50})
    BY <2>1, FS_AddElement
  <2>3. IsFiniteSet((({} \cup {100}) \cup {50}) \cup {30})
    BY <2>2, FS_AddElement
  <2>4. (({} \cup {100}) \cup {50}) \cup {30} = V
    OBVIOUS
  <2>5. QED
    BY <2>3, <2>4
<1>3. 1 \in Names /\ hops \in Nat \ {0} /\ hops \in Nat /\ hops - 1 \in Nat
  BY NamesFinite
<1> HIDE DEF mesh, V
<1>4. near \subseteq Names /\ 1 \in near
  <2>1. Undirected(DOMAIN mesh) \in Graphs
    BY <1>1, UndirectedGraph
  <2>2. near = Near(Undirected(DOMAIN mesh), 1, hops)
    BY NeighborhoodNear
  <2> HIDE DEF near
  <2>3. QED
    BY <1>3, <2>1, <2>2, NearRounds
<1>5. near = {1} \cup {n \in Names : Distance(mesh, 1, n) \in 0..hops}
  <2>1. \A n \in Names : n \in near <=> Distance(mesh, 1, n) \in 0..hops
    BY <1>1, <1>3, DistanceNear
  <2> HIDE DEF near
  <2>2. QED
    BY <1>3, <1>4, <2>1
<1>6. NeighborhoodWeighted(mesh, 1, hops) = [n \in near \ {1} |-> Max(WeightsTo(mesh, inner, n))]
  <2>1. /\ DOMAIN mesh \in Graphs /\ V \in SUBSET Nat /\ IsFiniteSet(V)
        /\ \A e \in DOMAIN mesh : mesh[e] \in V
    BY <1>1, <1>2
  <2>2. NeighborhoodWeighted(mesh, 1, hops) = WeightsNear(mesh, 1, hops)
    BY <1>3, <2>1, WeightedNear
  <2>3. QED
    BY <2>2 DEF WeightsNear
<1>7. ASSUME NEW n PROVE WeightsTo(mesh, inner, n) = {mesh[e] : e \in Beside(n)}
  <2> HIDE DEF inner
  <2>1. ASSUME NEW e \in edges
        PROVE  {e[1], e[2]} \in {{n, m} : m \in inner}
                 <=> (e[1] \in inner /\ e[2] = n) \/ (e[2] \in inner /\ e[1] = n)
    <3> DEFINE a == e[1]
               b == e[2]
    <3> HIDE DEF a, b
    <3>1. ASSUME NEW m \in inner, {a, b} = {n, m} PROVE (a \in inner /\ b = n) \/ (b \in inner /\ a = n)
      <4>1. (a = n \/ a = m) /\ (b = n \/ b = m) /\ (n = a \/ n = b) /\ (m = a \/ m = b)
        BY <3>1
      <4>2. QED
        BY <4>1
    <3>2. ASSUME a \in inner, b = n PROVE {a, b} = {n, a}
      BY <3>2
    <3>3. ASSUME b \in inner, a = n PROVE {a, b} = {n, b}
      BY <3>3
    <3>4. {a, b} \in {{n, m} : m \in inner} <=> \E m \in inner : {a, b} = {n, m}
      OBVIOUS
    <3>5. {a, b} \in {{n, m} : m \in inner} <=> (a \in inner /\ b = n) \/ (b \in inner /\ a = n)
      BY <3>1, <3>2, <3>3, <3>4
    <3>6. QED
      BY <3>5 DEF a, b
  <2>2. Linking(mesh, inner, n) = Beside(n)
    BY <1>1, <2>1 DEF Linking
  <2> HIDE DEF Beside
  <2>3. QED
    BY <2>2 DEF WeightsTo
<1>8. [n \in near \ {1} |-> Max(WeightsTo(mesh, inner, n))] = [n \in near \ {1} |-> Max({mesh[e] : e \in Beside(n)})]
  <2> HIDE DEF near, inner, Beside
  <2>1. QED
    BY <1>7
<1>9. QED
  BY <1>5, <1>6, <1>8 DEF mesh

(* However a graph grows, the three ways to ask what is near in its mesh     *)
(* agree, and a neighbour has the weight of its heaviest edge inwards.       *)
THEOREM MeshConsistentHolds == Spec => []MeshConsistent
<1>1. edges \in Graphs => MeshConsistent
  BY MeshConsistentWell
<1>2. QED
  BY <1>1, GraphTypeOK, PTL

------------------------------------------------------------------------------
(* The roles of components.                                                  *)

(* The roles that ClassifyService gives.                                     *)
RoleNames == {"entrypoint", "port", "adapter", "infra", "domain"}

(* ClassifyService gives every component one of them.                        *)
LEMMA RolesGiven ==
  ASSUME NEW services, NEW E, NEW external
  PROVE  LET roles == ComputeHexaClassification(services, E, external)
         IN  /\ DOMAIN roles = DOMAIN services
             /\ \A n \in DOMAIN services : roles[n] \in RoleNames
  BY DEF ComputeHexaClassification, ClassifyService, RoleNames

(* So are the imports of a project.                                          *)
LEMMA ImportsOfGraph ==
  ASSUME edges \in Graphs, NEW p
  PROVE  ImportsOf(p) \in Graphs /\ Leaving(p) \subseteq ImportsOf(p)
<1>1. ImportsOf(p) \subseteq Imports /\ Leaving(p) \subseteq ImportsOf(p)
  BY DEF ImportsOf, Leaving
<1>2. QED
  BY <1>1, ImportsGraph DEF Graphs

(* Part of RolesJudged: an import changes the roles of its ends alone.       *)
LEMMA RolesLocalWell ==
  ASSUME edges \in Graphs
  PROVE  RolesLocal
<1> SUFFICES ASSUME NEW p \in Projects, NEW e \in ImportsOf(p)
    PROVE
      LET E == ImportsOf(p)
          roles == RolesOf(p, E)
          wrong == ComputeHexaViolations(roles, E)
          before == RolesOf(p, E \ {e})
      IN  /\ \A n \in Names \ {e[1], e[2]} : roles[n] = before[n]
          /\ \A v \in wrong \ ComputeHexaViolations(before, E \ {e}) :
               {v[1], v[2]} \cap {e[1], e[2]} # {}
  BY DEF RolesLocal
<1> DEFINE E == ImportsOf(p)
           F == E \ {e}
           roles == RolesOf(p, E)
           before == RolesOf(p, F)
           services == p.services
           out == Leaving(p)
<1>1. DOMAIN services = Names
  BY HealthReportsAssumption
<1>2. /\ \A n \in Names : roles[n] = ClassifyService(services[n], \E x \in E \cap out : x[1] = n,
                                       FanIn(E, n), FanOut(E, n), Cardinality(Names))
      /\ \A n \in Names : before[n] = ClassifyService(services[n], \E x \in F \cap out : x[1] = n,
                                       FanIn(F, n), FanOut(F, n), Cardinality(Names))
      /\ DOMAIN roles = Names /\ DOMAIN before = Names
  <2>1. \A G : /\ \A n \in Names : RolesOf(p, G)[n] = ClassifyService(services[n], \E x \in G \cap out : x[1] = n,
                                       FanIn(G, n), FanOut(G, n), Cardinality(Names))
               /\ DOMAIN RolesOf(p, G) = Names
    BY <1>1 DEF RolesOf, ComputeHexaClassification
  <2>2. QED
    BY <2>1
<1> HIDE DEF roles, before, services, out
<1>3. ASSUME NEW n \in Names \ {e[1], e[2]} PROVE roles[n] = before[n]
  <2>1. {x \in E : x[2] = n} = {x \in F : x[2] = n} /\ {x \in E : x[1] = n} = {x \in F : x[1] = n}
    BY <1>3
  <2>2. FanIn(E, n) = FanIn(F, n) /\ FanOut(E, n) = FanOut(F, n)
    BY <2>1 DEF FanIn, FanOut
  <2>3. (\E x \in E \cap out : x[1] = n) <=> (\E x \in F \cap out : x[1] = n)
    BY <1>3
  <2> DEFINE inE == \E x \in E \cap out : x[1] = n
             inF == \E x \in F \cap out : x[1] = n
  <2>4. inE = inF
    BY <2>3
  <2>5. /\ roles[n] = ClassifyService(services[n], inE, FanIn(E, n), FanOut(E, n), Cardinality(Names))
        /\ before[n] = ClassifyService(services[n], inF, FanIn(F, n), FanOut(F, n), Cardinality(Names))
    BY <1>2, <1>3
  <2> HIDE DEF inE, inF, E, F
  <2>6. ClassifyService(services[n], inE, FanIn(E, n), FanOut(E, n), Cardinality(Names))
          = ClassifyService(services[n], inF, FanIn(F, n), FanOut(F, n), Cardinality(Names))
    BY <2>2, <2>4
  <2>7. QED
    BY <2>5, <2>6
<1>4. ASSUME NEW v \in ComputeHexaViolations(roles, E), v \notin ComputeHexaViolations(before, F),
             {v[1], v[2]} \cap {e[1], e[2]} = {}
      PROVE  FALSE
  <2>1. v \in E /\ v[1] \in Names /\ v[2] \in Names
        /\ <<roles[v[1]], roles[v[2]]>> \in HexaErrors \cup HexaWarnings
    BY <1>2 DEF ComputeHexaViolations
  <2>2. v[1] \in Names \ {e[1], e[2]} /\ v[2] \in Names \ {e[1], e[2]} /\ v # e
    BY <1>4, <2>1
  <2>3. roles[v[1]] = before[v[1]] /\ roles[v[2]] = before[v[2]]
    BY <1>3, <2>2
  <2>4. v \in F
    BY <2>1, <2>2
  <2> HIDE DEF F, E
  <2>5. v \in ComputeHexaViolations(before, F)
    BY <1>2, <2>1, <2>3, <2>4 DEF ComputeHexaViolations
  <2>6. QED
    BY <1>4, <2>5
<1>5. QED
  BY <1>3, <1>4 DEF roles, before

(* DIP violations are those of domain components that are not accepted.      *)
LEMMA DIPFound ==
  ASSUME edges \in Graphs, NEW p \in Projects, NEW accepted
  PROVE  LET E == ImportsOf(p)
             roles == RolesOf(p, E)
             classified == ComputeHexaClassification(p.services, E, Leaving(p))
         IN  \A v : v \in ComputeDIPViolations(classified, E, accepted) <=>
                      /\ v \in ComputeHexaViolations(roles, E)
                      /\ roles[v[1]] = "domain" /\ <<v[1], "DIP">> \notin accepted
<1> DEFINE E == ImportsOf(p)
           roles == RolesOf(p, E)
           classified == ComputeHexaClassification(p.services, E, Leaving(p))
<1>1. classified = roles
  <2>1. E \cap Leaving(p) = Leaving(p)
    BY DEF Leaving
  <2>2. QED
    BY <2>1 DEF RolesOf
<1>2. DOMAIN roles = Names /\ \A n \in Names : roles[n] \in RoleNames
  BY HealthReportsAssumption, RolesGiven DEF RolesOf
<1>3. E \in Graphs
  BY ImportsOfGraph
<1> HIDE DEF E, roles, classified
<1> DEFINE found == ComputeDIPViolations(roles, E, accepted)
           wrong == ComputeHexaViolations(roles, E)
<1>4. ASSUME NEW v PROVE v \in found <=> v \in wrong /\ roles[v[1]] = "domain" /\ <<v[1], "DIP">> \notin accepted
  <2>1. v \in found <=> /\ v \in E /\ <<v[1], "DIP">> \notin accepted
                        /\ <<IF v[1] \in DOMAIN roles THEN roles[v[1]] ELSE "",
                             IF v[2] \in DOMAIN roles THEN roles[v[2]] ELSE "">>
                             \in ({"domain"} \X {"adapter", "infra"}) \cup {<<"app", "adapter">>}
    BY DEF ComputeDIPViolations, AcceptedEdges
  <2>2. v \in wrong <=> /\ v \in E /\ {v[1], v[2]} \subseteq Names
                        /\ <<roles[v[1]], roles[v[2]]>> \in HexaErrors \cup HexaWarnings
    BY <1>2 DEF ComputeHexaViolations
  <2>3. v \in E => v[1] \in Names /\ v[2] \in Names
    BY <1>3, PairOfNames
  <2> HIDE DEF found, wrong
  <2>4. SUFFICES ASSUME v \in E PROVE v \in found <=> v \in wrong /\ roles[v[1]] = "domain" /\ <<v[1], "DIP">> \notin accepted
    BY <2>1, <2>2
  <2> DEFINE a == roles[v[1]]
             b == roles[v[2]]
  <2>5. a \in RoleNames /\ b \in RoleNames
    BY <1>2, <2>3, <2>4
  <2>6. v \in found <=> /\ <<v[1], "DIP">> \notin accepted
                        /\ <<a, b>> \in ({"domain"} \X {"adapter", "infra"}) \cup {<<"app", "adapter">>}
    BY <1>2, <2>1, <2>3, <2>4
  <2>7. v \in wrong <=> <<a, b>> \in HexaErrors \cup HexaWarnings
    BY <2>2, <2>3, <2>4
  <2> HIDE DEF a, b
  <2>8. <<a, b>> \in ({"domain"} \X {"adapter", "infra"}) \cup {<<"app", "adapter">>}
          <=> a = "domain" /\ b \in {"adapter", "infra"}
    BY <2>5 DEF RoleNames
  <2>9. <<a, b>> \in HexaErrors \cup HexaWarnings
          <=> (a \in {"domain", "port"} /\ b \in {"adapter", "infra"})
    BY <2>5 DEF RoleNames, HexaErrors, HexaWarnings
  <2>10. v \in found <=> v \in wrong /\ a = "domain" /\ <<v[1], "DIP">> \notin accepted
    BY <2>6, <2>7, <2>8, <2>9
  <2>11. QED
    BY <2>10 DEF a
<1>5. QED
  BY <1>1, <1>4 DEF E, roles, classified

(* Roles given by hand.                                                      *)
Entrypoints(who) == [n \in who |-> "entrypoint"]
NoRoles == [n \in {} |-> ""]

(* Called entrypoints, components lose just their own violations of single   *)
(* responsibility.                                                           *)
LEMMA SRPFound ==
  ASSUME NEW services, NEW E, NEW classified, NEW domainOf, NEW who \in SUBSET DOMAIN services,
         DOMAIN classified = DOMAIN services
  PROVE  ComputeSRPViolations(services, E, ResolveRoles(classified, Entrypoints(who)), domainOf, {})
           = {v \in ComputeSRPViolations(services, E, ResolveRoles(classified, NoRoles), domainOf, {}) :
                v[1] \notin who}
<1> DEFINE given == ResolveRoles(classified, Entrypoints(who))
           plain == ResolveRoles(classified, NoRoles)
           Domains(n) == {domainOf[t] : t \in Targets(E, {n})}
           Big(n) == services[n].loc > SrpLOC /\ FanOut(E, n) > SrpFanOut
           Wide(n) == services[n].symbols > SrpSymbols /\ Cardinality(Domains(n)) > SrpDomains
           Judged(roles) == {n \in DOMAIN services : <<n, "SRP">> \notin {} /\ roles[n] # "entrypoint"}
           Found(roles) == ComputeSRPViolations(services, E, roles, domainOf, {})
<1>1. Judged(given) = Judged(plain) \ who
  <2>1. \A n \in DOMAIN services : given[n] = IF n \in who THEN "entrypoint" ELSE classified[n]
    BY DEF ResolveRoles, Entrypoints
  <2>2. \A n \in DOMAIN services : plain[n] = classified[n]
    BY DEF ResolveRoles, NoRoles
  <2> HIDE DEF given, plain
  <2>3. QED
    BY <2>1, <2>2
<1>2. \A roles : Found(roles) = {<<n, "size">> : n \in {m \in Judged(roles) : Big(m)}}
                                 \cup {<<n, "domains">> : n \in {m \in Judged(roles) : Wide(m)}}
  BY DEF ComputeSRPViolations
<1> HIDE DEF given, plain, Judged, Big, Wide, Found
<1>3. ASSUME NEW roles, NEW v
      PROVE  v \in Found(roles) <=> /\ \E n \in Judged(roles) : (v = <<n, "size">> /\ Big(n))
                                                             \/ (v = <<n, "domains">> /\ Wide(n))
  BY <1>2
<1>4. Found(given) = {v \in Found(plain) : v[1] \notin who}
  <2>1. ASSUME NEW v \in Found(given) PROVE v \in Found(plain) /\ v[1] \notin who
    <3>1. PICK n \in Judged(given) : (v = <<n, "size">> /\ Big(n)) \/ (v = <<n, "domains">> /\ Wide(n))
      BY <1>3, <2>1
    <3>2. v[1] = n
      BY <3>1
    <3>3. QED
      BY <1>1, <1>3, <3>1, <3>2
  <2>2. ASSUME NEW v \in Found(plain), v[1] \notin who PROVE v \in Found(given)
    <3>1. PICK n \in Judged(plain) : (v = <<n, "size">> /\ Big(n)) \/ (v = <<n, "domains">> /\ Wide(n))
      BY <1>3, <2>2
    <3>2. v[1] = n
      BY <3>1
    <3>3. QED
      BY <1>1, <1>3, <2>2, <3>1, <3>2
  <2>3. QED
    BY <2>1, <2>2
<1>5. QED
  BY <1>4 DEF Found, given, plain

(* Part of RolesJudged: the two detectors of wrong dependencies agree.       *)
LEMMA DetectorsAgreeWell ==
  ASSUME edges \in Graphs
  PROVE  DetectorsAgree
<1> SUFFICES ASSUME NEW p \in Projects, NEW who \in SUBSET Names
    PROVE
      LET E == ImportsOf(p)
          roles == RolesOf(p, E)
          accepted == who \X {"DIP"}
          wrong == {v \in ComputeHexaViolations(roles, E) : roles[v[1]] = "domain"}
          Scan(given, ok) ==
            ComputeSOLIDScan(p.services, E, Leaving(p), p.classes, p.domainOf, given, ok)
          plain == Scan([n \in {} |-> ""], {})
          entries == Scan([n \in who |-> "entrypoint"], {})
      IN  /\ Scan([n \in who |-> "app"], accepted).DIP = {v \in wrong : v[1] \notin who}
          /\ entries.DIP = plain.DIP
          /\ entries.SRP = {v \in plain.SRP : v[1] \notin who}
  BY DEF DetectorsAgree
<1> DEFINE E == ImportsOf(p)
           roles == RolesOf(p, E)
           accepted == who \X {"DIP"}
           wrong == {v \in ComputeHexaViolations(roles, E) : roles[v[1]] = "domain"}
           classified == ComputeHexaClassification(p.services, E, Leaving(p))
           Scan(given, ok) ==
             ComputeSOLIDScan(p.services, E, Leaving(p), p.classes, p.domainOf, given, ok)
<1>1. \A given, ok : /\ Scan(given, ok).DIP = ComputeDIPViolations(classified, E, ok)
                     /\ Scan(given, ok).SRP = ComputeSRPViolations(p.services, E, ResolveRoles(classified, given),
                                                                   p.domainOf, ok)
  BY DEF ComputeSOLIDScan
<1>2. DOMAIN p.services = Names /\ DOMAIN classified = DOMAIN p.services
  BY HealthReportsAssumption, RolesGiven
<1>3. ComputeDIPViolations(classified, E, accepted) = {v \in wrong : v[1] \notin who}
  <2>1. \A v : v \in ComputeDIPViolations(classified, E, accepted) <=>
                  /\ v \in ComputeHexaViolations(roles, E)
                  /\ roles[v[1]] = "domain" /\ <<v[1], "DIP">> \notin accepted
    <3> HIDE DEF accepted
    <3>1. QED
      BY DIPFound
  <2>2. \A v : <<v[1], "DIP">> \in accepted <=> v[1] \in who
    OBVIOUS
  <2> HIDE DEF accepted, roles, classified
  <2>3. \A v : v \in ComputeDIPViolations(classified, E, accepted) <=> v \in wrong /\ v[1] \notin who
    BY <2>1, <2>2
  <2> HIDE DEF wrong
  <2>4. QED
    BY <2>3
<1> HIDE DEF classified, Scan, E, wrong, accepted
<1>4. ComputeSRPViolations(p.services, E, ResolveRoles(classified, Entrypoints(who)), p.domainOf, {})
        = {v \in ComputeSRPViolations(p.services, E, ResolveRoles(classified, NoRoles), p.domainOf, {}) :
             v[1] \notin who}
  BY <1>2, SRPFound
<1>5. /\ Scan([n \in who |-> "app"], accepted).DIP = {v \in wrong : v[1] \notin who}
      /\ Scan(Entrypoints(who), {}).DIP = Scan(NoRoles, {}).DIP
      /\ Scan(Entrypoints(who), {}).SRP = {v \in Scan(NoRoles, {}).SRP : v[1] \notin who}
  <2>1. Scan([n \in who |-> "app"], accepted).DIP = {v \in wrong : v[1] \notin who}
    BY <1>1, <1>3
  <2>2. Scan(Entrypoints(who), {}).DIP = Scan(NoRoles, {}).DIP
    BY <1>1
  <2>3. /\ Scan(Entrypoints(who), {}).SRP
              = ComputeSRPViolations(p.services, E, ResolveRoles(classified, Entrypoints(who)), p.domainOf, {})
        /\ Scan(NoRoles, {}).SRP
              = ComputeSRPViolations(p.services, E, ResolveRoles(classified, NoRoles), p.domainOf, {})
    BY <1>1
  <2>4. QED
    BY <1>4, <2>1, <2>2, <2>3
<1>6. QED
  BY <1>5 DEF Scan, E, wrong, accepted, Entrypoints, NoRoles

(* Of interfaces with one name there is a last one.                          *)
LEMMA LastNamesake ==
  ASSUME NEW classes, DOMAIN classes = 1..Len(classes), Len(classes) \in Nat,
         NEW i \in DOMAIN classes, classes[i].kind = "interface"
  PROVE  \E j \in DOMAIN classes :
           /\ classes[j].kind = "interface" /\ classes[j].name = classes[i].name
           /\ \A k \in DOMAIN classes : classes[k].kind = "interface" =>
                (classes[k].name = classes[j].name => k <= j)
<1> DEFINE alike == {k \in DOMAIN classes : classes[k].kind = "interface" /\ classes[k].name = classes[i].name}
<1>1. alike \in SUBSET Int /\ i \in alike
  OBVIOUS
<1>2. IsFiniteSet(1..Len(classes))
  BY FS_Interval
<1>3. IsFiniteSet(alike)
  <2>1. alike \in SUBSET (1..Len(classes))
    OBVIOUS
  <2> HIDE DEF alike
  <2>2. QED
    BY <1>2, <2>1, FS_Subset
<1> HIDE DEF alike
<1>4. PICK j \in alike : \A k \in alike : k <= j
  <2>1. alike # {}
    BY <1>1
  <2>2. QED
    BY <1>1, <1>3, <2>1, GreatestOf
<1>5. QED
  BY <1>4 DEF alike

(* Part of RolesJudged: crossings and orphans are those the imports make.    *)
LEMMA OutsideSeenWell ==
  ASSUME edges \in Graphs
  PROVE  OutsideSeen
<1> SUFFICES ASSUME NEW p \in Projects
    PROVE
      LET Serves(n) == \E t \in p.served : <<n, t>> \in Imports
          metrics == ComputeInterfaceMetrics(p.classes,
                       {<<e[1], p.classes[e[2]].name>> : e \in {i \in Imports : i[2] \in DOMAIN p.classes}})
          Implemented(i) == \E e \in Imports : e[2] \in DOMAIN p.classes
                                                 /\ p.classes[e[2]].name = p.classes[i].name
      IN  /\ ComputeTrustBoundaries(p.services, Imports, [n \in {} |-> ""], p.served).Crossings
               = {e \in Imports : Serves(e[1]) # Serves(e[2])}
          /\ metrics.Orphans = {i \in metrics.Interfaces : ~Implemented(i)}
          /\ \A i \in DOMAIN p.classes : p.classes[i].kind = "interface" =>
               \E j \in metrics.Interfaces : p.classes[j].name = p.classes[i].name
  BY DEF OutsideSeen
<1> DEFINE Serves(n) == \E t \in p.served : <<n, t>> \in Imports
           inside == {i \in Imports : i[2] \in DOMAIN p.classes}
           implements == {<<e[1], p.classes[e[2]].name>> : e \in inside}
           metrics == ComputeInterfaceMetrics(p.classes, implements)
           Implemented(i) == \E e \in Imports : e[2] \in DOMAIN p.classes
                                                  /\ p.classes[e[2]].name = p.classes[i].name
           classes == p.classes
           none == [n \in {} |-> ""]
           zone == [n \in DOMAIN p.services |-> InferTrustZone(n, Imports, none, p.served)]
<1>1. Imports \in Graphs
  BY ImportsGraph
<1>2. DOMAIN p.services = Names /\ DOMAIN classes = 1..Len(classes) /\ Len(classes) \in Nat
  BY HealthReportsAssumption
<1>3. ComputeTrustBoundaries(p.services, Imports, none, p.served).Crossings
        = {e \in Imports : Serves(e[1]) # Serves(e[2])}
  <2>1. \A n \in Names : zone[n] = IF Serves(n) THEN "boundary" ELSE "domain"
    <3>1. ASSUME NEW n \in Names PROVE zone[n] = IF Serves(n) THEN "boundary" ELSE "domain"
      <4>1. zone[n] = InferTrustZone(n, Imports, none, p.served)
        BY <1>2
      <4>2. DOMAIN none = {}
        OBVIOUS
      <4>3. Targets(Imports, {n}) \cap p.served # {} <=> Serves(n)
        BY <1>1, TargetsOfOne
      <4> HIDE DEF zone, none, Serves
      <4>4. QED
        BY <4>1, <4>2, <4>3 DEF InferTrustZone
    <3>2. QED
      BY <3>1
  <2>2. ComputeTrustBoundaries(p.services, Imports, none, p.served).Crossings
          = {e \in Imports : {e[1], e[2]} \subseteq DOMAIN zone /\ zone[e[1]] # zone[e[2]]}
    BY DEF ComputeTrustBoundaries
  <2>3. DOMAIN zone = Names
    BY <1>2
  <2> HIDE DEF zone
  <2>4. ASSUME NEW e \in Imports
        PROVE  ({e[1], e[2]} \subseteq DOMAIN zone /\ zone[e[1]] # zone[e[2]]) <=> Serves(e[1]) # Serves(e[2])
    <3>1. e[1] \in Names /\ e[2] \in Names
      BY <1>1, PairOfNames
    <3> HIDE DEF Serves
    <3>2. zone[e[1]] # zone[e[2]] <=> ~(Serves(e[1]) <=> Serves(e[2]))
      BY <2>1, <3>1
    <3>3. {e[1], e[2]} \subseteq DOMAIN zone
      BY <2>3, <3>1
    <3> USE DEF Serves
    <3>4. Serves(e[1]) \in BOOLEAN /\ Serves(e[2]) \in BOOLEAN
      OBVIOUS
    <3>5. ~(Serves(e[1]) <=> Serves(e[2])) <=> Serves(e[1]) # Serves(e[2])
      OBVIOUS
    <3> HIDE DEF Serves
    <3>6. QED
      BY <3>2, <3>3, <3>5
  <2> HIDE DEF Serves, none
  <2>5. QED
    BY <2>2, <2>4
<1>4. metrics.Orphans = {i \in metrics.Interfaces : ~Implemented(i)}
  <2> DEFINE Implementors(i) == {q \in implements : q[2] = classes[i].name}
  <2>1. metrics.Orphans = {i \in metrics.Interfaces : Implementors(i) = {}}
    BY DEF ComputeInterfaceMetrics
  <2>2. ASSUME NEW i PROVE Implementors(i) = {} <=> ~Implemented(i)
    <3>1. ASSUME NEW q \in Implementors(i) PROVE Implemented(i)
      <4>1. PICK e \in inside : q = <<e[1], p.classes[e[2]].name>>
        BY <3>1
      <4>2. q[2] = p.classes[e[2]].name
        BY <4>1
      <4>3. QED
        BY <3>1, <4>2
    <3>2. ASSUME Implemented(i) PROVE Implementors(i) # {}
      <4>1. PICK e \in Imports : e[2] \in DOMAIN p.classes /\ p.classes[e[2]].name = p.classes[i].name
        BY <3>2
      <4>2. e \in inside
        BY <4>1
      <4>3. <<e[1], p.classes[e[2]].name>> \in Implementors(i)
        BY <4>1, <4>2
      <4>4. QED
        BY <4>3
    <3> HIDE DEF Implementors, Implemented
    <3>3. QED
      BY <3>1, <3>2
  <2> HIDE DEF metrics, Implementors, Implemented
  <2>3. QED
    BY <2>1, <2>2
<1>5. ASSUME NEW i \in DOMAIN p.classes, p.classes[i].kind = "interface"
      PROVE  \E j \in metrics.Interfaces : p.classes[j].name = p.classes[i].name
  <2>1. metrics.Interfaces
          = {k \in {k \in DOMAIN classes : classes[k].kind = "interface"} :
               \A j \in {j \in DOMAIN classes : classes[j].kind = "interface"} :
                    classes[j].name = classes[k].name => j <= k}
    BY DEF ComputeInterfaceMetrics
  <2> HIDE DEF metrics
  <2>2. PICK j \in DOMAIN classes :
           /\ classes[j].kind = "interface" /\ classes[j].name = classes[i].name
           /\ \A k \in DOMAIN classes : classes[k].kind = "interface" =>
                (classes[k].name = classes[j].name => k <= j)
    BY <1>2, <1>5, LastNamesake
  <2>3. j \in metrics.Interfaces
    BY <2>1, <2>2
  <2>4. QED
    BY <2>2, <2>3
<1>6. QED
  BY <1>3, <1>4, <1>5

------------------------------------------------------------------------------
(* Cycles, as chains and as walks.                                           *)

(* Sequences of nodes along k edges.                                         *)
Paths(E, k) == {c \in [1..k + 1 -> Names] : \A i \in 1..k : <<c[i], c[i + 1]>> \in E}

(* What is between two places of a path is a walk.                           *)
LEMMA PathWalks ==
  ASSUME NEW E \in Graphs, NEW k \in Nat, NEW c \in Paths(E, k), NEW i \in 1..k + 1, NEW j \in i..k + 1
  PROVE  <<c[i], c[j]>> \in Walks(E, j - i)
<1> DEFINE S == {d \in Nat : i + d <= k + 1 => <<c[i], c[i + d]>> \in Walks(E, d)}
<1>1. \A m \in 1..k + 1 : c[m] \in Names
  BY DEF Paths
<1>2. 0 \in S
  <2>1. i + 0 = i
    OBVIOUS
  <2>2. <<c[i], c[i]>> \in Walks(E, 0)
    BY <1>1, WalkZero
  <2>3. QED
    BY <2>1, <2>2
<1>3. ASSUME NEW d \in Nat, d \in S PROVE d + 1 \in S
  <2>1. SUFFICES ASSUME i + (d + 1) <= k + 1 PROVE <<c[i], c[i + (d + 1)]>> \in Walks(E, d + 1)
    OBVIOUS
  <2>2. i + d \in 1..k /\ i + (d + 1) = (i + d) + 1 /\ i + (d + 1) \in 1..k + 1 /\ i + d \in 1..k + 1
    BY <2>1
  <2>3. <<c[i], c[i + d]>> \in Walks(E, d)
    BY <1>3, <2>2
  <2>4. <<c[i + d], c[i + (d + 1)]>> \in E
    BY <2>2 DEF Paths
  <2>5. QED
    BY <1>1, <2>2, <2>3, <2>4, WalkRounds
<1> HIDE DEF S
<1>4. Nat \subseteq S
  BY <1>2, <1>3, Induction
<1>5. j - i \in Nat /\ i + (j - i) = j /\ i + (j - i) <= k + 1
  OBVIOUS
<1>6. j - i \in S
  BY <1>4, <1>5
<1>7. QED
  BY <1>5, <1>6 DEF S

(* A walk is the ends of some path.                                          *)
LEMMA WalkPath ==
  ASSUME NEW E \in Graphs, NEW k \in Nat, NEW a \in Names, NEW b \in Names, <<a, b>> \in Walks(E, k)
  PROVE  \E c \in Paths(E, k) : c[1] = a /\ c[k + 1] = b
<1> DEFINE Joined(j, y) == \E c \in Paths(E, j) : c[1] = a /\ c[j + 1] = y
           S == {j \in Nat : \A y \in Names : <<a, y>> \in Walks(E, j) => Joined(j, y)}
<1>1. 0 \in S
  <2>1. ASSUME NEW y \in Names, <<a, y>> \in Walks(E, 0) PROVE Joined(0, y)
    <3> DEFINE c == [i \in 1..0 + 1 |-> a]
    <3>1. a = y
      BY <2>1, WalkZero
    <3>2. c \in Paths(E, 0)
      BY DEF Paths
    <3>3. c[1] = a /\ c[0 + 1] = y
      BY <3>1
    <3> HIDE DEF c
    <3>4. QED
      BY <3>2, <3>3
  <2> HIDE DEF Joined
  <2>2. QED
    BY <2>1
<1>2. ASSUME NEW j \in Nat, j \in S PROVE j + 1 \in S
  <2>1. ASSUME NEW y \in Names, <<a, y>> \in Walks(E, j + 1) PROVE Joined(j + 1, y)
    <3>1. PICK z \in Names : <<a, z>> \in Walks(E, j) /\ <<z, y>> \in E
      BY <2>1, WalkRounds
    <3>2. Joined(j, z)
      BY <1>2, <3>1
    <3>3. PICK c \in Paths(E, j) : c[1] = a /\ c[j + 1] = z
      BY <3>2
    <3> DEFINE d == [i \in 1..(j + 1) + 1 |-> IF i = (j + 1) + 1 THEN y ELSE c[i]]
    <3>4. \A i \in 1..j + 1 : c[i] \in Names
      BY DEF Paths
    <3>5. d \in [1..(j + 1) + 1 -> Names]
      BY <3>4
    <3>6. ASSUME NEW i \in 1..j + 1 PROVE <<d[i], d[i + 1]>> \in E
      <4>1. CASE i = j + 1
        BY <3>1, <3>3, <4>1
      <4>2. CASE i # j + 1
        <5>1. i \in 1..j /\ d[i] = c[i] /\ d[i + 1] = c[i + 1]
          BY <4>2
        <5>2. QED
          BY <5>1 DEF Paths
      <4>3. QED
        BY <4>1, <4>2
    <3>7. d[1] = a /\ d[(j + 1) + 1] = y
      BY <3>3
    <3> HIDE DEF d
    <3>8. d \in Paths(E, j + 1)
      BY <3>5, <3>6 DEF Paths
    <3>9. QED
      BY <3>7, <3>8
  <2> HIDE DEF Joined
  <2>2. QED
    BY <2>1
<1> HIDE DEF S
<1>3. Nat \subseteq S
  BY <1>1, <1>2, Induction
<1>4. QED
  BY <1>3 DEF S

(* A walk of j edges and one of k are one of their sum.                      *)
LEMMA WalksJoin ==
  ASSUME NEW E \in Graphs, NEW j \in Nat, NEW k \in Nat, NEW a \in Names, NEW b \in Names, NEW c \in Names,
         <<a, b>> \in Walks(E, j), <<b, c>> \in Walks(E, k)
  PROVE  <<a, c>> \in Walks(E, j + k)
<1> DEFINE S == {i \in Nat : \A y \in Names : <<b, y>> \in Walks(E, i) => <<a, y>> \in Walks(E, j + i)}
<1>1. 0 \in S
  <2>1. j + 0 = j
    OBVIOUS
  <2>2. QED
    BY <2>1, WalkZero
<1>2. ASSUME NEW i \in Nat, i \in S PROVE i + 1 \in S
  <2>1. ASSUME NEW y \in Names, <<b, y>> \in Walks(E, i + 1) PROVE <<a, y>> \in Walks(E, j + (i + 1))
    <3>1. PICK z \in Names : <<b, z>> \in Walks(E, i) /\ <<z, y>> \in E
      BY <2>1, WalkRounds
    <3>2. <<a, z>> \in Walks(E, j + i) /\ j + i \in Nat /\ (j + i) + 1 = j + (i + 1)
      BY <1>2, <3>1
    <3>3. <<a, y>> \in Walks(E, (j + i) + 1)
      BY <3>1, <3>2, WalkRounds
    <3>4. QED
      BY <3>2, <3>3
  <2>2. QED
    BY <2>1
<1> HIDE DEF S
<1>3. Nat \subseteq S
  BY <1>1, <1>2, Induction
<1>4. QED
  BY <1>3 DEF S

(* Chains are paths that meet no node twice.                                 *)
Simple(E, k) ==
    {c \in Paths(E, k) : /\ \A i \in 1..k + 1 : c[i] \in Nodes(E)
                         /\ \A i, j \in 1..k + 1 : c[i] = c[j] => i = j}

(* The chains that DFS grows by an edge.                                     *)
Longer(E, C) ==
    UNION {{Append(c, n) : n \in Targets(E, {c[Len(c)]}) \ Range(c)} : c \in C}

(* The chains of each length, as the source of CycleNodes grows them.        *)
ChainsOf(E) ==
    CHOOSE chains : chains = [k \in Nat |->
          IF k = 0 THEN {<<n>> : n \in Nodes(E)}
          ELSE UNION {{Append(c, n) : n \in Targets(E, {c[Len(c)]}) \ Range(c)} :
                      c \in chains[k - 1]}]

(* A simple chain is a sequence of names.                                    *)
LEMMA SimpleSeq ==
  ASSUME NEW E \in Graphs, NEW k \in Nat, NEW c \in Simple(E, k)
  PROVE  /\ c \in Seq(Names) /\ Len(c) = k + 1 /\ DOMAIN c = 1..k + 1
         /\ \A x : x \in Range(c) <=> \E i \in 1..k + 1 : c[i] = x
<1>1. c \in [1..k + 1 -> Names] /\ k + 1 \in Nat
  BY DEF Simple, Paths
<1>2. c \in Seq(Names) /\ Len(c) = k + 1 /\ DOMAIN c = 1..k + 1
  BY <1>1
<1>3. QED
  BY <1>2 DEF Range

(* A sequence with one more at its end.                                      *)
LEMMA AppendIs ==
  ASSUME NEW c \in Seq(Names), NEW m \in Nat, Len(c) = m, NEW n \in Names
  PROVE  Append(c, n) = [i \in 1..m + 1 |-> IF i = m + 1 THEN n ELSE c[i]]
<1> DEFINE d == Append(c, n)
<1>1. /\ d \in Seq(Names) /\ Len(d) = m + 1 /\ d[m + 1] = n
      /\ \A i \in 1..m : d[i] = c[i]
  BY AppendProperties
<1> HIDE DEF d
<1>2. d = [i \in 1..Len(d) |-> d[i]]
  BY <1>1
<1>3. \A i \in 1..m + 1 : i = m + 1 \/ i \in 1..m
  OBVIOUS
<1>4. \A i \in 1..m + 1 : d[i] = IF i = m + 1 THEN n ELSE c[i]
  BY <1>1, <1>3
<1>5. d = [i \in 1..m + 1 |-> IF i = m + 1 THEN n ELSE c[i]]
  BY <1>1, <1>2, <1>4
<1>6. QED
  BY <1>5 DEF d

(* A simple chain grown by an edge to a new node is simple, and each         *)
(* longer one is grown so.                                                   *)
LEMMA SimpleLonger ==
  ASSUME NEW E \in Graphs, NEW k \in Nat
  PROVE  Longer(E, Simple(E, k)) = Simple(E, k + 1)
<1>0. k + 1 \in Nat /\ (k + 1) + 1 \in Nat
  OBVIOUS
<1>1. ASSUME NEW d \in Longer(E, Simple(E, k)) PROVE d \in Simple(E, k + 1)
  <2>1. PICK c \in Simple(E, k) : \E n \in Targets(E, {c[Len(c)]}) \ Range(c) : d = Append(c, n)
    BY <1>1 DEF Longer
  <2>2. PICK n \in Targets(E, {c[Len(c)]}) \ Range(c) : d = Append(c, n)
    BY <2>1
  <2>3. /\ c \in Seq(Names) /\ Len(c) = k + 1 /\ DOMAIN c = 1..k + 1
        /\ \A x : x \in Range(c) <=> \E i \in 1..k + 1 : c[i] = x
    BY SimpleSeq
  <2>4. <<c[k + 1], n>> \in E
    <3>1. n \in Targets(E, {c[k + 1]})
      BY <2>3
    <3>2. QED
      BY <3>1, TargetsOfOne
  <2>5. n \in Names /\ n \in Nodes(E)
    <3>1. <<c[k + 1], n>>[2] = n
      OBVIOUS
    <3>2. QED
      BY <2>4, <3>1, PairOfNames DEF Nodes
  <2>6. d = [i \in 1..(k + 1) + 1 |-> IF i = (k + 1) + 1 THEN n ELSE c[i]]
    BY <1>0, <2>2, <2>3, <2>5, AppendIs
  <2>7. \A i \in 1..k + 1 : d[i] = c[i] /\ c[i] \in Names /\ c[i] \in Nodes(E)
    BY <2>6 DEF Simple, Paths
  <2>8. d[(k + 1) + 1] = n
    BY <2>6
  <2>9. d \in [1..(k + 1) + 1 -> Names]
    BY <2>5, <2>6, <2>7
  <2>10. ASSUME NEW i \in 1..k + 1 PROVE <<d[i], d[i + 1]>> \in E
    <3>1. CASE i = k + 1
      BY <2>4, <2>7, <2>8, <3>1
    <3>2. CASE i # k + 1
      <4>1. i \in 1..k /\ i + 1 \in 1..k + 1
        BY <3>2
      <4>2. <<c[i], c[i + 1]>> \in E
        BY <4>1 DEF Simple, Paths
      <4>3. QED
        BY <2>7, <4>1, <4>2
    <3>3. QED
      BY <3>1, <3>2
  <2>11. ASSUME NEW i \in 1..(k + 1) + 1, NEW j \in 1..(k + 1) + 1, d[i] = d[j] PROVE i = j
    <3>1. \A m \in 1..k + 1 : c[m] # n
      BY <2>2, <2>3
    <3>2. \A m \in 1..(k + 1) + 1 : m \in 1..k + 1 \/ m = (k + 1) + 1
      OBVIOUS
    <3>3. \A l, m \in 1..k + 1 : c[l] = c[m] => l = m
      BY DEF Simple
    <3>4. CASE i \in 1..k + 1 /\ j \in 1..k + 1
      BY <2>7, <2>11, <3>3, <3>4
    <3>5. CASE i \in 1..k + 1 /\ j = (k + 1) + 1
      BY <2>7, <2>8, <2>11, <3>1, <3>5
    <3>6. CASE i = (k + 1) + 1 /\ j \in 1..k + 1
      BY <2>7, <2>8, <2>11, <3>1, <3>6
    <3>7. QED
      BY <3>2, <3>4, <3>5, <3>6
  <2>12. \A i \in 1..(k + 1) + 1 : d[i] \in Nodes(E)
    <3>1. \A m \in 1..(k + 1) + 1 : m \in 1..k + 1 \/ m = (k + 1) + 1
      OBVIOUS
    <3>2. QED
      BY <2>5, <2>7, <2>8, <3>1
  <2>13. d \in Paths(E, k + 1)
    BY <2>9, <2>10 DEF Paths
  <2>14. QED
    BY <2>11, <2>12, <2>13 DEF Simple
<1>2. ASSUME NEW d \in Simple(E, k + 1) PROVE d \in Longer(E, Simple(E, k))
  <2> DEFINE c == [i \in 1..k + 1 |-> d[i]]
             n == d[(k + 1) + 1]
  <2>1. /\ d \in [1..(k + 1) + 1 -> Names] /\ \A i \in 1..k + 1 : <<d[i], d[i + 1]>> \in E
        /\ \A i \in 1..(k + 1) + 1 : d[i] \in Nodes(E)
        /\ \A i, j \in 1..(k + 1) + 1 : d[i] = d[j] => i = j
    BY DEF Simple, Paths
  <2>2. (\A i \in 1..k + 1 : i \in 1..(k + 1) + 1) /\ (k + 1) + 1 \in 1..(k + 1) + 1
    OBVIOUS
  <2>3. c \in [1..k + 1 -> Names] /\ n \in Names
    BY <2>1, <2>2
  <2>4. \A i \in 1..k + 1 : c[i] = d[i]
    OBVIOUS
  <2>5. \A i \in 1..k : i \in 1..k + 1 /\ i + 1 \in 1..k + 1
    OBVIOUS
  <2>6. c \in Paths(E, k)
    <3>1. \A i \in 1..k : <<c[i], c[i + 1]>> \in E
      BY <2>1, <2>4, <2>5
    <3> HIDE DEF c
    <3>2. QED
      BY <2>3, <3>1 DEF Paths
  <2> HIDE DEF c
  <2>7. c \in Simple(E, k)
    BY <2>1, <2>2, <2>4, <2>6 DEF Simple
  <2>8. /\ c \in Seq(Names) /\ Len(c) = k + 1
        /\ \A x : x \in Range(c) <=> \E i \in 1..k + 1 : c[i] = x
    BY <2>7, SimpleSeq
  <2>9. n \notin Range(c)
    <3>1. \A i \in 1..k + 1 : i # (k + 1) + 1
      OBVIOUS
    <3>2. QED
      BY <2>1, <2>2, <2>4, <2>8, <3>1
  <2>10. <<c[k + 1], n>> \in E
    <3>1. k + 1 \in 1..k + 1
      OBVIOUS
    <3>2. QED
      BY <2>1, <2>4, <3>1
  <2>11. n \in Targets(E, {c[Len(c)]})
    BY <2>8, <2>10, TargetsOfOne
  <2>12. Append(c, n) = [i \in 1..(k + 1) + 1 |-> IF i = (k + 1) + 1 THEN n ELSE c[i]]
    BY <1>0, <2>3, <2>8, AppendIs
  <2>13. Append(c, n) = d
    <3> DEFINE a == [i \in 1..(k + 1) + 1 |-> IF i = (k + 1) + 1 THEN n ELSE c[i]]
    <3>1. \A m \in 1..(k + 1) + 1 : m \in 1..k + 1 \/ m = (k + 1) + 1
      OBVIOUS
    <3>2. \A i \in 1..(k + 1) + 1 : a[i] = d[i]
      BY <2>4, <3>1
    <3>3. a = d
      BY <2>1, <3>2
    <3>4. QED
      BY <2>12, <3>3
  <2>14. d \in {Append(c, m) : m \in Targets(E, {c[Len(c)]}) \ Range(c)}
    BY <2>9, <2>11, <2>13
  <2>15. QED
    BY <2>7, <2>14 DEF Longer
<1>3. QED
  BY <1>1, <1>2

(* The rounds of ChainsOf.                                                   *)
LEMMA ChainRounds ==
  ASSUME NEW E \in Graphs
  PROVE  \A k \in Nat : ChainsOf(E)[k] = Simple(E, k)
<1> DEFINE base == {<<n>> : n \in Nodes(E)}
           g == [k \in Nat |-> Simple(E, k)]
           Is(f) == f = [k \in Nat |-> IF k = 0 THEN base ELSE Longer(E, f[k - 1])]
           chains == ChainsOf(E)
<1>1. Simple(E, 0) = base
  <2>1. ASSUME NEW c \in Simple(E, 0) PROVE c \in base
    <3>1. c \in [1..0 + 1 -> Names] /\ c[1] \in Nodes(E)
      BY DEF Simple, Paths
    <3>2. c = <<c[1]>>
      BY <3>1
    <3>3. QED
      BY <3>1, <3>2
  <2>2. ASSUME NEW n \in Nodes(E) PROVE <<n>> \in Simple(E, 0)
    <3>1. n \in Names
      BY GraphFinite
    <3> DEFINE c == <<n>>
    <3>2. c \in [1..0 + 1 -> Names] /\ \A i \in 1..0 + 1 : c[i] = n /\ i = 1
      BY <3>1
    <3> HIDE DEF c
    <3>3. c \in Simple(E, 0)
      BY <3>2 DEF Simple, Paths
    <3>4. QED
      BY <3>3 DEF c
  <2>3. QED
    BY <2>1, <2>2
<1>2. \A k \in Nat : Longer(E, Simple(E, k)) = Simple(E, k + 1)
  BY SimpleLonger
<1>3. \A k \in Nat : k # 0 => k - 1 \in Nat /\ (k - 1) + 1 = k
  OBVIOUS
<1>4. Is(g)
  <2> HIDE DEF base
  <2>1. \A k \in Nat : g[k] = IF k = 0 THEN base ELSE Longer(E, g[k - 1])
    BY <1>1, <1>2, <1>3
  <2>2. QED
    BY <2>1
<1>5. Is(chains)
  <2>1. \E f : Is(f)
    BY <1>4
  <2>2. chains = CHOOSE f : Is(f)
    BY DEF ChainsOf, Longer
  <2>3. QED
    BY <2>1, <2>2
<1> HIDE DEF chains, g, base
<1> DEFINE S == {k \in Nat : chains[k] = Simple(E, k)}
<1>6. 0 \in S
  BY <1>1, <1>5
<1>7. ASSUME NEW k \in Nat, k \in S PROVE k + 1 \in S
  <2>1. k + 1 \in Nat /\ k + 1 # 0 /\ (k + 1) - 1 = k
    OBVIOUS
  <2>2. chains[k + 1] = Longer(E, chains[k])
    BY <1>5, <2>1
  <2>3. QED
    BY <1>2, <1>7, <2>1, <2>2
<1> HIDE DEF S
<1>8. Nat \subseteq S
  BY <1>6, <1>7, Induction
<1>9. QED
  BY <1>8 DEF S, chains

(* The chains of k edges are the simple ones.                                *)
LEMMA ChainsAreSimple ==
  ASSUME NEW E \in Graphs
  PROVE  /\ Cardinality(Nodes(E)) \in Nat
         /\ Chains(E) = UNION {Simple(E, k) : k \in 0..Cardinality(Nodes(E))}
<1> DEFINE n == Cardinality(Nodes(E))
<1>1. n \in Nat
  BY GraphFinite, FS_CardinalityType
<1>2. Chains(E) = UNION {ChainsOf(E)[k] : k \in 0..n}
  BY DEF Chains, ChainsOf
<1> HIDE DEF n
<1>3. \A k \in 0..n : ChainsOf(E)[k] = Simple(E, k)
  BY <1>1, ChainRounds
<1>4. QED
  BY <1>1, <1>2, <1>3 DEF n

(* What is on an elementary cycle is linked to itself.                       *)
LEMMA CycleLinks ==
  ASSUME NEW E \in Graphs, NEW n \in CycleNodes(E)
  PROVE  n \in OnCycle(E)
<1>1. PICK c \in DetectCycles(E) : n \in Range(c)
  BY DEF CycleNodes
<1>2. c \in Chains(E) /\ <<c[Len(c)], c[1]>> \in E
  BY <1>1 DEF DetectCycles
<1>3. PICK k \in 0..Cardinality(Nodes(E)) : c \in Simple(E, k)
  BY <1>2, ChainsAreSimple
<1>4. k \in Nat
  BY ChainsAreSimple
<1>5. /\ Len(c) = k + 1
      /\ \A x : x \in Range(c) <=> \E i \in 1..k + 1 : c[i] = x
  BY <1>3, <1>4, SimpleSeq
<1>6. PICK i \in 1..k + 1 : c[i] = n
  BY <1>1, <1>5
<1>7. c \in Paths(E, k) /\ \A m \in 1..k + 1 : c[m] \in Names
  BY <1>3 DEF Simple, Paths
<1>8. 1 \in 1..k + 1 /\ k + 1 \in i..k + 1 /\ i \in 1..k + 1 /\ i - 1 \in Nat /\ (k + 1) - i \in Nat
  BY <1>4
<1>9. <<c[1], c[i]>> \in Walks(E, i - 1)
  BY <1>4, <1>7, <1>8, PathWalks
<1>10. <<c[i], c[k + 1]>> \in Walks(E, (k + 1) - i)
  BY <1>4, <1>7, <1>8, PathWalks
<1>11. k + 1 \in 1..k + 1 /\ c[k + 1] \in Names /\ c[1] \in Names /\ n \in Names
  BY <1>4, <1>6, <1>7, <1>8
<1> DEFINE a == (k + 1) - i
           b == i - 1
<1>12. a \in Nat /\ b \in Nat /\ a + 1 \in Nat /\ (a + 1) + b \in Nat \ {0}
  BY <1>8
<1>13. <<n, c[k + 1]>> \in Walks(E, a) /\ <<c[1], n>> \in Walks(E, b) /\ <<c[k + 1], c[1]>> \in E
  BY <1>2, <1>5, <1>6, <1>9, <1>10
<1> HIDE DEF a, b
<1>14. <<n, c[1]>> \in Walks(E, a + 1)
  BY <1>11, <1>12, <1>13, WalkRounds
<1>15. <<n, n>> \in Walks(E, (a + 1) + b)
  BY <1>11, <1>12, <1>13, <1>14, WalksJoin
<1>16. <<n, n>> \in Linked(E)
  BY <1>11, <1>12, <1>15, WalkLinked
<1>17. QED
  BY <1>11, <1>16 DEF OnCycle

(* A shortest closed walk meets no node twice.                               *)
LEMMA ShortestClosed ==
  ASSUME NEW E \in Graphs, NEW n \in Names, NEW k \in Nat, <<n, n>> \in Walks(E, k + 1),
         \A j \in Nat \ {0} : <<n, n>> \in Walks(E, j) => k + 1 <= j
  PROVE  \E c \in Simple(E, k) : c[1] = n /\ <<c[k + 1], c[1]>> \in E
<1>0. k + 1 \in Nat
  OBVIOUS
<1>1. PICK w \in Paths(E, k + 1) : w[1] = n /\ w[(k + 1) + 1] = n
  BY <1>0, WalkPath
<1>2. \A i \in 1..k + 1 : <<w[i], w[i + 1]>> \in E
  BY DEF Paths
<1>3. \A i \in 1..(k + 1) + 1 : w[i] \in Names
  BY DEF Paths
<1> DEFINE c == [i \in 1..k + 1 |-> w[i]]
<1>4. \A i \in 1..k + 1 : i \in 1..(k + 1) + 1 /\ c[i] = w[i]
  OBVIOUS
<1>5. c \in Paths(E, k)
  <2>1. c \in [1..k + 1 -> Names]
    BY <1>3, <1>4
  <2>2. \A i \in 1..k : i \in 1..k + 1 /\ i + 1 \in 1..k + 1
    OBVIOUS
  <2> HIDE DEF c
  <2>3. QED
    BY <1>2, <1>4, <2>1, <2>2 DEF Paths
<1> HIDE DEF c
<1>6. \A i \in 1..k + 1 : c[i] \in Nodes(E)
  <2>1. ASSUME NEW i \in 1..k + 1 PROVE c[i] \in Nodes(E)
    <3>1. <<w[i], w[i + 1]>> \in E /\ c[i] = w[i]
      BY <1>2, <1>4
    <3>2. <<w[i], w[i + 1]>>[1] = w[i]
      OBVIOUS
    <3>3. QED
      BY <3>1, <3>2 DEF Nodes
  <2>2. QED
    BY <2>1
<1>7. ASSUME NEW i \in 1..k + 1, NEW j \in 1..k + 1, c[i] = c[j], i < j PROVE FALSE
  <2>1. 1 \in 1..(k + 1) + 1 /\ i \in 1..(k + 1) + 1 /\ j \in 1..(k + 1) + 1
        /\ (k + 1) + 1 \in j..(k + 1) + 1
    OBVIOUS
  <2> DEFINE a == i - 1
             b == (k + 1) + 1 - j
  <2>2. a \in Nat /\ b \in Nat /\ a + b \in Nat \ {0} /\ a + b < k + 1
    BY <1>7
  <2>3. <<w[1], w[i]>> \in Walks(E, a)
    BY <1>0, <2>1, PathWalks
  <2>4. <<w[j], w[(k + 1) + 1]>> \in Walks(E, b)
    BY <1>0, <2>1, PathWalks
  <2>5. w[i] = w[j] /\ w[i] \in Names
    BY <1>3, <1>4, <1>7
  <2> HIDE DEF a, b
  <2>6. <<n, n>> \in Walks(E, a + b)
    BY <1>1, <2>2, <2>3, <2>4, <2>5, WalksJoin
  <2>7. k + 1 <= a + b
    BY <2>2, <2>6
  <2>8. QED
    BY <2>2, <2>7
<1>8. \A i, j \in 1..k + 1 : c[i] = c[j] => i = j
  <2>1. SUFFICES ASSUME NEW i \in 1..k + 1, NEW j \in 1..k + 1, c[i] = c[j], i # j PROVE FALSE
    OBVIOUS
  <2>2. i < j \/ j < i
    BY <2>1
  <2>3. QED
    BY <1>7, <2>1, <2>2
<1>9. c \in Simple(E, k)
  BY <1>5, <1>6, <1>8 DEF Simple
<1>10. c[1] = n /\ <<c[k + 1], c[1]>> \in E
  <2>1. 1 \in 1..k + 1 /\ k + 1 \in 1..k + 1
    OBVIOUS
  <2>2. c[1] = w[1] /\ c[k + 1] = w[k + 1] /\ <<w[k + 1], w[(k + 1) + 1]>> \in E
    BY <1>2, <1>4, <2>1
  <2>3. QED
    BY <1>1, <2>2
<1>11. QED
  BY <1>9, <1>10

(* The place i steps after place m on a cycle of so many nodes.              *)
Turned(m, size, i) == IF m + i - 1 <= size THEN m + i - 1 ELSE m + i - 1 - size

(* A cycle told from another of its nodes.                                   *)
Turns(E, k, c, m, d) ==
    /\ <<d[k + 1], d[1]>> \in E /\ d[1] = c[m]
    /\ \A i \in 1..k + 1 : \E j \in 1..k + 1 : d[j] = c[i]
    /\ \A i \in 1..k + 1 : \E j \in 1..k + 1 : d[i] = c[j]

(* It can be told from any.                                                  *)
LEMMA CycleTurns ==
  ASSUME NEW E \in Graphs, NEW k \in Nat, NEW c \in Simple(E, k), <<c[k + 1], c[1]>> \in E,
         NEW m \in 1..k + 1
  PROVE  \E d \in Simple(E, k) : Turns(E, k, c, m, d)
<1> DEFINE s == k + 1
           t(i) == Turned(m, s, i)
           d == [i \in 1..s |-> c[t(i)]]
<1>1. s \in Nat \ {0} /\ m \in 1..s /\ s - 1 = k
  OBVIOUS
<1>2. /\ c \in [1..s -> Names] /\ \A i \in 1..s : c[i] \in Nodes(E)
      /\ \A i, j \in 1..s : c[i] = c[j] => i = j
      /\ \A i \in 1..k : <<c[i], c[i + 1]>> \in E
  BY DEF Simple, Paths
<1>3. <<c[s], c[1]>> \in E
  OBVIOUS
<1> HIDE DEF s
<1>4. \A i \in 1..s : t(i) \in 1..s
  BY <1>1 DEF Turned
<1>5. \A i, j \in 1..s : t(i) = t(j) => i = j
  BY <1>1 DEF Turned
<1>6. t(1) = m /\ 1 \in 1..s /\ s \in 1..s
  BY <1>1 DEF Turned
<1>7. \A i \in 1..s : i # s => (t(i) = s /\ t(i + 1) = 1) \/ (t(i) \in 1..k /\ t(i + 1) = t(i) + 1)
  BY <1>1 DEF Turned
<1>8. (t(s) = s /\ m = 1) \/ (t(s) \in 1..k /\ m = t(s) + 1)
  BY <1>1 DEF Turned
<1>9. \A i \in 1..s : \E j \in 1..s : t(j) = i
  <2>1. ASSUME NEW i \in 1..s PROVE \E j \in 1..s : t(j) = i
    <3>1. CASE i >= m
      <4>1. i - m + 1 \in 1..s /\ t(i - m + 1) = i
        BY <1>1, <3>1 DEF Turned
      <4>2. QED
        BY <4>1
    <3>2. CASE i < m
      <4>1. i - m + 1 + s \in 1..s /\ t(i - m + 1 + s) = i
        BY <1>1, <3>2 DEF Turned
      <4>2. QED
        BY <4>1
    <3>3. QED
      BY <1>1, <3>1, <3>2
  <2>2. QED
    BY <2>1
<1> HIDE DEF t
<1>10. \A i \in 1..s : d[i] = c[t(i)]
  OBVIOUS
<1>11. d \in [1..s -> Names]
  BY <1>2, <1>4
<1> HIDE DEF d
<1>12. ASSUME NEW i \in 1..k PROVE <<d[i], d[i + 1]>> \in E
  <2>1. i \in 1..s /\ i + 1 \in 1..s /\ i # s
    BY <1>1
  <2>2. d[i] = c[t(i)] /\ d[i + 1] = c[t(i + 1)]
    BY <1>10, <2>1
  <2>3. QED
    BY <1>2, <1>3, <1>7, <2>1, <2>2
<1>13. <<d[s], d[1]>> \in E /\ d[1] = c[m]
  <2>1. d[s] = c[t(s)] /\ d[1] = c[m]
    BY <1>6, <1>10
  <2>2. QED
    BY <1>2, <1>3, <1>8, <2>1
<1>14. \A i, j \in 1..s : d[i] = d[j] => i = j
  BY <1>2, <1>4, <1>5, <1>10
<1>15. \A i \in 1..s : d[i] \in Nodes(E)
  BY <1>2, <1>4, <1>10
<1>16. d \in Simple(E, k)
  BY <1>11, <1>12, <1>14, <1>15 DEF Simple, Paths, s
<1>17. \A i \in 1..s : \E j \in 1..s : d[j] = c[i]
  <2>1. ASSUME NEW i \in 1..s PROVE \E j \in 1..s : d[j] = c[i]
    <3>1. PICK j \in 1..s : t(j) = i
      BY <1>9
    <3>2. QED
      BY <1>10, <3>1
  <2>2. QED
    BY <2>1
<1>18. \A i \in 1..s : \E j \in 1..s : d[i] = c[j]
  BY <1>4, <1>10
<1>19. QED
  BY <1>13, <1>16, <1>17, <1>18 DEF s, Turns

(* What is on a closed walk is on a cycle that CycleNodes finds.             *)
LEMMA ClosedWalkCycles ==
  ASSUME NEW E \in Graphs, NEW n \in OnCycle(E)
  PROVE  n \in CycleNodes(E)
<1>1. n \in Names /\ <<n, n>> \in Linked(E)
  BY DEF OnCycle
<1> DEFINE K == {j \in Nat \ {0} : <<n, n>> \in Walks(E, j)}
<1>2. K # {}
  <2>1. \E j \in 1..Size : <<n, n>> \in Walks(E, j)
    BY <1>1 DEF Linked
  <2>2. QED
    BY <2>1, NamesFinite
<1>3. PICK k1 \in K : \A j \in K : k1 <= j
  <2>1. K \in SUBSET Nat
    OBVIOUS
  <2> HIDE DEF K
  <2>2. QED
    BY <1>2, <2>1, LeastOf
<1> DEFINE k == k1 - 1
<1>4. k \in Nat /\ k + 1 = k1 /\ <<n, n>> \in Walks(E, k + 1)
      /\ \A j \in Nat \ {0} : <<n, n>> \in Walks(E, j) => k + 1 <= j
  BY <1>3
<1> HIDE DEF k, K
<1>5. PICK c \in Simple(E, k) : c[1] = n /\ <<c[k + 1], c[1]>> \in E
  BY <1>1, <1>4, ShortestClosed
<1>6. c \in [1..k + 1 -> Names] /\ 1 \in 1..k + 1
  BY <1>4 DEF Simple, Paths
<1>7. PICK m \in 1..k + 1 : \A i \in 1..k + 1 : c[m] <= c[i]
  <2> DEFINE V == {x \in Nat : \E i \in 1..k + 1 : c[i] = x}
  <2>1. \A i \in 1..k + 1 : c[i] \in Nat
    BY <1>6, NamesFinite
  <2>2. V \in SUBSET Nat /\ V # {}
    BY <1>6, <2>1
  <2>3. PICK x \in V : \A y \in V : x <= y
    <3> HIDE DEF V
    <3>1. QED
      BY <2>2, LeastOf
  <2>4. QED
    BY <2>1, <2>3
<1>8. PICK d \in Simple(E, k) : Turns(E, k, c, m, d)
  BY <1>4, <1>5, <1>7, CycleTurns
<1>9. \A i \in 1..k + 1 : d[1] <= d[i]
  BY <1>7, <1>8 DEF Turns
<1>10. /\ Len(d) = k + 1 /\ DOMAIN d = 1..k + 1
       /\ \A x : x \in Range(d) <=> \E i \in 1..k + 1 : d[i] = x
  BY <1>4, SimpleSeq
<1>11. k \in 0..Cardinality(Nodes(E))
  <2> DEFINE M == Cardinality(Nodes(E))
  <2>1. d \in [1..k + 1 -> Nodes(E)] /\ \A i, j \in 1..k + 1 : d[i] = d[j] => i = j
    BY DEF Simple, Paths
  <2>2. d \in Injection(1..k + 1, Nodes(E))
    BY <2>1 DEF Injection, IsInjective
  <2>3. IsFiniteSet(Nodes(E)) /\ M \in Nat
    BY GraphFinite, ChainsAreSimple
  <2>4. Cardinality(1..k + 1) <= M
    BY <2>2, <2>3, FS_Injection
  <2>5. Cardinality(1..k + 1) = k + 1
    <3>1. 1 \in Int /\ k + 1 \in Int /\ 1 <= k + 1
      BY <1>4
    <3>2. Cardinality(1..k + 1) = (k + 1) - 1 + 1
      BY <3>1, FS_Interval
    <3>3. QED
      BY <1>4, <3>2
  <2> HIDE DEF M
  <2>6. k <= M
    BY <1>4, <2>3, <2>4, <2>5
  <2>7. QED
    BY <1>4, <2>3, <2>6 DEF M
<1>12. d \in Chains(E)
  BY <1>11, ChainsAreSimple
<1>13. d \in DetectCycles(E)
  BY <1>8, <1>9, <1>10, <1>12 DEF DetectCycles, Turns
<1>14. n \in Range(d)
  BY <1>5, <1>6, <1>8, <1>10 DEF Turns
<1>15. QED
  BY <1>13, <1>14 DEF CycleNodes

(* The cycles the code detects are on the nodes that are linked to           *)
(* themselves, and on all of them.                                           *)
LEMMA CyclesFound ==
  ASSUME NEW E \in Graphs
  PROVE  CycleNodes(E) = OnCycle(E)
  BY CycleLinks, ClosedWalkCycles

(* The edges of a graph as a list, each once.                                *)
Lists(l, E) ==
    /\ DOMAIN l = 1..Len(l) /\ Len(l) \in Nat
    /\ \A i \in 1..Len(l) : l[i] \in E
    /\ \A e \in E : \E i \in 1..Len(l) : l[i] = e
    /\ \A i, j \in 1..Len(l) : l[i] = l[j] => i = j

(* SetToSeq lists a finite set, and Reverse turns the list round.            *)
LEMMA SetListed ==
  ASSUME NEW E, IsFiniteSet(E)
  PROVE  /\ Lists(SetToSeq(E), E)
         /\ Len(SetToSeq(E)) \in Nat
         /\ Reverse(SetToSeq(E)) = [i \in 1..Len(SetToSeq(E)) |-> SetToSeq(E)[(Len(SetToSeq(E)) - i) + 1]]
<1> DEFINE l == SetToSeq(E)
           n == Cardinality(E)
           Is(f) == f \in [1..n -> E] /\ IsInjective(f)
<1>1. n \in Nat /\ ExistsBijection(1..n, E)
  BY FS_CardinalityType
<1>2. \E f : Is(f)
  BY <1>1 DEF ExistsBijection, Bijection, Injection
<1>3. Is(l)
  BY <1>2 DEF SetToSeq
<1> HIDE DEF l
<1>4. l \in Injection(1..n, E)
  BY <1>3 DEF Injection
<1>5. Cardinality(1..n) = n
  <2>1. CASE n = 0
    <3>1. 1..n = {}
      BY <2>1
    <3>2. QED
      BY <2>1, <3>1, FS_EmptySet
  <2>2. CASE n # 0
    <3>1. 1 \in Int /\ n \in Int /\ 1 <= n
      BY <1>1, <2>2
    <3>2. Cardinality(1..n) = n - 1 + 1
      BY <3>1, FS_Interval
    <3>3. QED
      BY <1>1, <3>2
  <2>3. QED
    BY <2>1, <2>2
<1>6. l \in Surjection(1..n, E)
  BY <1>4, <1>5, FS_Injection
<1>7. \A e \in E : \E i \in 1..n : l[i] = e
  BY <1>6 DEF Surjection
<1>8. l \in Seq(E) /\ Len(l) = n /\ DOMAIN l = 1..n
  BY <1>1, <1>3
<1>9. Lists(l, E)
  BY <1>1, <1>3, <1>7, <1>8 DEF Lists, IsInjective
<1>10. Reverse(l) = [i \in 1..Len(l) |-> l[(Len(l) - i) + 1]]
  BY DEF Reverse
<1>11. QED
  BY <1>1, <1>8, <1>9, <1>10 DEF l

(* The list turned round lists the same edges.                               *)
LEMMA ReverseLists ==
  ASSUME NEW l, NEW E, Lists(l, E), NEW r, r = [i \in 1..Len(l) |-> l[(Len(l) - i) + 1]]
  PROVE  /\ Lists(r, E) /\ Len(r) = Len(l)
         /\ \A i \in 1..Len(l) : r[(Len(l) - i) + 1] = l[i]
<1> DEFINE n == Len(l)
<1>1. n \in Nat
  BY DEF Lists
<1> HIDE DEF n
<1>2. \A i \in 1..n : (n - i) + 1 \in 1..n /\ (n - ((n - i) + 1)) + 1 = i
  BY <1>1
<1>3. \A i \in 1..n : l[i] \in E
  BY DEF Lists, n
<1>4. r = [i \in 1..n |-> l[(n - i) + 1]]
  BY DEF n
<1>5. r \in [1..n -> E]
  BY <1>2, <1>3, <1>4
<1>6. r \in Seq(E) /\ Len(r) = n /\ DOMAIN r = 1..n
  BY <1>1, <1>5
<1>7. \A i \in 1..n : r[(n - i) + 1] = l[i]
  <2>1. ASSUME NEW i \in 1..n PROVE r[(n - i) + 1] = l[i]
    <3> DEFINE m == (n - i) + 1
    <3>1. m \in 1..n /\ (n - m) + 1 = i
      BY <1>2
    <3> HIDE DEF m
    <3>2. r[m] = l[(n - m) + 1]
      BY <1>4, <3>1
    <3>3. QED
      BY <3>1, <3>2 DEF m
  <2>2. QED
    BY <2>1
<1>8. \A e \in E : \E i \in 1..n : r[i] = e
  <2>1. ASSUME NEW e \in E PROVE \E i \in 1..n : r[i] = e
    <3>1. PICK j \in 1..n : l[j] = e
      BY DEF Lists, n
    <3>2. QED
      BY <1>2, <1>7, <3>1
  <2>2. QED
    BY <2>1
<1>9. \A i, j \in 1..n : r[i] = r[j] => i = j
  <2>1. ASSUME NEW i \in 1..n, NEW j \in 1..n, r[i] = r[j] PROVE i = j
    <3>1. l[(n - i) + 1] = l[(n - j) + 1]
      BY <1>4, <2>1
    <3>2. (n - i) + 1 = (n - j) + 1
      BY <1>2, <3>1 DEF Lists, n
    <3>3. QED
      BY <1>1, <3>2
  <2>2. QED
    BY <2>1
<1>10. QED
  BY <1>1, <1>5, <1>6, <1>7, <1>8, <1>9 DEF Lists, n

(* Of two edges between the same nodes the one listed first is judged.       *)
Judged(l, e) == l[Min({i \in DOMAIN l : l[i] \in {e, <<e[2], e[1]>>}})]

(* The judged edge is the same whichever of the two is asked.                *)
LEMMA JudgedOfTwo ==
  ASSUME NEW E \in Graphs, NEW l, Lists(l, E), NEW a, NEW b, a # b,
         NEW i \in 1..Len(l), NEW j \in 1..Len(l), l[i] = <<a, b>>, l[j] = <<b, a>>
  PROVE  /\ Judged(l, <<a, b>>) = IF i < j THEN <<a, b>> ELSE <<b, a>>
         /\ Judged(l, <<b, a>>) = Judged(l, <<a, b>>)
<1> DEFINE u == <<a, b>>
           v == <<b, a>>
           P == {m \in DOMAIN l : l[m] \in {u, v}}
<1>1. u # v /\ Len(l) \in Nat /\ DOMAIN l = 1..Len(l)
  BY DEF Lists
<1>2. P = {i, j} /\ i # j
  <2>1. \A m \in 1..Len(l) : l[m] = u => m = i
    BY DEF Lists
  <2>2. \A m \in 1..Len(l) : l[m] = v => m = j
    BY DEF Lists
  <2> HIDE DEF u, v
  <2>3. QED
    BY <1>1, <2>1, <2>2 DEF u, v
<1>3. Min(P) = IF i < j THEN i ELSE j
  <2> HIDE DEF P
  <2>1. i \in Int /\ j \in Int
    BY <1>1
  <2>2. Min({i, j}) = IF i <= j THEN i ELSE j
    BY <2>1, MinOfTwo
  <2>3. i <= j <=> i < j
    BY <1>2, <2>1
  <2>4. QED
    BY <1>2, <2>2, <2>3
<1>4. Judged(l, u) = l[Min(P)]
  <2>1. u[1] = a /\ u[2] = b
    OBVIOUS
  <2>2. QED
    BY <2>1 DEF Judged
<1>5. Judged(l, v) = l[Min(P)]
  <2>1. v[1] = b /\ v[2] = a
    OBVIOUS
  <2>2. {v, <<v[2], v[1]>>} = {u, v}
    BY <2>1
  <2>3. QED
    BY <2>2 DEF Judged
<1>6. QED
  BY <1>3, <1>4, <1>5

(* The mutual imports told, and when one is.                                 *)
Intimate(l, accepted) == ComputePatternScan(l, accepted).intimate

(* Which cycles and mutual imports ComputePatternScan tells.                 *)
LEMMA IntimateOf ==
  ASSUME NEW E \in Graphs, NEW l, Lists(l, E), NEW accepted
  PROVE  /\ ComputePatternScan(l, accepted).circular = {n \in CycleNodes(E) : <<n, "circular">> \notin accepted}
         /\ \A e : e \in Intimate(l, accepted) <=>
              /\ e \in E /\ <<e[2], e[1]>> \in E /\ Judged(l, e) = e
              /\ <<e[1], "intimate">> \notin accepted
<1>1. Range(l) = E
  BY DEF Lists, Range
<1> DEFINE scan == ComputePatternScan(l, accepted)
<1>2. /\ scan.circular = {n \in CycleNodes(Range(l)) : <<n, "circular">> \notin accepted}
      /\ scan.intimate = {e \in {e \in Range(l) : <<e[2], e[1]>> \in Range(l) /\ Judged(l, e) = e} :
                            <<e[1], "intimate">> \notin accepted}
  BY DEF ComputePatternScan, Judged
<1> HIDE DEF scan
<1>3. QED
  BY <1>1, <1>2 DEF scan, Intimate

(* A mutual import is told, in either direction.                             *)
Told(l, accepted, e) ==
    {e, <<e[2], e[1]>>} \in {{i, <<i[2], i[1]>>} : i \in Intimate(l, accepted)}

(* It is told unless the component it is told of accepts it.                 *)
LEMMA ToldOf ==
  ASSUME NEW E \in Graphs, NEW l, Lists(l, E), NEW accepted, NEW a, NEW b, a # b,
         <<a, b>> \in E, <<b, a>> \in E
  PROVE  Told(l, accepted, <<a, b>>) <=> <<Judged(l, <<a, b>>)[1], "intimate">> \notin accepted
<1> DEFINE u == <<a, b>>
           v == <<b, a>>
           J == Judged(l, u)
           found == Intimate(l, accepted)
<1>1. PICK g \in 1..Len(l), h \in 1..Len(l) : l[g] = u /\ l[h] = v
  BY DEF Lists
<1>2. (J = u \/ J = v) /\ Judged(l, v) = J
  BY <1>1, JudgedOfTwo
<1>3. u[1] = a /\ u[2] = b /\ v[1] = b /\ v[2] = a /\ u # v
  OBVIOUS
<1>4. u \in found <=> J = u /\ <<u[1], "intimate">> \notin accepted
  <2>1. <<u[2], u[1]>> \in E
    BY <1>3
  <2>2. QED
    BY <2>1, IntimateOf
<1>5. v \in found <=> J = v /\ <<v[1], "intimate">> \notin accepted
  <2>1. <<v[2], v[1]>> \in E
    BY <1>3
  <2>2. QED
    BY <1>2, <2>1, IntimateOf
<1>6. Told(l, accepted, u) <=> u \in found \/ v \in found
  <2>1. {u, <<u[2], u[1]>>} = {u, v}
    BY <1>3
  <2>2. Told(l, accepted, u) <=> \E i \in found : {i, <<i[2], i[1]>>} = {u, v}
    BY <2>1 DEF Told
  <2>3. ASSUME NEW i \in found, {i, <<i[2], i[1]>>} = {u, v} PROVE i = u \/ i = v
    BY <2>3
  <2>4. {u, <<u[2], u[1]>>} = {u, v} /\ {v, <<v[2], v[1]>>} = {u, v}
    BY <1>3
  <2> HIDE DEF u, v, found
  <2>5. QED
    BY <2>2, <2>3, <2>4
<1> HIDE DEF u, v, found, J
<1>7. QED
  BY <1>2, <1>4, <1>5, <1>6 DEF u, J

(* Two that import each other are on a cycle.                                *)
LEMMA MutualOnCycle ==
  ASSUME NEW E \in Graphs, NEW a, NEW b, <<a, b>> \in E, <<b, a>> \in E
  PROVE  {a, b} \subseteq OnCycle(E)
<1>1. a \in Names /\ b \in Names
  BY DEF Graphs
<1>2. <<a, b>> \in Linked(E) /\ <<b, a>> \in Linked(E)
  BY LinkedClosed
<1>3. <<a, a>> \in Linked(E) /\ <<b, b>> \in Linked(E)
  BY <1>1, <1>2, LinkedClosed
<1>4. QED
  BY <1>1, <1>3 DEF OnCycle

(* Part of RolesJudged: cycles and mutual imports are told.                  *)
LEMMA SmellsToldWell ==
  ASSUME edges \in Graphs
  PROVE  SmellsTold
<1> SUFFICES ASSUME NEW who \in SUBSET Names
    PROVE
      LET list == SetToSeq(Imports)
          accepted == who \X {"circular", "intimate"}
          Told0(l, e) == {e, <<e[2], e[1]>>} \in
                          {{i, <<i[2], i[1]>>} : i \in ComputePatternScan(l, accepted).intimate}
      IN  /\ ComputePatternScan(list, accepted).circular = OnCycle(Imports) \ who
          /\ \A e \in ComputePatternScan(list, {}).intimate :
               /\ {e[1], e[2]} \subseteq OnCycle(Imports)
               /\ <<e[2], e[1]>> \notin ComputePatternScan(list, {}).intimate
          /\ \A e \in {i \in Imports : <<i[2], i[1]>> \in Imports} :
               CASE {e[1], e[2]} \cap who = {} -> Told0(list, e) /\ Told0(Reverse(list), e)
                 [] {e[1], e[2]} \subseteq who -> ~Told0(list, e) /\ ~Told0(Reverse(list), e)
                 [] OTHER -> Told0(list, e) # Told0(Reverse(list), e)
  BY DEF SmellsTold
<1> DEFINE list == SetToSeq(Imports)
           back == Reverse(list)
           accepted == who \X {"circular", "intimate"}
           E == Imports
           n == Len(list)
<1>1. E \in Graphs /\ \A m : <<m, m>> \notin E
  BY ImportsGraph
<1>2. Lists(list, E) /\ n \in Nat /\ back = [i \in 1..n |-> list[(n - i) + 1]]
  BY <1>1, GraphFinite, SetListed
<1> HIDE DEF list, back, E
<1>3. Lists(back, E) /\ Len(back) = n /\ \A i \in 1..n : back[(n - i) + 1] = list[i]
  BY <1>2, ReverseLists
<1>4. \A m : /\ <<m, "circular">> \in accepted <=> m \in who
             /\ <<m, "intimate">> \in accepted <=> m \in who
  OBVIOUS
<1> HIDE DEF accepted
<1>5. ComputePatternScan(list, accepted).circular = OnCycle(E) \ who
  <2> DEFINE C == ComputePatternScan(list, accepted).circular
             N == CycleNodes(E)
  <2>1. C = {m \in N : <<m, "circular">> \notin accepted}
    BY <1>1, <1>2, IntimateOf
  <2>2. N = OnCycle(E)
    BY <1>1, CyclesFound
  <2> HIDE DEF C, N
  <2>3. \A m : m \in C <=> m \in OnCycle(E) /\ m \notin who
    BY <1>4, <2>1, <2>2
  <2>4. C = OnCycle(E) \ who
    BY <2>3
  <2>5. QED
    BY <2>4 DEF C
<1>6. ASSUME NEW e \in Intimate(list, {})
      PROVE  {e[1], e[2]} \subseteq OnCycle(E) /\ <<e[2], e[1]>> \notin Intimate(list, {})
  <2>1. e \in E /\ <<e[2], e[1]>> \in E /\ Judged(list, e) = e
    BY <1>1, <1>2, <1>6, IntimateOf
  <2> DEFINE a == e[1]
             b == e[2]
  <2>2. e = <<a, b>>
    BY <1>1, <2>1, PairOfNames
  <2> HIDE DEF a, b
  <2>3. <<a, b>> \in E /\ <<b, a>> \in E /\ a # b
    BY <1>1, <2>1, <2>2 DEF a, b
  <2>4. PICK i \in 1..n, j \in 1..n : list[i] = <<a, b>> /\ list[j] = <<b, a>>
    BY <1>2, <2>3 DEF Lists
  <2>5. Judged(list, <<b, a>>) = Judged(list, <<a, b>>)
    BY <1>1, <1>2, <2>3, <2>4, JudgedOfTwo
  <2>6. Judged(list, <<b, a>>) # <<b, a>>
    BY <2>1, <2>2, <2>3, <2>5
  <2>7. <<b, a>> \notin Intimate(list, {})
    <3> DEFINE v == <<b, a>>
               found == Intimate(list, {})
    <3>1. \A x : x \in found => Judged(list, x) = x
      BY <1>1, <1>2, IntimateOf
    <3> HIDE DEF v, found
    <3>2. v \in found => Judged(list, v) = v
      BY <3>1
    <3>3. QED
      BY <2>6, <3>2 DEF v, found
  <2>8. {a, b} \subseteq OnCycle(E)
    BY <1>1, <2>3, MutualOnCycle
  <2>9. QED
    BY <2>7, <2>8 DEF a, b
<1>7. ASSUME NEW e \in E, <<e[2], e[1]>> \in E
      PROVE  CASE {e[1], e[2]} \cap who = {} -> Told(list, accepted, e) /\ Told(back, accepted, e)
               [] {e[1], e[2]} \subseteq who -> ~Told(list, accepted, e) /\ ~Told(back, accepted, e)
               [] OTHER -> Told(list, accepted, e) # Told(back, accepted, e)
  <2> DEFINE a == e[1]
             b == e[2]
  <2>1. e = <<a, b>>
    BY <1>1, PairOfNames
  <2>2. <<a, b>> \in E /\ <<b, a>> \in E
    BY <1>7, <2>1
  <2> HIDE DEF a, b
  <2>3. a # b
    BY <1>1, <2>2
  <2>4. PICK i \in 1..n, j \in 1..n : list[i] = <<a, b>> /\ list[j] = <<b, a>>
    BY <1>2, <2>2 DEF Lists
  <2>5. i # j
    BY <2>3, <2>4
  <2>6. Judged(list, <<a, b>>) = IF i < j THEN <<a, b>> ELSE <<b, a>>
    <3>1. i \in 1..Len(list) /\ j \in 1..Len(list)
      OBVIOUS
    <3>2. E \in Graphs /\ Lists(list, E)
      BY <1>1, <1>2
    <3> HIDE DEF n
    <3>3. QED
      BY <2>3, <2>4, <3>1, <3>2, JudgedOfTwo
  <2> DEFINE i2 == (n - i) + 1
             j2 == (n - j) + 1
  <2>7. i2 \in 1..n /\ j2 \in 1..n /\ (i2 < j2 <=> j < i) /\ back[i2] = <<a, b>> /\ back[j2] = <<b, a>>
    BY <1>2, <1>3, <2>4
  <2> HIDE DEF i2, j2
  <2>8. Judged(back, <<a, b>>) = IF i2 < j2 THEN <<a, b>> ELSE <<b, a>>
    BY <1>1, <1>3, <2>3, <2>7, JudgedOfTwo
  <2>9. \/ Judged(list, <<a, b>>)[1] = a /\ Judged(back, <<a, b>>)[1] = b
        \/ Judged(list, <<a, b>>)[1] = b /\ Judged(back, <<a, b>>)[1] = a
    <3>1. i \in Int /\ j \in Int
      BY <1>2
    <3>2. CASE i < j
      BY <2>6, <2>7, <2>8, <3>1, <3>2
    <3>3. CASE j < i
      BY <2>6, <2>7, <2>8, <3>1, <3>3
    <3>4. QED
      BY <2>5, <3>1, <3>2, <3>3
  <2>10. Told(list, accepted, e) <=> Judged(list, <<a, b>>)[1] \notin who
    BY <1>1, <1>2, <1>4, <2>1, <2>2, <2>3, ToldOf
  <2>11. Told(back, accepted, e) <=> Judged(back, <<a, b>>)[1] \notin who
    BY <1>1, <1>3, <1>4, <2>1, <2>2, <2>3, ToldOf
  <2>12. Told(list, accepted, e) \in BOOLEAN /\ Told(back, accepted, e) \in BOOLEAN
    BY DEF Told
  <2>13. CASE {a, b} \cap who = {}
    <3>1. a \notin who /\ b \notin who
      BY <2>13
    <3>2. Told(list, accepted, e) /\ Told(back, accepted, e)
      BY <2>9, <2>10, <2>11, <3>1
    <3>3. ~({a, b} \subseteq who)
      BY <3>1
    <3>4. QED
      BY <2>13, <3>2, <3>3 DEF a, b
  <2>14. CASE {a, b} \subseteq who
    <3>1. a \in who /\ b \in who
      BY <2>14
    <3>2. ~Told(list, accepted, e) /\ ~Told(back, accepted, e)
      BY <2>9, <2>10, <2>11, <3>1
    <3>3. {a, b} \cap who # {}
      BY <3>1
    <3>4. QED
      BY <2>14, <3>2, <3>3 DEF a, b
  <2>15. CASE {a, b} \cap who # {} /\ ~({a, b} \subseteq who)
    <3>1. (a \in who /\ b \notin who) \/ (a \notin who /\ b \in who)
      BY <2>15
    <3>2. ~(Told(list, accepted, e) <=> Told(back, accepted, e))
      BY <2>9, <2>10, <2>11, <3>1
    <3>3. Told(list, accepted, e) # Told(back, accepted, e)
      BY <2>12, <3>2
    <3>4. QED
      BY <2>15, <3>3 DEF a, b
  <2>16. QED
    BY <2>13, <2>14, <2>15
<1>8. QED
  BY <1>5, <1>6, <1>7 DEF Told, Intimate, list, back, E, accepted

(* However a graph of imports grows, roles are local, the detectors of wrong *)
(* dependencies agree, cycles and mutual imports are told, and boundaries    *)
(* and orphans are those the imports make.                                   *)
THEOREM RolesJudgedHolds == Spec => []RolesJudged
<1>1. edges \in Graphs => RolesJudged
  BY RolesLocalWell, DetectorsAgreeWell, SmellsToldWell, OutsideSeenWell DEF RolesJudged
<1>2. QED
  BY <1>1, GraphTypeOK, PTL

------------------------------------------------------------------------------
(* Depths and layers.                                                        *)

(* A path on which no node is met twice is no longer than there are nodes.   *)
LEMMA PathShort ==
  ASSUME NEW k \in Nat, NEW S, IsFiniteSet(S), NEW c \in [1..k + 1 -> S],
         \A i, j \in 1..k + 1 : c[i] = c[j] => i = j
  PROVE  k + 1 <= Cardinality(S)
<1>1. c \in Injection(1..k + 1, S)
  BY DEF Injection, IsInjective
<1>2. Cardinality(1..k + 1) <= Cardinality(S)
  BY <1>1, FS_Injection
<1>3. Cardinality(1..k + 1) = k + 1
  <2>1. 1 \in Int /\ k + 1 \in Int /\ ~(1 > k + 1)
    OBVIOUS
  <2>2. Cardinality(1..k + 1) = (k + 1) - 1 + 1
    BY <2>1, FS_Interval
  <2>3. QED
    BY <2>2
<1>4. QED
  BY <1>2, <1>3

(* No node of a path to a settled node is met twice.                         *)
LEMMA SettledPath ==
  ASSUME NEW E \in Graphs, NEW k \in Nat, NEW c \in Paths(E, k), c[k + 1] \in Settled(E),
         NEW i \in 1..k + 1, NEW j \in 1..k + 1, c[i] = c[j]
  PROVE  i = j
<1>1. \A m \in 1..k + 1 : c[m] \in Names
  BY DEF Paths
<1>2. ASSUME NEW g \in 1..k + 1, NEW h \in 1..k + 1, g < h, c[g] = c[h] PROVE FALSE
  <2>1. h \in g..k + 1 /\ h - g \in Nat \ {0}
    BY <1>2
  <2>2. <<c[g], c[h]>> \in Walks(E, h - g)
    BY <2>1, PathWalks
  <2>3. <<c[g], c[g]>> \in Linked(E)
    BY <1>1, <1>2, <2>1, <2>2, WalkLinked
  <2>4. k + 1 \in g..k + 1 /\ (k + 1) - g \in Nat \ {0} /\ k + 1 \in 1..k + 1
    BY <1>2
  <2>5. <<c[g], c[k + 1]>> \in Walks(E, (k + 1) - g)
    BY <2>4, PathWalks
  <2>6. <<c[g], c[k + 1]>> \in Linked(E)
    BY <1>1, <2>4, <2>5, WalkLinked
  <2>7. c[g] \in OnCycle(E)
    BY <1>1, <2>3 DEF OnCycle
  <2>8. QED
    BY <2>6, <2>7 DEF Settled
<1>3. i \in Int /\ j \in Int
  OBVIOUS
<1>4. QED
  BY <1>2, <1>3

(* A walk to a settled node meets no node twice, so it is short.             *)
LEMMA SettledShort ==
  ASSUME NEW E \in Graphs, NEW n \in Settled(E), NEW k \in Nat, NEW a \in Names, <<a, n>> \in Walks(E, k)
  PROVE  k < Size /\ k <= Cardinality(Nodes(E))
<1>1. n \in Names
  BY DEF Settled
<1>2. PICK c \in Paths(E, k) : c[1] = a /\ c[k + 1] = n
  BY <1>1, WalkPath
<1>3. \A i, j \in 1..k + 1 : c[i] = c[j] => i = j
  BY <1>2, SettledPath
<1>4. c \in [1..k + 1 -> Names] /\ \A i \in 1..k : <<c[i], c[i + 1]>> \in E
  BY DEF Paths
<1>5. k + 1 <= Size
  BY <1>3, <1>4, PathShort, NamesFinite
<1>6. IsFiniteSet(Nodes(E)) /\ Cardinality(Nodes(E)) \in Nat
  BY GraphFinite, FS_CardinalityType
<1>7. ASSUME k # 0 PROVE k + 1 <= Cardinality(Nodes(E))
  <2>1. ASSUME NEW i \in 1..k + 1 PROVE c[i] \in Nodes(E)
    <3>1. CASE i \in 1..k
      BY <1>4, <3>1, NodesOf
    <3>2. CASE i = k + 1
      <4>1. k \in 1..k
        BY <1>7
      <4>2. <<c[k], c[k + 1]>> \in E
        BY <1>4, <4>1
      <4>3. QED
        BY <3>2, <4>2, NodesOf
    <3>3. QED
      BY <3>1, <3>2
  <2>2. c \in [1..k + 1 -> Nodes(E)]
    BY <1>4, <2>1
  <2>3. QED
    BY <1>3, <1>6, <2>2, PathShort
<1>8. QED
  BY <1>5, <1>6, <1>7, NamesFinite

(* The length of the longest chain of edges that ends at a node.             *)
Level(E, n) == Max({k \in 0..Size : \E w \in Walks(E, k) : w[2] = n})

(* The level of a settled node is the length of a walk that ends there, and  *)
(* no walk there is longer.                                                  *)
LEMMA LevelIs ==
  ASSUME NEW E \in Graphs, NEW n \in Settled(E)
  PROVE  /\ Level(E, n) \in Nat /\ Level(E, n) <= Cardinality(Nodes(E))
         /\ \E a \in Names : <<a, n>> \in Walks(E, Level(E, n))
         /\ \A k \in Nat, a \in Names : <<a, n>> \in Walks(E, k) => k <= Level(E, n)
<1> DEFINE S == {k \in 0..Size : \E w \in Walks(E, k) : w[2] = n}
<1>1. n \in Names
  BY DEF Settled
<1>2. ASSUME NEW k \in Nat
      PROVE  (\E w \in Walks(E, k) : w[2] = n) <=> \E a \in Names : <<a, n>> \in Walks(E, k)
  <2>1. Walks(E, k) \in Graphs
    BY WalkRounds
  <2>2. ASSUME NEW w \in Walks(E, k), w[2] = n PROVE \E a \in Names : <<a, n>> \in Walks(E, k)
    BY <2>1, <2>2, PairOfNames
  <2>3. ASSUME NEW a \in Names, <<a, n>> \in Walks(E, k) PROVE \E w \in Walks(E, k) : w[2] = n
    <3> DEFINE w == <<a, n>>
    <3>1. w \in Walks(E, k) /\ w[2] = n
      BY <2>3
    <3> HIDE DEF w
    <3>2. QED
      BY <3>1
  <2>4. QED
    BY <2>2, <2>3
<1>3. \A k \in Nat, a \in Names : <<a, n>> \in Walks(E, k) => k \in 0..Size /\ k <= Cardinality(Nodes(E))
  BY SettledShort, NamesFinite
<1>4. \A k : k \in S <=> k \in Nat /\ \E a \in Names : <<a, n>> \in Walks(E, k)
  <2>1. \A k \in 0..Size : k \in Nat
    BY NamesFinite
  <2>2. QED
    BY <1>2, <1>3, <2>1
<1>5. 0 \in S
  BY <1>1, <1>4, WalkZero
<1>6. S \in SUBSET Int /\ IsFiniteSet(S) /\ S # {}
  <2>1. S \in SUBSET (0..Size)
    OBVIOUS
  <2>2. IsFiniteSet(0..Size)
    BY NamesFinite, FS_Interval
  <2>3. IsFiniteSet(S)
    BY <2>1, <2>2, FS_Subset
  <2>4. \A k \in S : k \in Int
    BY <1>4
  <2> HIDE DEF S
  <2>5. QED
    BY <1>5, <2>3, <2>4
<1>7. Level(E, n) = Max(S)
  BY DEF Level
<1> HIDE DEF S
<1>8. Level(E, n) \in S /\ \A k \in S : k <= Level(E, n)
  BY <1>6, <1>7, MaxOf
<1>9. QED
  BY <1>3, <1>4, <1>8

(* What imports a settled node is settled, and not on a cycle.               *)
LEMMA SettledBack ==
  ASSUME NEW E \in Graphs, NEW n \in Settled(E)
  PROVE  n \notin OnCycle(E) /\ \A m : <<m, n>> \in E => m \in Settled(E)
<1>1. n \in Names
  BY DEF Settled
<1>2. n \notin OnCycle(E)
  BY DEF Settled, OnCycle
<1>3. ASSUME NEW m, <<m, n>> \in E PROVE m \in Settled(E)
  <2>1. m \in Names
    BY <1>3 DEF Graphs
  <2>2. ASSUME NEW d \in OnCycle(E), <<d, m>> \in Linked(E) PROVE FALSE
    <3>1. d \in Names
      BY DEF OnCycle
    <3>2. <<d, n>> \in Linked(E)
      BY <1>1, <1>3, <2>1, <2>2, <3>1, LinkedClosed
    <3>3. QED
      BY <3>2 DEF Settled
  <2>3. QED
    BY <2>1, <2>2 DEF Settled
<1>4. QED
  BY <1>2, <1>3

(* A node that is neither settled nor on a cycle has an importer like it, or *)
(* one on a cycle.                                                           *)
LEMMA UnsettledBack ==
  ASSUME NEW E \in Graphs, NEW n \in Names \ Settled(E), n \notin OnCycle(E)
  PROVE  \E m \in Names \ Settled(E) : <<m, n>> \in E
<1>1. PICK d \in OnCycle(E) : <<d, n>> \in Linked(E)
  BY DEF Settled
<1>2. d \in Names /\ <<d, d>> \in Linked(E)
  BY DEF OnCycle
<1>3. PICK m \in Names : <<m, n>> \in E /\ (m = d \/ <<d, m>> \in Linked(E))
  BY <1>1, <1>2, LinkedLast
<1>4. <<d, m>> \in Linked(E)
  BY <1>2, <1>3
<1>5. m \notin Settled(E)
  BY <1>1, <1>4 DEF Settled
<1>6. QED
  BY <1>3, <1>5

(* The level of a settled node is one above its highest importer.            *)
LEMMA LevelSteps ==
  ASSUME NEW E \in Graphs, NEW n \in Settled(E)
  PROVE  /\ \A m : <<m, n>> \in E => Level(E, m) \in Nat /\ Level(E, m) + 1 <= Level(E, n)
         /\ Level(E, n) # 0 => \E m \in Settled(E) : <<m, n>> \in E /\ Level(E, m) + 1 = Level(E, n)
<1>1. n \in Names
  BY DEF Settled
<1>2. ASSUME NEW m, <<m, n>> \in E PROVE Level(E, m) \in Nat /\ Level(E, m) + 1 <= Level(E, n)
  <2>1. m \in Settled(E) /\ m \in Names
    BY <1>2, SettledBack DEF Graphs
  <2>2. Level(E, m) \in Nat /\ \E a \in Names : <<a, m>> \in Walks(E, Level(E, m))
    BY <2>1, LevelIs
  <2>3. PICK a \in Names : <<a, m>> \in Walks(E, Level(E, m))
    BY <2>2
  <2>4. <<a, n>> \in Walks(E, Level(E, m) + 1)
    BY <1>1, <1>2, <2>1, <2>2, <2>3, WalkRounds
  <2>5. Level(E, m) + 1 \in Nat
    BY <2>2
  <2>6. QED
    BY <2>2, <2>4, <2>5, LevelIs
<1>3. ASSUME Level(E, n) # 0
      PROVE  \E m \in Settled(E) : <<m, n>> \in E /\ Level(E, m) + 1 = Level(E, n)
  <2> DEFINE k == Level(E, n) - 1
  <2>1. Level(E, n) \in Nat /\ \E a \in Names : <<a, n>> \in Walks(E, Level(E, n))
    BY LevelIs
  <2>2. k \in Nat /\ k + 1 = Level(E, n)
    BY <1>3, <2>1
  <2> HIDE DEF k
  <2>3. PICK a \in Names : <<a, n>> \in Walks(E, k + 1)
    BY <2>1, <2>2
  <2>4. PICK m \in Names : <<a, m>> \in Walks(E, k) /\ <<m, n>> \in E
    BY <1>1, <2>2, <2>3, WalkRounds
  <2>5. m \in Settled(E)
    BY <2>4, SettledBack
  <2>6. k <= Level(E, m)
    BY <2>2, <2>4, <2>5, LevelIs
  <2>7. Level(E, m) \in Nat /\ Level(E, m) + 1 <= Level(E, n)
    BY <1>2, <2>4
  <2>8. QED
    BY <2>2, <2>4, <2>5, <2>6, <2>7
<1>4. QED
  BY <1>2, <1>3

(* The edges that have been followed after so many rounds of ImportDepth,    *)
(* those into a node, and what they make of its depth.                       *)
Followed(E, k) == {e \in E : e[1] \in Settled(E) /\ Level(E, e[1]) < k /\ e[2] \notin OnCycle(E)}
FollowedTo(E, k, n) == {e \in Followed(E, k) : e[2] = n}
RaisedTo(E, k, n) == {Level(E, e[1]) + 1 : e \in FollowedTo(E, k, n)}

DepthsAfter(E, k) ==
    [depth |-> [n \in Nodes(E) |-> IF n \in OnCycle(E) THEN -1 ELSE Max({0} \cup RaisedTo(E, k, n))],
     inDeg |-> [n \in Nodes(E) |-> FanIn(E, n) - Cardinality(FollowedTo(E, k, n))],
     queue |-> {n \in Nodes(E) : n \in Settled(E) /\ Level(E, n) = k}]

(* Finitely many edges have been followed into a node, and what they make    *)
(* of its depth are naturals.                                                *)
LEMMA RaisedFinite ==
  ASSUME NEW E \in Graphs, NEW k \in Nat, NEW n
  PROVE  /\ RaisedTo(E, k, n) \in SUBSET Nat /\ IsFiniteSet(RaisedTo(E, k, n))
         /\ FollowedTo(E, k, n) \in SUBSET E /\ IsFiniteSet(FollowedTo(E, k, n))
         /\ Cardinality(FollowedTo(E, k, n)) \in Nat
<1>1. FollowedTo(E, k, n) \in SUBSET E
  BY DEF FollowedTo, Followed
<1>2. IsFiniteSet(FollowedTo(E, k, n)) /\ Cardinality(FollowedTo(E, k, n)) \in Nat
  BY <1>1, GraphFinite, FS_Subset, FS_CardinalityType
<1>3. \A e \in FollowedTo(E, k, n) : Level(E, e[1]) + 1 \in 0..k
  <2>1. ASSUME NEW e \in FollowedTo(E, k, n) PROVE Level(E, e[1]) + 1 \in 0..k
    <3>1. e[1] \in Settled(E) /\ Level(E, e[1]) < k
      BY DEF FollowedTo, Followed
    <3>2. Level(E, e[1]) \in Nat
      BY <3>1, LevelIs
    <3>3. QED
      BY <3>1, <3>2
  <2>2. QED
    BY <2>1
<1>4. RaisedTo(E, k, n) \in SUBSET (0..k)
  BY <1>3 DEF RaisedTo
<1>5. IsFiniteSet(0..k)
  BY FS_Interval
<1>6. IsFiniteSet(RaisedTo(E, k, n))
  BY <1>4, <1>5, FS_Subset
<1>7. \A i \in 0..k : i \in Nat
  OBVIOUS
<1>8. QED
  BY <1>1, <1>2, <1>4, <1>6, <1>7

(* A settled node of a level below has the depth of that level.              *)
LEMMA DepthSettled ==
  ASSUME NEW E \in Graphs, NEW k \in Nat, NEW n \in Settled(E), Level(E, n) <= k
  PROVE  Max({0} \cup RaisedTo(E, k, n)) = Level(E, n)
<1> DEFINE S == {0} \cup RaisedTo(E, k, n)
<1>1. Level(E, n) \in Nat
  BY LevelIs
<1>2. S \in SUBSET Int
  BY RaisedFinite
<1>3. ASSUME NEW x \in RaisedTo(E, k, n) PROVE x <= Level(E, n)
  <2>1. PICK e \in FollowedTo(E, k, n) : x = Level(E, e[1]) + 1
    BY DEF RaisedTo
  <2>2. e \in E /\ e[2] = n
    BY DEF FollowedTo, Followed
  <2>3. <<e[1], n>> \in E
    BY <2>2, PairOfNames
  <2>4. QED
    BY <2>1, <2>3, LevelSteps
<1>4. Level(E, n) \in S
  <2>1. CASE Level(E, n) # 0
    <3>1. PICK m \in Settled(E) : <<m, n>> \in E /\ Level(E, m) + 1 = Level(E, n)
      BY <2>1, LevelSteps
    <3> DEFINE e == <<m, n>>
    <3>2. Level(E, m) \in Nat
      BY LevelIs
    <3>3. e \in E /\ e[1] = m /\ e[2] = n /\ n \notin OnCycle(E) /\ Level(E, m) < k
      BY <1>1, <3>1, <3>2, SettledBack
    <3> HIDE DEF e
    <3>4. e \in FollowedTo(E, k, n)
      BY <3>3 DEF FollowedTo, Followed
    <3>5. Level(E, e[1]) + 1 \in RaisedTo(E, k, n)
      BY <3>4 DEF RaisedTo
    <3>6. QED
      BY <3>1, <3>3, <3>5
  <2>2. QED
    BY <2>1
<1>5. \A y \in S : y <= Level(E, n)
  BY <1>1, <1>3
<1> HIDE DEF S
<1>6. Max(S) = Level(E, n)
  BY <1>2, <1>4, <1>5, MaxIs
<1>7. QED
  BY <1>6 DEF S

(* Before the first round.                                                   *)
LEMMA DepthsFirst ==
  ASSUME NEW E \in Graphs
  PROVE  DepthsAfter(E, 0) = DepthsBefore(E)
<1> DEFINE F(n) == FollowedTo(E, 0, n)
<1>1. Nodes(E) \subseteq Names /\ CycleNodes(E) = OnCycle(E)
  BY GraphFinite, CyclesFound
<1>2. ASSUME NEW n PROVE FollowedTo(E, 0, n) = {} /\ RaisedTo(E, 0, n) = {}
  <2>1. ASSUME NEW e \in FollowedTo(E, 0, n) PROVE FALSE
    <3>1. e[1] \in Settled(E) /\ Level(E, e[1]) < 0
      BY DEF FollowedTo, Followed
    <3>2. QED
      BY <3>1, LevelIs
  <2>2. QED
    BY <2>1 DEF RaisedTo
<1>3. ASSUME NEW n \in Nodes(E)
      PROVE  (IF n \in OnCycle(E) THEN -1 ELSE Max({0} \cup RaisedTo(E, 0, n)))
               = IF n \in CycleNodes(E) THEN -1 ELSE 0
  <2> DEFINE S == {0} \cup RaisedTo(E, 0, n)
  <2>1. S \in SUBSET Int /\ 0 \in S /\ \A y \in S : y <= 0
    BY <1>2
  <2> HIDE DEF S
  <2>2. Max(S) = 0
    BY <2>1, MaxIs
  <2>3. Max({0} \cup RaisedTo(E, 0, n)) = 0
    BY <2>2 DEF S
  <2>4. QED
    BY <1>1, <2>3
<1>4. ASSUME NEW n \in Nodes(E)
      PROVE  FanIn(E, n) - Cardinality(FollowedTo(E, 0, n)) = FanIn(E, n)
  <2>1. Cardinality(FollowedTo(E, 0, n)) = 0
    BY <1>2, FS_EmptySet
  <2>2. FanIn(E, n) \in Nat
    BY FanNumbers
  <2>3. QED
    BY <2>1, <2>2
<1>5. ASSUME NEW n \in Nodes(E)
      PROVE  (n \in Settled(E) /\ Level(E, n) = 0) <=> (n \notin CycleNodes(E) /\ FanIn(E, n) = 0)
  <2> DEFINE I == {e \in E : e[2] = n}
  <2>1. n \in Names
    BY <1>1
  <2>2. IsFiniteSet(I)
    BY GraphFinite, FS_Subset
  <2>3. FanIn(E, n) = 0 <=> I = {}
    BY <2>2, FS_EmptySet DEF FanIn
  <2>4. I = {} <=> \A m : <<m, n>> \notin E
    <3>1. ASSUME NEW m, <<m, n>> \in E PROVE I # {}
      <4> DEFINE e == <<m, n>>
      <4>1. e \in E /\ e[2] = n
        BY <3>1
      <4> HIDE DEF e
      <4>2. QED
        BY <4>1
    <3>2. ASSUME NEW e \in I PROVE \E m : <<m, n>> \in E
      BY <3>2, PairOfNames
    <3>3. QED
      BY <3>1, <3>2
  <2> HIDE DEF I
  <2>5. ASSUME n \in Settled(E), Level(E, n) = 0, NEW m, <<m, n>> \in E PROVE FALSE
    <3>1. Level(E, m) \in Nat /\ Level(E, m) + 1 <= 0
      BY <2>5, LevelSteps
    <3>2. QED
      BY <3>1
  <2>6. ASSUME n \notin OnCycle(E), \A m : <<m, n>> \notin E PROVE n \in Settled(E) /\ Level(E, n) = 0
    <3>1. n \in Settled(E)
      BY <2>1, <2>6, UnsettledBack
    <3>2. QED
      BY <2>6, <3>1, LevelSteps
  <2>7. n \in Settled(E) => n \notin OnCycle(E)
    BY SettledBack
  <2>8. QED
    BY <1>1, <2>3, <2>4, <2>5, <2>6, <2>7
<1>6. {n \in Nodes(E) : n \in Settled(E) /\ Level(E, n) = 0}
        = {n \in Nodes(E) \ CycleNodes(E) : FanIn(E, n) = 0}
  BY <1>5
<1>7. QED
  BY <1>3, <1>4, <1>6 DEF DepthsAfter, DepthsBefore

(* The edges that the next round follows.                                    *)
FollowedNext(E, w) == {e \in E : e[1] \in w.queue /\ w.depth[e[2]] # -1}

(* What is known of one node after so many rounds.                           *)
LEMMA DepthsNumbers ==
  ASSUME NEW E \in Graphs, NEW k \in Nat, NEW n \in Nodes(E)
  PROVE  /\ DepthsAfter(E, k).depth[n] = IF n \in OnCycle(E) THEN -1 ELSE Max({0} \cup RaisedTo(E, k, n))
         /\ DepthsAfter(E, k).inDeg[n] = FanIn(E, n) - Cardinality(FollowedTo(E, k, n))
         /\ n \in DepthsAfter(E, k).queue <=> n \in Settled(E) /\ Level(E, n) = k
         /\ Max({0} \cup RaisedTo(E, k, n)) \in Nat
<1>1. RaisedTo(E, k, n) \in SUBSET Nat /\ IsFiniteSet(RaisedTo(E, k, n))
  BY RaisedFinite
<1>2. Max({0} \cup RaisedTo(E, k, n)) \in Nat
  BY <1>1, MaxJoined
<1>3. QED
  BY <1>2 DEF DepthsAfter

(* An edge is followed in the round of its source's level, and in no other.  *)
LEMMA FollowedStep ==
  ASSUME NEW E \in Graphs, NEW k \in Nat, NEW e \in E
  PROVE  /\ e \in FollowedNext(E, DepthsAfter(E, k))
              <=> e[1] \in Settled(E) /\ Level(E, e[1]) = k /\ e[2] \notin OnCycle(E)
         /\ e \in Followed(E, k + 1)
              <=> e \in Followed(E, k) \/ e \in FollowedNext(E, DepthsAfter(E, k))
         /\ ~(e \in Followed(E, k) /\ e \in FollowedNext(E, DepthsAfter(E, k)))
<1>1. e[1] \in Nodes(E) /\ e[2] \in Nodes(E)
  BY DEF Nodes
<1>2. e[1] \in DepthsAfter(E, k).queue <=> e[1] \in Settled(E) /\ Level(E, e[1]) = k
  BY <1>1 DEF DepthsAfter
<1>3. DepthsAfter(E, k).depth[e[2]] # -1 <=> e[2] \notin OnCycle(E)
  <2> DEFINE m == Max({0} \cup RaisedTo(E, k, e[2]))
             d == DepthsAfter(E, k).depth[e[2]]
  <2> DEFINE n == e[2]
  <2>0. n \in Nodes(E)
    BY <1>1
  <2> HIDE DEF n
  <2>1. (d = IF e[2] \in OnCycle(E) THEN -1 ELSE m) /\ m \in Nat
    <3>1. /\ DepthsAfter(E, k).depth[n] = IF n \in OnCycle(E) THEN -1 ELSE Max({0} \cup RaisedTo(E, k, n))
          /\ Max({0} \cup RaisedTo(E, k, n)) \in Nat
      BY <2>0, DepthsNumbers
    <3>2. QED
      BY <3>1 DEF n
  <2> HIDE DEF m, d
  <2>2. m # -1
    BY <2>1
  <2>3. d # -1 <=> e[2] \notin OnCycle(E)
    BY <2>1, <2>2
  <2>4. QED
    BY <2>3 DEF d
<1>4. e[1] \in Settled(E) => Level(E, e[1]) \in Nat
  BY LevelIs
<1>5. \A l \in Nat : (l < k + 1 <=> l < k \/ l = k) /\ ~(l < k /\ l = k)
  OBVIOUS
<1>6. e \in FollowedNext(E, DepthsAfter(E, k))
              <=> e[1] \in Settled(E) /\ Level(E, e[1]) = k /\ e[2] \notin OnCycle(E)
  BY <1>2, <1>3 DEF FollowedNext
<1>7. QED
  BY <1>4, <1>5, <1>6 DEF Followed

(* Those of them that lead into a node.                                      *)
NextTo(E, k, n) == {e \in FollowedNext(E, DepthsAfter(E, k)) : e[2] = n}

(* The edges into a node that a round follows are new ones, and raise its    *)
(* depth by what their sources have got.                                     *)
LEMMA FollowedJoin ==
  ASSUME NEW E \in Graphs, NEW k \in Nat, NEW n \in Nodes(E)
  PROVE  /\ FollowedTo(E, k + 1, n) = FollowedTo(E, k, n) \cup NextTo(E, k, n)
         /\ IsFiniteSet(NextTo(E, k, n))
         /\ Cardinality(FollowedTo(E, k + 1, n))
              = Cardinality(FollowedTo(E, k, n)) + Cardinality(NextTo(E, k, n))
         /\ Cardinality(NextTo(E, k, n)) \in Nat
         /\ RaisedTo(E, k + 1, n)
              = RaisedTo(E, k, n) \cup {DepthsAfter(E, k).depth[e[1]] + 1 : e \in NextTo(E, k, n)}
<1>1. NextTo(E, k, n) \in SUBSET E /\ FollowedTo(E, k, n) \in SUBSET E
  BY DEF NextTo, FollowedNext, FollowedTo, Followed
<1>2. IsFiniteSet(NextTo(E, k, n)) /\ IsFiniteSet(FollowedTo(E, k, n))
  BY <1>1, GraphFinite, FS_Subset
<1>3. Cardinality(NextTo(E, k, n)) \in Nat /\ Cardinality(FollowedTo(E, k, n)) \in Nat
  BY <1>2, FS_CardinalityType
<1>4. \A e \in E : e \in FollowedTo(E, k + 1, n) <=> e \in FollowedTo(E, k, n) \/ e \in NextTo(E, k, n)
  BY FollowedStep DEF NextTo, FollowedTo
<1>5. FollowedTo(E, k + 1, n) \in SUBSET E
  BY DEF FollowedTo, Followed
<1>6. FollowedTo(E, k + 1, n) = FollowedTo(E, k, n) \cup NextTo(E, k, n)
  BY <1>1, <1>4, <1>5
<1>7. FollowedTo(E, k, n) \cap NextTo(E, k, n) = {}
  <2>1. ASSUME NEW e \in E PROVE ~(e \in FollowedTo(E, k, n) /\ e \in NextTo(E, k, n))
    BY FollowedStep DEF NextTo, FollowedTo
  <2>2. QED
    BY <1>1, <2>1
<1>8. Cardinality(FollowedTo(E, k, n) \cap NextTo(E, k, n)) = 0
  BY <1>7, FS_EmptySet
<1>9. Cardinality(FollowedTo(E, k, n) \cup NextTo(E, k, n))
        = Cardinality(FollowedTo(E, k, n)) + Cardinality(NextTo(E, k, n))
            - Cardinality(FollowedTo(E, k, n) \cap NextTo(E, k, n))
  BY <1>2, FS_Union
<1>10. Cardinality(FollowedTo(E, k + 1, n))
         = Cardinality(FollowedTo(E, k, n)) + Cardinality(NextTo(E, k, n))
  <2> DEFINE a == Cardinality(FollowedTo(E, k, n))
             b == Cardinality(NextTo(E, k, n))
  <2>1. a \in Nat /\ b \in Nat /\ Cardinality(FollowedTo(E, k + 1, n)) = a + b - 0
    BY <1>3, <1>6, <1>8, <1>9
  <2> HIDE DEF a, b
  <2>2. Cardinality(FollowedTo(E, k + 1, n)) = a + b
    BY <2>1
  <2>3. QED
    BY <2>2 DEF a, b
<1>11. ASSUME NEW e \in NextTo(E, k, n)
       PROVE  DepthsAfter(E, k).depth[e[1]] = Level(E, e[1])
  <2>1. e \in E /\ e \in FollowedNext(E, DepthsAfter(E, k))
    BY DEF NextTo, FollowedNext
  <2>2. e[1] \in Settled(E) /\ Level(E, e[1]) = k /\ e[1] \in Nodes(E)
    BY <2>1, FollowedStep DEF Nodes
  <2>3. Level(E, e[1]) <= k
    BY <2>2
  <2>4. Max({0} \cup RaisedTo(E, k, e[1])) = Level(E, e[1])
    BY <2>2, <2>3, DepthSettled
  <2>5. e[1] \notin OnCycle(E)
    BY <2>2, SettledBack
  <2>6. QED
    BY <2>2, <2>4, <2>5, DepthsNumbers
<1>12. \A x : x \in RaisedTo(E, k + 1, n)
         <=> x \in RaisedTo(E, k, n) \/ \E e \in NextTo(E, k, n) : x = DepthsAfter(E, k).depth[e[1]] + 1
  BY <1>6, <1>11 DEF RaisedTo
<1>13. QED
  BY <1>2, <1>3, <1>6, <1>10, <1>12

(* A node is ready exactly when it is settled and all its importers are      *)
(* known.                                                                    *)
LEMMA ReadySettled ==
  ASSUME NEW E \in Graphs, NEW k \in Nat, NEW n \in Nodes(E),
         NEW i, i = FanIn(E, n) - Cardinality(FollowedTo(E, k + 1, n))
  PROVE  (NextTo(E, k, n) # {} /\ i = 0) <=> n \in Settled(E) /\ Level(E, n) = k + 1
<1> DEFINE I == {e \in E : e[2] = n}
           F == FollowedTo(E, k + 1, n)
<1>1. F \in SUBSET I
  BY DEF FollowedTo, Followed
<1>2. IsFiniteSet(I) /\ Cardinality(I) \in Nat /\ FanIn(E, n) = Cardinality(I)
  BY GraphFinite, FS_Subset, FS_CardinalityType DEF FanIn
<1>3. IsFiniteSet(F) /\ Cardinality(F) \in Nat
  <2> HIDE DEF F, I
  <2>1. QED
    BY <1>1, <1>2, FS_Subset, FS_CardinalityType
<1>4. i = 0 <=> F = I
  <2>1. i = Cardinality(I) - Cardinality(F)
    BY <1>2
  <2> HIDE DEF F, I
  <2>2. i = 0 <=> Cardinality(F) = Cardinality(I)
    BY <1>2, <1>3, <2>1
  <2>3. Cardinality(F) = Cardinality(I) => F = I
    BY <1>1, <1>2, FS_Subset
  <2>4. QED
    BY <2>2, <2>3
<1>5. \A e : e \in F <=> e \in E /\ e[2] = n /\ e[1] \in Settled(E) /\ Level(E, e[1]) < k + 1 /\ n \notin OnCycle(E)
  BY DEF FollowedTo, Followed
<1>6. \A e : e \in NextTo(E, k, n) <=> e \in E /\ e[2] = n /\ e[1] \in Settled(E) /\ Level(E, e[1]) = k /\ n \notin OnCycle(E)
  <2>1. \A e : e \in NextTo(E, k, n) <=> e \in E /\ e \in FollowedNext(E, DepthsAfter(E, k)) /\ e[2] = n
    BY DEF NextTo, FollowedNext
  <2>2. QED
    BY <2>1, FollowedStep
<1>7. ASSUME NextTo(E, k, n) # {}, F = I PROVE n \in Settled(E) /\ Level(E, n) = k + 1
  <2>1. PICK e \in NextTo(E, k, n) : TRUE
    BY <1>7
  <2>2. e \in E /\ e[2] = n /\ Level(E, e[1]) = k /\ n \notin OnCycle(E)
    BY <1>6, <2>1
  <2>3. <<e[1], n>> \in E /\ n \in Names
    BY <2>2, PairOfNames
  <2>4. ASSUME NEW m, <<m, n>> \in E PROVE m \in Settled(E) /\ Level(E, m) < k + 1
    <3> DEFINE f == <<m, n>>
    <3>1. f \in I /\ f[1] = m
      BY <2>4
    <3> HIDE DEF f
    <3>2. QED
      BY <1>5, <1>7, <3>1
  <2>5. n \in Settled(E)
    BY <2>2, <2>3, <2>4, UnsettledBack
  <2>6. Level(E, n) \in Nat /\ Level(E, e[1]) + 1 <= Level(E, n)
    BY <2>3, <2>5, LevelIs, LevelSteps
  <2>7. PICK m \in Settled(E) : <<m, n>> \in E /\ Level(E, m) + 1 = Level(E, n)
    <3>1. Level(E, n) # 0
      BY <2>2, <2>6
    <3>2. QED
      BY <2>5, <3>1, LevelSteps
  <2>8. Level(E, m) < k + 1 /\ Level(E, m) \in Nat
    BY <2>4, <2>7, LevelIs
  <2>9. QED
    BY <2>2, <2>5, <2>6, <2>7, <2>8
<1>8. ASSUME n \in Settled(E), Level(E, n) = k + 1 PROVE NextTo(E, k, n) # {} /\ F = I
  <2>1. n \notin OnCycle(E)
    BY <1>8, SettledBack
  <2>2. ASSUME NEW e \in I PROVE e \in F
    <3>1. e \in E /\ e[2] = n
      OBVIOUS
    <3>2. <<e[1], n>> \in E
      BY <3>1, PairOfNames
    <3>3. e[1] \in Settled(E) /\ Level(E, e[1]) \in Nat /\ Level(E, e[1]) + 1 <= k + 1
      BY <1>8, <3>2, SettledBack, LevelSteps
    <3>4. Level(E, e[1]) < k + 1
      BY <3>3
    <3>5. QED
      BY <1>5, <2>1, <3>1, <3>3, <3>4
  <2>3. PICK m \in Settled(E) : <<m, n>> \in E /\ Level(E, m) + 1 = k + 1
    <3>1. k + 1 # 0
      OBVIOUS
    <3>2. QED
      BY <1>8, <3>1, LevelSteps
  <2>4. Level(E, m) = k
    BY <2>3, LevelIs
  <2> DEFINE e == <<m, n>>
  <2>5. e \in E /\ e[1] = m /\ e[2] = n
    BY <2>3
  <2> HIDE DEF e
  <2>6. e \in NextTo(E, k, n)
    BY <1>6, <2>1, <2>3, <2>4, <2>5
  <2>7. QED
    BY <1>1, <2>2, <2>6
<1>9. QED
  BY <1>4, <1>7, <1>8

(* Each round.                                                               *)
LEMMA DepthsNext ==
  ASSUME NEW E \in Graphs, NEW k \in Nat
  PROVE  DepthRound(E, DepthsAfter(E, k)) = DepthsAfter(E, k + 1)
<1> DEFINE w == DepthsAfter(E, k)
           used == FollowedNext(E, w)
           left == [n \in Nodes(E) |-> w.inDeg[n] - Cardinality(NextTo(E, k, n))]
<1>1. ASSUME NEW n \in Nodes(E)
      PROVE  w.inDeg[n] - Cardinality(NextTo(E, k, n)) = FanIn(E, n) - Cardinality(FollowedTo(E, k + 1, n))
  <2>1. w.inDeg[n] = FanIn(E, n) - Cardinality(FollowedTo(E, k, n))
    BY DepthsNumbers
  <2>2. FanIn(E, n) \in Nat /\ Cardinality(FollowedTo(E, k, n)) \in Nat
    BY FanNumbers, RaisedFinite
  <2>3. QED
    BY <2>1, <2>2, FollowedJoin
<1>2. ASSUME NEW n \in Nodes(E)
      PROVE  Max({w.depth[n]} \cup {w.depth[e[1]] + 1 : e \in NextTo(E, k, n)})
               = IF n \in OnCycle(E) THEN -1 ELSE Max({0} \cup RaisedTo(E, k + 1, n))
  <2> DEFINE T == {w.depth[e[1]] + 1 : e \in NextTo(E, k, n)}
             R == RaisedTo(E, k, n)
  <2>1. RaisedTo(E, k + 1, n) = R \cup T
    BY FollowedJoin
  <2>2. R \in SUBSET Nat /\ IsFiniteSet(R)
    BY RaisedFinite
  <2>3. T \in SUBSET Nat /\ IsFiniteSet(T)
    <3>1. k + 1 \in Nat
      OBVIOUS
    <3>2. RaisedTo(E, k + 1, n) \in SUBSET Nat /\ IsFiniteSet(RaisedTo(E, k + 1, n))
      BY <3>1, RaisedFinite
    <3> HIDE DEF T
    <3>3. QED
      BY <2>1, <3>2, FS_Subset
  <2>4. w.depth[n] = IF n \in OnCycle(E) THEN -1 ELSE Max({0} \cup R)
    BY DepthsNumbers
  <2>5. CASE n \in OnCycle(E)
    <3>1. NextTo(E, k, n) = {}
      <4>1. ASSUME NEW e \in NextTo(E, k, n) PROVE FALSE
        <5>1. e \in E /\ e \in FollowedNext(E, DepthsAfter(E, k)) /\ e[2] = n
          BY DEF NextTo, FollowedNext
        <5>2. QED
          BY <2>5, <5>1, FollowedStep
      <4>2. QED
        BY <4>1
    <3>2. T = {}
      BY <3>1
    <3> DEFINE S == {w.depth[n]} \cup T
    <3>3. S \in SUBSET Int /\ -1 \in S /\ \A y \in S : y <= -1
      <4>1. \A y : y \in S <=> y = -1
        BY <2>4, <2>5, <3>2
      <4> HIDE DEF S
      <4>2. -1 \in Int /\ -1 <= -1
        OBVIOUS
      <4>3. QED
        BY <4>1, <4>2
    <3> HIDE DEF S
    <3>4. Max(S) = -1
      <4> DEFINE x == -1
      <4>1. x \in S /\ \A y \in S : y <= x
        BY <3>3
      <4> HIDE DEF x
      <4>2. Max(S) = x
        BY <3>3, <4>1, MaxIs
      <4>3. QED
        BY <4>2 DEF x
    <3>5. QED
      BY <2>5, <3>4 DEF S
  <2>6. CASE n \notin OnCycle(E)
    <3> HIDE DEF T, R, w
    <3>1. Max({Max({0} \cup R)} \cup T) = Max({0} \cup (R \cup T))
      BY <2>2, <2>3, MaxJoined
    <3>2. Max({w.depth[n]} \cup T) = Max({0} \cup RaisedTo(E, k + 1, n))
      BY <2>1, <2>4, <2>6, <3>1
    <3>3. QED
      BY <2>6, <3>2 DEF T
  <2>7. QED
    BY <2>5, <2>6
<1>3. ASSUME NEW n \in Nodes(E)
      PROVE  n \in Targets(used, w.queue) <=> NextTo(E, k, n) # {}
  <2>1. \A e \in used : e[1] \in w.queue
    BY DEF FollowedNext
  <2> HIDE DEF used, w
  <2>2. n \in Targets(used, w.queue) <=> \E e \in used : e[2] = n
    BY <2>1 DEF Targets
  <2>3. QED
    BY <2>2 DEF NextTo, used, w
<1>4. Targets(used, w.queue) \subseteq Nodes(E)
  BY DEF Targets, FollowedNext, Nodes
<1>5. ASSUME NEW n \in Nodes(E)
      PROVE  n \in Targets(used, w.queue) /\ Ready(w, left, n) <=> n \in Settled(E) /\ Level(E, n) = k + 1
  <2>1. left[n] = FanIn(E, n) - Cardinality(FollowedTo(E, k + 1, n))
    BY <1>1
  <2>2. (NextTo(E, k, n) # {} /\ left[n] = 0) <=> n \in Settled(E) /\ Level(E, n) = k + 1
    <3> HIDE DEF left
    <3>1. QED
      BY <2>1, ReadySettled
  <2>3. QED
    BY <1>3, <2>2 DEF Ready
<1>6. {n \in Targets(used, w.queue) : Ready(w, left, n)}
        = {n \in Nodes(E) : n \in Settled(E) /\ Level(E, n) = k + 1}
  <2> HIDE DEF used, w, left
  <2>1. QED
    BY <1>4, <1>5
<1>7. [n \in Nodes(E) |-> Max({w.depth[n]} \cup {w.depth[e[1]] + 1 : e \in NextTo(E, k, n)})]
        = [n \in Nodes(E) |-> IF n \in OnCycle(E) THEN -1 ELSE Max({0} \cup RaisedTo(E, k + 1, n))]
  BY <1>2
<1>8. left = [n \in Nodes(E) |-> FanIn(E, n) - Cardinality(FollowedTo(E, k + 1, n))]
  BY <1>1
<1>9. DepthRound(E, w)
        = [depth |-> [n \in Nodes(E) |-> Max({w.depth[n]} \cup {w.depth[e[1]] + 1 : e \in NextTo(E, k, n)})],
           inDeg |-> left,
           queue |-> {n \in Targets(used, w.queue) : Ready(w, left, n)}]
  BY DEF DepthRound, NextTo, FollowedNext
<1>10. DepthsAfter(E, k + 1)
         = [depth |-> [n \in Nodes(E) |-> IF n \in OnCycle(E) THEN -1 ELSE Max({0} \cup RaisedTo(E, k + 1, n))],
            inDeg |-> [n \in Nodes(E) |-> FanIn(E, n) - Cardinality(FollowedTo(E, k + 1, n))],
            queue |-> {n \in Nodes(E) : n \in Settled(E) /\ Level(E, n) = k + 1}]
  BY DEF DepthsAfter
<1>11. QED
  BY <1>6, <1>7, <1>8, <1>9, <1>10

(* The rounds of ImportDepth, its recursion unfolded.                        *)
DepthRoundOf(E) ==
    CHOOSE round : round = [k \in Nat |-> IF k = 0 THEN DepthsBefore(E) ELSE DepthRound(E, round[k - 1])]

(* The rounds ImportDepth goes through.                                      *)
LEMMA DepthRounds ==
  ASSUME NEW E \in Graphs
  PROVE  \A k \in Nat : DepthRoundOf(E)[k] = DepthsAfter(E, k)
<1> DEFINE g == [k \in Nat |-> DepthsAfter(E, k)]
           Is(f) == f = [k \in Nat |-> IF k = 0 THEN DepthsBefore(E) ELSE DepthRound(E, f[k - 1])]
           round == DepthRoundOf(E)
<1>1. DepthsAfter(E, 0) = DepthsBefore(E)
  BY DepthsFirst
<1>2. \A k \in Nat : DepthRound(E, DepthsAfter(E, k)) = DepthsAfter(E, k + 1)
  BY DepthsNext
<1>3. \A k \in Nat : k # 0 => k - 1 \in Nat /\ (k - 1) + 1 = k
  OBVIOUS
<1>4. Is(g)
  <2>1. \A k \in Nat : g[k] = IF k = 0 THEN DepthsBefore(E) ELSE DepthRound(E, g[k - 1])
    BY <1>1, <1>2, <1>3
  <2>2. QED
    BY <2>1
<1>5. Is(round)
  <2>1. \E f : Is(f)
    BY <1>4
  <2>2. round = CHOOSE f : Is(f)
    BY DEF DepthRoundOf
  <2>3. QED
    BY <2>1, <2>2
<1> HIDE DEF round, g
<1> DEFINE S == {k \in Nat : round[k] = DepthsAfter(E, k)}
<1>6. 0 \in S
  BY <1>1, <1>5
<1>7. ASSUME NEW k \in Nat, k \in S PROVE k + 1 \in S
  <2>1. k + 1 \in Nat /\ k + 1 # 0 /\ (k + 1) - 1 = k
    OBVIOUS
  <2>2. round[k + 1] = DepthRound(E, round[k])
    BY <1>5, <2>1
  <2>3. QED
    BY <1>2, <1>7, <2>1, <2>2
<1> HIDE DEF S
<1>8. Nat \subseteq S
  BY <1>6, <1>7, Induction
<1>9. QED
  BY <1>8 DEF S, round

(* ImportDepth is -1 on cycles, the level of a settled node, and a natural   *)
(* below a cycle.                                                            *)
LEMMA DepthIs ==
  ASSUME NEW E \in Graphs
  PROVE  /\ DOMAIN ImportDepth(E) = Nodes(E)
         /\ \A n \in Nodes(E) :
              /\ n \in OnCycle(E) => ImportDepth(E)[n] = -1
              /\ n \notin OnCycle(E) => ImportDepth(E)[n] \in Nat
              /\ n \in Settled(E) => ImportDepth(E)[n] = Level(E, n)
<1> DEFINE k == Cardinality(Nodes(E))
<1>1. k \in Nat
  BY GraphFinite, FS_CardinalityType
<1>2. ImportDepth(E) = DepthRoundOf(E)[k].depth
  BY DEF ImportDepth, DepthRoundOf
<1>3. \A n \in Settled(E) : Level(E, n) <= k /\ n \notin OnCycle(E)
  BY LevelIs, SettledBack
<1> HIDE DEF k
<1>4. ImportDepth(E) = DepthsAfter(E, k).depth
  BY <1>1, <1>2, DepthRounds
<1>5. DOMAIN ImportDepth(E) = Nodes(E)
  BY <1>4 DEF DepthsAfter
<1>6. ASSUME NEW n \in Nodes(E)
      PROVE  /\ n \in OnCycle(E) => ImportDepth(E)[n] = -1
             /\ n \notin OnCycle(E) => ImportDepth(E)[n] \in Nat
             /\ n \in Settled(E) => ImportDepth(E)[n] = Level(E, n)
  <2>1. /\ ImportDepth(E)[n] = IF n \in OnCycle(E) THEN -1 ELSE Max({0} \cup RaisedTo(E, k, n))
        /\ Max({0} \cup RaisedTo(E, k, n)) \in Nat
    BY <1>1, <1>4, DepthsNumbers
  <2>2. n \in Settled(E) => Max({0} \cup RaisedTo(E, k, n)) = Level(E, n)
    BY <1>1, <1>3, DepthSettled
  <2>3. QED
    BY <1>3, <2>1, <2>2
<1>7. QED
  BY <1>5, <1>6

(* Part of LayersConsistent: depths are those of the longest chains.         *)
LEMMA DepthIsLongestPathWell ==
  ASSUME edges \in Graphs
  PROVE  DepthIsLongestPath
<1> DEFINE E == Imports
<1>1. E \in Graphs
  BY ImportsGraph
<1>2. \A n \in Nodes(E) : n \in Names
  BY <1>1, GraphFinite
<1>3. \A n \in Nodes(E) : n \in OnCycle(E) <=> <<n, n>> \in Linked(E)
  BY <1>2 DEF OnCycle
<1> HIDE DEF E
<1>4. ASSUME NEW n \in Nodes(E)
      PROVE  (ImportDepth(E)[n] = -1) <=> <<n, n>> \in Linked(E)
  <2>1. (n \in OnCycle(E) => ImportDepth(E)[n] = -1) /\ (n \notin OnCycle(E) => ImportDepth(E)[n] \in Nat)
    BY <1>1, DepthIs
  <2>2. ASSUME ImportDepth(E)[n] \in Nat PROVE ImportDepth(E)[n] # -1
    BY <2>2
  <2>3. QED
    BY <1>3, <2>1, <2>2
<1>5. ASSUME NEW n \in Nodes(E), n \in Settled(E) PROVE ImportDepth(E)[n] = Level(E, n)
  BY <1>1, <1>5, DepthIs
<1>6. \A n \in Nodes(E) :
        /\ (ImportDepth(E)[n] = -1) <=> <<n, n>> \in Linked(E)
        /\ n \in Settled(E) => ImportDepth(E)[n] = Level(E, n)
  <2>1. \A n \in Nodes(E) : (ImportDepth(E)[n] = -1) <=> <<n, n>> \in Linked(E)
    BY <1>4
  <2>2. \A n \in Nodes(E) : n \in Settled(E) => ImportDepth(E)[n] = Level(E, n)
    BY <1>5
  <2>3. QED
    BY <2>1, <2>2
<1>7. QED
  BY <1>6, Zenon DEF DepthIsLongestPath, Level, E

(* A settled node at level 0 is one that nothing imports.                    *)
LEMMA LevelZero ==
  ASSUME NEW E \in Graphs, NEW n \in Settled(E)
  PROVE  Level(E, n) > 0 <=> FanIn(E, n) > 0
<1> DEFINE I == {e \in E : e[2] = n}
<1>1. IsFiniteSet(I) /\ FanIn(E, n) = Cardinality(I) /\ FanIn(E, n) \in Nat
  BY GraphFinite, FS_Subset, FanNumbers DEF FanIn
<1>2. FanIn(E, n) > 0 <=> I # {}
  <2> HIDE DEF I
  <2>1. Cardinality(I) = 0 <=> I = {}
    BY <1>1, FS_EmptySet
  <2>2. QED
    BY <1>1, <2>1
<1>3. Level(E, n) \in Nat
  BY LevelIs
<1>4. ASSUME NEW e \in I PROVE Level(E, n) > 0
  <2>1. <<e[1], n>> \in E
    BY PairOfNames
  <2>2. Level(E, e[1]) \in Nat /\ Level(E, e[1]) + 1 <= Level(E, n)
    BY <2>1, LevelSteps
  <2>3. QED
    BY <1>3, <2>2
<1>5. ASSUME Level(E, n) > 0 PROVE I # {}
  <2>1. Level(E, n) # 0
    BY <1>3, <1>5
  <2>2. PICK m \in Settled(E) : <<m, n>> \in E
    BY <2>1, LevelSteps
  <2> DEFINE e == <<m, n>>
  <2>3. e \in E /\ e[2] = n
    BY <2>2
  <2> HIDE DEF e
  <2>4. QED
    BY <2>3
<1>6. QED
  BY <1>2, <1>4, <1>5

(* The depths of an import that no cycle leads to.                           *)
LEMMA DepthOfImport ==
  ASSUME NEW E \in Graphs, NEW e \in E, e[2] \in Settled(E)
  PROVE  /\ e[1] \in Settled(E) /\ e[1] \in Nodes(E) /\ e[2] \in Nodes(E)
         /\ ImportDepth(E)[e[1]] = Level(E, e[1]) /\ ImportDepth(E)[e[2]] = Level(E, e[2])
         /\ Level(E, e[1]) \in Nat /\ Level(E, e[2]) \in Nat /\ Level(E, e[1]) < Level(E, e[2])
<1>1. <<e[1], e[2]>> \in E
  BY PairOfNames
<1>2. e[1] \in Settled(E)
  BY <1>1, SettledBack
<1>3. e[1] \in Nodes(E) /\ e[2] \in Nodes(E)
  BY DEF Nodes
<1>4. Level(E, e[1]) \in Nat /\ Level(E, e[2]) \in Nat /\ Level(E, e[1]) + 1 <= Level(E, e[2])
  BY <1>1, <1>2, LevelIs, LevelSteps
<1>5. Level(E, e[1]) < Level(E, e[2])
  BY <1>4
<1>6. QED
  BY <1>2, <1>3, <1>4, <1>5, DepthIs

(* Part of LayersConsistent: every import below the roots is flagged.        *)
LEMMA InnerEdgesFlaggedWell ==
  ASSUME edges \in Graphs
  PROVE  InnerEdgesFlagged
<1> DEFINE E == Imports
<1>1. E \in Graphs
  BY ImportsGraph
<1> HIDE DEF E
<1>2. ASSUME NEW e \in E, e[2] \in Settled(E)
      PROVE  e \in ComputeImportDirection(E, ImportDepth(E)) <=> FanIn(E, e[1]) > 0
  <2>1. /\ e[1] \in Settled(E)
        /\ ImportDepth(E)[e[1]] = Level(E, e[1]) /\ ImportDepth(E)[e[2]] = Level(E, e[2])
        /\ Level(E, e[1]) < Level(E, e[2])
    BY <1>1, <1>2, DepthOfImport
  <2>2. Level(E, e[1]) > 0 <=> FanIn(E, e[1]) > 0
    BY <1>1, <2>1, LevelZero
  <2>3. e \in ComputeImportDirection(E, ImportDepth(E))
          <=> ImportDepth(E)[e[1]] > 0 /\ ImportDepth(E)[e[1]] < ImportDepth(E)[e[2]]
    BY DEF ComputeImportDirection
  <2>4. QED
    BY <2>1, <2>2, <2>3
<1>3. QED
  BY <1>2 DEF InnerEdgesFlagged, E

(* Sorted by depth, then by name, each has a place of its own.               *)
Ahead(D, n) == {m \in DOMAIN D : Before(D, m, n)}

(* The order of the layers is strict and total.                              *)
LEMMA BeforeOrders ==
  ASSUME NEW D \in [Names -> Int], NEW a \in Names, NEW b \in Names
  PROVE  /\ ~Before(D, a, a)
         /\ a # b => Before(D, a, b) \/ Before(D, b, a)
         /\ \A c \in Names : Before(D, a, b) /\ Before(D, b, c) => Before(D, a, c)
<1>1. \A n \in Names : D[n] \in Int /\ n \in Int
  BY NamesFinite
<1>2. QED
  BY <1>1 DEF Before

(* A place is one of the list, and what comes before has an earlier one.     *)
LEMMA PlaceGrows ==
  ASSUME NEW D \in [Names -> Int], NEW a \in Names, NEW b \in Names
  PROVE  /\ Place(D, a) \in 1..Size
         /\ Before(D, a, b) => Place(D, a) < Place(D, b)
<1>1. ASSUME NEW n \in Names
      PROVE  /\ IsFiniteSet(Ahead(D, n)) /\ Cardinality(Ahead(D, n)) \in Nat
             /\ Place(D, n) = Cardinality(Ahead(D, n)) + 1 /\ Ahead(D, n) \in SUBSET (Names \ {n})
  <2>1. Ahead(D, n) \in SUBSET (Names \ {n})
    BY BeforeOrders DEF Ahead
  <2>2. IsFiniteSet(Ahead(D, n)) /\ Cardinality(Ahead(D, n)) \in Nat
    BY <2>1, NamesFinite, FS_Subset, FS_CardinalityType
  <2>3. QED
    BY <2>1, <2>2 DEF Place, Ahead
<1>2. Place(D, a) \in 1..Size
  <2>1. IsFiniteSet(Names \ {a}) /\ Cardinality(Names \ {a}) = Size - 1
    <3>1. IsFiniteSet(Names) /\ a \in Names
      BY NamesFinite
    <3>2. IsFiniteSet(Names \ {a}) /\ Cardinality(Names \ {a}) = Cardinality(Names) - 1
      BY <3>1, FS_RemoveElement
    <3>3. QED
      BY <3>2, NamesFinite
  <2>2. Cardinality(Ahead(D, a)) <= Size - 1
    BY <1>1, <2>1, FS_Subset
  <2>3. Cardinality(Ahead(D, a)) \in Nat /\ Place(D, a) = Cardinality(Ahead(D, a)) + 1
    BY <1>1
  <2>4. QED
    BY <2>2, <2>3, NamesFinite
<1>3. ASSUME Before(D, a, b) PROVE Place(D, a) < Place(D, b)
  <2>1. Ahead(D, a) \in SUBSET Ahead(D, b)
    BY <1>3, BeforeOrders DEF Ahead
  <2>2. a \in Ahead(D, b) /\ a \notin Ahead(D, a)
    BY <1>1, <1>3 DEF Ahead
  <2>3. Cardinality(Ahead(D, a)) < Cardinality(Ahead(D, b))
    <3>1. Cardinality(Ahead(D, a)) <= Cardinality(Ahead(D, b))
      BY <1>1, <2>1, FS_Subset
    <3>2. Cardinality(Ahead(D, a)) = Cardinality(Ahead(D, b)) => Ahead(D, a) = Ahead(D, b)
      BY <1>1, <2>1, FS_Subset
    <3>3. Cardinality(Ahead(D, a)) # Cardinality(Ahead(D, b))
      BY <2>2, <3>2
    <3>4. Cardinality(Ahead(D, a)) \in Nat /\ Cardinality(Ahead(D, b)) \in Nat
      BY <1>1
    <3>5. QED
      BY <3>1, <3>3, <3>4
  <2>4. QED
    BY <1>1, <2>3
<1>4. QED
  BY <1>2, <1>3

(* No place is given twice, and all of them are given.                       *)
LEMMA PlacesAll ==
  ASSUME NEW D \in [Names -> Int]
  PROVE  /\ \A a, b \in Names : Place(D, a) = Place(D, b) => a = b
         /\ \A i \in 1..Size : \E n \in Names : Place(D, n) = i
<1> DEFINE f == [n \in Names |-> Place(D, n)]
           T == 1..Size
<1>1. ASSUME NEW a \in Names, NEW b \in Names, Place(D, a) = Place(D, b) PROVE a = b
  <2>1. Place(D, a) \in Int /\ Place(D, b) \in Int
    BY PlaceGrows
  <2>2. ~(Place(D, a) < Place(D, b)) /\ ~(Place(D, b) < Place(D, a))
    BY <1>1, <2>1
  <2>3. QED
    BY <2>2, BeforeOrders, PlaceGrows
<1>2. f \in Injection(Names, T)
  <2>1. \A n \in Names : Place(D, n) \in T
    BY PlaceGrows
  <2>2. f \in [Names -> T]
    BY <2>1
  <2>3. QED
    BY <1>1, <2>2 DEF Injection, IsInjective
<1>3. IsFiniteSet(T) /\ Cardinality(T) = Cardinality(Names)
  BY NamesFinite
<1>4. f \in Surjection(Names, T)
  <2> HIDE DEF f, T
  <2>1. QED
    BY <1>2, <1>3, FS_Injection
<1>5. \A i \in T : \E n \in Names : f[n] = i
  BY <1>4 DEF Surjection
<1>6. QED
  BY <1>1, <1>5

(* The layers: each name once, at its place.                                 *)
LEMMA LayersAre ==
  ASSUME NEW E \in Graphs
  PROVE  /\ LayerDepths(E, Names) \in [Names -> Int]
         /\ InferLayerOrder(E, Names) \in [1..Size -> Names]
         /\ Len(InferLayerOrder(E, Names)) = Size
         /\ \A i \in 1..Size, n \in Names :
              InferLayerOrder(E, Names)[i] = n <=> Place(LayerDepths(E, Names), n) = i
<1> DEFINE D == LayerDepths(E, Names)
           l == InferLayerOrder(E, Names)
<1>1. D \in [Names -> Int]
  <2>1. ASSUME NEW n \in DOMAIN ImportDepth(E) PROVE ImportDepth(E)[n] \in Int
    <3>1. n \in Nodes(E)
      BY DepthIs
    <3>2. n \notin OnCycle(E) => ImportDepth(E)[n] \in Nat
      BY <3>1, DepthIs
    <3>3. n \in OnCycle(E) => ImportDepth(E)[n] = -1
      BY <3>1, DepthIs
    <3>4. -1 \in Int
      OBVIOUS
    <3>5. QED
      BY <3>2, <3>3, <3>4
  <2>2. \A n \in Names : (IF n \in DOMAIN ImportDepth(E) THEN ImportDepth(E)[n] ELSE 0) \in Int
    BY <2>1
  <2>3. QED
    BY <2>2 DEF LayerDepths
<1>2. l = [i \in 1..Size |-> CHOOSE n \in Names : Place(D, n) = i]
  BY NamesFinite DEF InferLayerOrder
<1> HIDE DEF D, l
<1>3. \A i \in 1..Size : l[i] \in Names /\ Place(D, l[i]) = i
  <2>1. \A i \in 1..Size : \E n \in Names : Place(D, n) = i
    BY <1>1, PlacesAll
  <2>2. QED
    BY <1>2, <2>1
<1>4. l \in [1..Size -> Names]
  BY <1>2, <1>3
<1>5. Len(l) = Size
  <2>1. Size \in Nat /\ l \in Seq(Names) /\ DOMAIN l = 1..Size
    BY <1>4, NamesFinite
  <2>2. QED
    BY <2>1
<1>6. \A i \in 1..Size, n \in Names : l[i] = n <=> Place(D, n) = i
  BY <1>1, <1>3, PlacesAll
<1>7. QED
  BY <1>1, <1>4, <1>5, <1>6 DEF D, l

(* The rank of a name in a list that has each name once is its place.        *)
Ranks(layers, n) == {i \in DOMAIN layers : layers[i] = n}

(* By a list that has each name once the edges to later places are flagged.  *)
LEMMA PurityOf ==
  ASSUME NEW E \in Graphs, NEW l \in [1..Size -> Names], NEW P \in [Names -> 1..Size],
         \A i \in 1..Size, n \in Names : l[i] = n <=> P[n] = i
  PROVE  /\ Range(l) = Names
         /\ CheckLayerPurity(E, l) \in SUBSET E
         /\ \A e \in E : e \in CheckLayerPurity(E, l) <=> P[e[1]] < P[e[2]]
<1>1. ASSUME NEW n \in Names PROVE Max(Ranks(l, n)) = P[n]
  <2>1. P[n] \in 1..Size /\ l[P[n]] = n
    OBVIOUS
  <2>2. Ranks(l, n) \in SUBSET Int /\ P[n] \in Ranks(l, n) /\ \A y \in Ranks(l, n) : y = P[n]
    BY <2>1, NamesFinite DEF Ranks
  <2>3. \A y \in Ranks(l, n) : y <= P[n]
    BY <2>2
  <2>4. QED
    BY <2>2, <2>3, MaxIs
<1>2. Range(l) = Names
  <2>1. \A n \in Names : P[n] \in 1..Size /\ l[P[n]] = n
    OBVIOUS
  <2>2. QED
    BY <2>1 DEF Range
<1>3. \A e : e \in CheckLayerPurity(E, l)
          <=> e \in E /\ {e[1], e[2]} \subseteq Range(l) /\ Max(Ranks(l, e[1])) < Max(Ranks(l, e[2]))
  BY DEF CheckLayerPurity, Ranks
<1>4. \A e \in E : e[1] \in Names /\ e[2] \in Names
  BY PairOfNames
<1>5. QED
  BY <1>1, <1>2, <1>3, <1>4

(* The inferred layers, and those read from the top.                         *)
LEMMA LayersFlag ==
  ASSUME NEW E \in Graphs
  PROVE  /\ Range(InferLayerOrder(E, Names)) = Names
         /\ \A F \in SUBSET E :
              (\A e \in F : e[2] \in Settled(E)) =>
                 /\ CheckLayerPurity(F, Reverse(InferLayerOrder(E, Names))) = {}
                 /\ F \subseteq CheckLayerPurity(E, InferLayerOrder(E, Names))
         /\ CheckLayerPurity(E, InferLayerOrder(E, Names)) \in SUBSET E
<1> DEFINE D == LayerDepths(E, Names)
           l == InferLayerOrder(E, Names)
           r == Reverse(l)
           P == [n \in Names |-> Place(D, n)]
           Q == [n \in Names |-> Size + 1 - Place(D, n)]
<1>1. /\ D \in [Names -> Int] /\ l \in [1..Size -> Names] /\ Len(l) = Size
      /\ \A i \in 1..Size, n \in Names : l[i] = n <=> Place(D, n) = i
  BY LayersAre
<1>2. \A n \in Names : Place(D, n) \in 1..Size
  BY <1>1, PlaceGrows
<1>3. P \in [Names -> 1..Size] /\ \A i \in 1..Size, n \in Names : l[i] = n <=> P[n] = i
  BY <1>1, <1>2
<1>4. \A i \in 1..Size : Size + 1 - i \in 1..Size /\ Size + 1 - (Size + 1 - i) = i /\ (Size - i) + 1 = Size + 1 - i
  BY NamesFinite
<1>5. Q \in [Names -> 1..Size]
  BY <1>2, <1>4
<1>6. r \in [1..Size -> Names] /\ \A i \in 1..Size : r[i] = l[Size + 1 - i]
  <2>1. r = [i \in 1..Size |-> l[(Size - i) + 1]]
    BY <1>1 DEF Reverse
  <2> HIDE DEF r, l
  <2>2. \A i \in 1..Size : r[i] = l[Size + 1 - i] /\ r[i] \in Names
    BY <1>1, <1>4, <2>1
  <2>3. QED
    BY <2>1, <2>2
<1>7. \A i \in 1..Size, n \in Names : r[i] = n <=> Q[n] = i
  <2> HIDE DEF r, l, D
  <2>1. ASSUME NEW i \in 1..Size, NEW n \in Names PROVE r[i] = n <=> Q[n] = i
    <3>1. r[i] = n <=> Place(D, n) = Size + 1 - i
      <4> DEFINE j == Size + 1 - i
      <4>1. j \in 1..Size /\ r[i] = l[j]
        BY <1>4, <1>6
      <4> HIDE DEF j
      <4>2. r[i] = n <=> Place(D, n) = j
        BY <1>1, <4>1
      <4>3. QED
        BY <4>2 DEF j
    <3>2. Place(D, n) \in 1..Size /\ i \in 1..Size /\ Size \in Nat
      BY <1>2, NamesFinite
    <3>3. Place(D, n) = Size + 1 - i <=> Size + 1 - Place(D, n) = i
      BY <3>2
    <3>4. QED
      BY <3>1, <3>3
  <2>2. QED
    BY <2>1
<1>8. ASSUME NEW e \in E, e[2] \in Settled(E)
      PROVE  Place(D, e[1]) < Place(D, e[2])
  <2>1. e[1] \in Names /\ e[2] \in Names
    BY PairOfNames
  <2>2. /\ e[1] \in Nodes(E) /\ e[2] \in Nodes(E)
        /\ ImportDepth(E)[e[1]] = Level(E, e[1]) /\ ImportDepth(E)[e[2]] = Level(E, e[2])
        /\ Level(E, e[1]) < Level(E, e[2])
    BY <1>8, DepthOfImport
  <2>3. DOMAIN ImportDepth(E) = Nodes(E)
    BY DepthIs
  <2>4. D[e[1]] = Level(E, e[1]) /\ D[e[2]] = Level(E, e[2])
    BY <2>1, <2>2, <2>3 DEF LayerDepths
  <2>5. Before(D, e[1], e[2])
    BY <2>2, <2>4 DEF Before
  <2> HIDE DEF D
  <2>6. QED
    BY <1>1, <2>1, <2>5, PlaceGrows
<1> HIDE DEF r, l, D
<1>9. Range(l) = Names
  <2> HIDE DEF P
  <2>1. QED
    BY <1>1, <1>3, PurityOf
<1>10. ASSUME NEW F \in SUBSET E, \A e \in F : e[2] \in Settled(E)
       PROVE  CheckLayerPurity(F, r) = {} /\ F \subseteq CheckLayerPurity(E, l)
  <2>1. F \in Graphs
    BY DEF Graphs
  <2>2. ASSUME NEW e \in F
        PROVE  P[e[1]] < P[e[2]] /\ ~(Q[e[1]] < Q[e[2]])
    <3>1. e[1] \in Names /\ e[2] \in Names /\ Place(D, e[1]) < Place(D, e[2])
      BY <1>8, <1>10, <2>1, PairOfNames
    <3>2. Place(D, e[1]) \in 1..Size /\ Place(D, e[2]) \in 1..Size
      BY <1>2, <3>1
    <3>3. ~(Size + 1 - Place(D, e[1]) < Size + 1 - Place(D, e[2]))
      BY <3>1, <3>2, NamesFinite
    <3>4. QED
      BY <3>1, <3>3
  <2> HIDE DEF P, Q
  <2>3. /\ CheckLayerPurity(F, r) \in SUBSET F
        /\ \A e \in F : e \in CheckLayerPurity(F, r) <=> Q[e[1]] < Q[e[2]]
    BY <1>5, <1>6, <1>7, <2>1, PurityOf
  <2>4. \A e \in E : e \in CheckLayerPurity(E, l) <=> P[e[1]] < P[e[2]]
    BY <1>1, <1>3, PurityOf
  <2>5. QED
    BY <2>2, <2>3, <2>4
<1>11. CheckLayerPurity(E, l) \in SUBSET E
  BY DEF CheckLayerPurity
<1>12. QED
  BY <1>9, <1>10, <1>11 DEF r, l

(* What GetDrift says, by the rules it takes.                                *)
RulesOf(E, services, desired) ==
    IF desired # NoState THEN desired
    ELSE [layers |-> InferLayerOrder(E, DOMAIN services), boundaries |-> {}, constraints |-> {}]

Violations(E, services, ds) ==
    Cardinality(CheckLayerPurity(E, ds.layers)) + Cardinality(CheckBoundaryRules(E, ds.boundaries))
      + Cardinality(ComputeBudgetViolations(E, services, ds.constraints))

Checks(E, services, ds) ==
    Cardinality(E) + Cardinality(ds.boundaries) + CountBudgetChecks(services, ds.constraints)

(* GetDrift unfolded.                                                        *)
LEMMA DriftOf ==
  ASSUME NEW E, NEW services, NEW desired,
         NEW ds, ds = RulesOf(E, services, desired),
         NEW v, v = Violations(E, services, ds), NEW c, c = Checks(E, services, ds)
  PROVE  /\ GetDrift(E, services, desired).layered = CheckLayerPurity(E, ds.layers)
         /\ GetDrift(E, services, desired).score
              = IF c = 0 THEN 100 ELSE Max({0, (100 * (c - v)) \div c})
         /\ GetDrift(E, services, desired).clean <=> v = 0
<1>1. GetDrift(E, services, desired).layered = CheckLayerPurity(E, ds.layers)
  BY DEF GetDrift, DriftFrom, RulesOf
<1>2. GetDrift(E, services, desired).score
        = IF c = 0 THEN 100 ELSE Max({0, (100 * (c - v)) \div c})
  BY DEF GetDrift, DriftFrom, RulesOf, Violations, Checks
<1>3. GetDrift(E, services, desired).clean <=> v = 0
  BY DEF GetDrift, DriftFrom, RulesOf, Violations
<1>4. QED
  BY <1>1, <1>2, <1>3

(* The parts of the score.                                                   *)
LEMMA DriftParts ==
  ASSUME NEW E \in Graphs, NEW services, NEW ds, IsFiniteSet(ds.boundaries), IsFiniteSet(ds.constraints)
  PROVE  /\ Violations(E, services, ds) \in Nat /\ Checks(E, services, ds) \in Nat
         /\ Checks(E, services, ds) = 0 => Violations(E, services, ds) = 0
<1> DEFINE L == CheckLayerPurity(E, ds.layers)
           B == CheckBoundaryRules(E, ds.boundaries)
           V == ComputeBudgetViolations(E, services, ds.constraints)
           K == {p \in ds.constraints \X Metrics :
                    p[1].component \in DOMAIN services /\ p[1].max[p[2]] > 0}
<1>1. IsFiniteSet(E) /\ Cardinality(E) \in Nat
  BY GraphFinite
<1>2. L \in SUBSET E /\ B \in SUBSET (E \X ds.boundaries) /\ V \in SUBSET K
  BY DEF CheckLayerPurity, CheckBoundaryRules, ComputeBudgetViolations
<1>3. IsFiniteSet(Metrics)
  <2>1. IsFiniteSet({"fanIn"}) /\ IsFiniteSet({"churn"}) /\ IsFiniteSet({"nesting"})
    BY FS_Singleton
  <2>2. IsFiniteSet({"fanIn"} \cup {"churn"})
    BY <2>1, FS_Union
  <2>3. IsFiniteSet(({"fanIn"} \cup {"churn"}) \cup {"nesting"})
    BY <2>1, <2>2, FS_Union
  <2>4. ({"fanIn"} \cup {"churn"}) \cup {"nesting"} = Metrics
    BY DEF Metrics
  <2>5. QED
    BY <2>3, <2>4
<1>4. IsFiniteSet(E \X ds.boundaries) /\ IsFiniteSet(ds.constraints \X Metrics)
  BY <1>1, <1>3, FS_Product
<1>5. IsFiniteSet(K)
  BY <1>4, FS_Subset
<1>6. CountBudgetChecks(services, ds.constraints) = Cardinality(K)
  BY DEF CountBudgetChecks
<1>7. /\ Violations(E, services, ds) = Cardinality(L) + Cardinality(B) + Cardinality(V)
      /\ Checks(E, services, ds) = Cardinality(E) + Cardinality(ds.boundaries) + Cardinality(K)
  BY <1>6 DEF Violations, Checks
<1> HIDE DEF L, B, V, K
<1>8. /\ IsFiniteSet(L) /\ IsFiniteSet(B) /\ IsFiniteSet(V)
      /\ Cardinality(L) \in Nat /\ Cardinality(B) \in Nat /\ Cardinality(V) \in Nat
      /\ Cardinality(K) \in Nat /\ Cardinality(ds.boundaries) \in Nat
  BY <1>1, <1>2, <1>4, <1>5, FS_Subset, FS_CardinalityType
<1>9. ASSUME Checks(E, services, ds) = 0 PROVE Violations(E, services, ds) = 0
  <2>1. Cardinality(E) = 0 /\ Cardinality(K) = 0
    BY <1>1, <1>7, <1>8, <1>9
  <2>2. E = {} /\ K = {}
    BY <1>1, <1>5, <2>1, FS_EmptySet
  <2>3. L = {} /\ B = {} /\ V = {}
    BY <1>2, <2>2
  <2>4. Cardinality(L) = 0 /\ Cardinality(B) = 0 /\ Cardinality(V) = 0
    BY <2>3, FS_EmptySet
  <2>5. QED
    BY <1>7, <2>4
<1>10. Violations(E, services, ds) \in Nat /\ Checks(E, services, ds) \in Nat
  BY <1>1, <1>7, <1>8
<1>11. QED
  BY <1>9, <1>10

(* Max of nought and a number.                                               *)
LEMMA MaxWithZero ==
  ASSUME NEW a \in Int
  PROVE  Max({0, a}) = IF a <= 0 THEN 0 ELSE a
<1> DEFINE S == {0, a}
<1>1. S \in SUBSET Int /\ 0 \in S /\ a \in S /\ \A y \in S : y = 0 \/ y = a
  OBVIOUS
<1> HIDE DEF S
<1>2. CASE a <= 0
  BY <1>1, <1>2, MaxIs DEF S
<1>3. CASE ~(a <= 0)
  BY <1>1, <1>3, MaxIs DEF S
<1>4. QED
  BY <1>2, <1>3

(* Full exactly without violations.                                          *)
LEMMA ScoreFull ==
  ASSUME NEW v \in Nat, NEW c \in Nat, c = 0 => v = 0
  PROVE  (v = 0) <=> (IF c = 0 THEN 100 ELSE Max({0, (100 * (c - v)) \div c})) = 100
<1>1. ASSUME c # 0, v = 0 PROVE Max({0, (100 * (c - v)) \div c}) = 100
  <2>1. 100 * (c - v) = c * 100
    BY <1>1
  <2>2. c \in Nat \ {0} /\ 100 \in Nat
    BY <1>1
  <2>3. (100 * (c - v)) \div c = 100
    BY <2>1, <2>2
  <2>4. QED
    BY <2>3, MaxWithZero
<1>2. ASSUME c # 0, v # 0 PROVE Max({0, (100 * (c - v)) \div c}) # 100
  <2> DEFINE q == (100 * (c - v)) \div c
  <2>1. q \in Int /\ c * q <= 100 * (c - v)
    BY <1>2
  <2>2. 100 * (c - v) < c * 100
    BY <1>2
  <2> HIDE DEF q
  <2>3. c * q < c * 100
    BY <2>1, <2>2
  <2>4. q # 100
    BY <2>3
  <2>5. QED
    BY <2>1, <2>4, MaxWithZero DEF q
<1>3. QED
  BY <1>1, <1>2

(* Part of LayersConsistent: the score is full exactly when all is well.     *)
LEMMA DriftScoredWell ==
  ASSUME edges \in Graphs
  PROVE  DriftScored
<1> DEFINE E == Imports
<1>1. E \in Graphs
  BY ImportsGraph
<1> HIDE DEF E
<1>2. ASSUME NEW desired \in DesiredStates
      PROVE  GetDrift(E, Services, desired).clean <=> GetDrift(E, Services, desired).score = 100
  <2> DEFINE ds == RulesOf(E, Services, desired)
             v == Violations(E, Services, ds)
             c == Checks(E, Services, ds)
  <2>1. IsFiniteSet(ds.boundaries) /\ IsFiniteSet(ds.constraints)
    <3>1. CASE desired # NoState
      BY <3>1, GraphReportsAssumption DEF RulesOf
    <3>2. CASE desired = NoState
      <4>1. ds.boundaries = {} /\ ds.constraints = {}
        BY <3>2 DEF RulesOf
      <4>2. QED
        BY <4>1, FS_EmptySet
    <3>3. QED
      BY <3>1, <3>2
  <2> HIDE DEF ds
  <2>2. v \in Nat /\ c \in Nat /\ (c = 0 => v = 0)
    BY <1>1, <2>1, DriftParts
  <2>3. /\ GetDrift(E, Services, desired).score
             = IF c = 0 THEN 100 ELSE Max({0, (100 * (c - v)) \div c})
        /\ GetDrift(E, Services, desired).clean <=> v = 0
    BY DriftOf DEF ds
  <2> HIDE DEF v, c
  <2>4. (v = 0) <=> (IF c = 0 THEN 100 ELSE Max({0, (100 * (c - v)) \div c})) = 100
    BY <2>2, ScoreFull
  <2>5. QED
    BY <2>3, <2>4
<1>3. QED
  BY <1>2 DEF DriftScored, E

(* Part of LayersConsistent: the inferred layers are the wrong way round.    *)
LEMMA InferredLayersReversedWell ==
  ASSUME edges \in Graphs
  PROVE  InferredLayersReversed
<1> DEFINE E == Imports
           l == InferLayerOrder(E, Names)
           settled == {e \in E : e[2] \in Settled(E)}
           drift == GetDrift(E, Services, NoState)
<1>1. E \in Graphs
  BY ImportsGraph
<1>2. settled \in SUBSET E /\ \A e \in settled : e[2] \in Settled(E)
  OBVIOUS
<1>3. DOMAIN Services = Names
  BY GraphReportsAssumption
<1> DEFINE ds == RulesOf(E, Services, NoState)
           v == Violations(E, Services, ds)
           c == Checks(E, Services, ds)
<1>4. ds.layers = l /\ ds.boundaries = {} /\ ds.constraints = {}
  BY <1>3 DEF RulesOf
<1> HIDE DEF E, l, settled, ds
<1>5. /\ Range(l) = Names /\ CheckLayerPurity(settled, Reverse(l)) = {}
      /\ settled \subseteq CheckLayerPurity(E, l) /\ CheckLayerPurity(E, l) \in SUBSET E
  BY <1>1, <1>2, LayersFlag DEF l
<1>6. /\ drift.layered = CheckLayerPurity(E, l)
      /\ drift.score = IF c = 0 THEN 100 ELSE Max({0, (100 * (c - v)) \div c})
  <2>1. ds = RulesOf(E, Services, NoState)
    BY DEF ds
  <2>2. /\ drift.layered = CheckLayerPurity(E, ds.layers)
        /\ drift.score = IF c = 0 THEN 100 ELSE Max({0, (100 * (c - v)) \div c})
    BY <2>1, DriftOf
  <2>3. QED
    BY <1>4, <2>2
<1>7. ASSUME settled = E, E # {} PROVE drift.score = 0
  <2>1. CheckLayerPurity(E, l) = E
    BY <1>5, <1>7
  <2>2. Cardinality({}) = 0
    BY FS_EmptySet
  <2>3. CheckBoundaryRules(E, {}) = {}
    BY DEF CheckBoundaryRules
  <2>4. ComputeBudgetViolations(E, Services, {}) = {}
    BY DEF ComputeBudgetViolations
  <2>5. CountBudgetChecks(Services, {}) = 0
    <3>1. {p \in {} \X Metrics : p[1].component \in DOMAIN Services /\ p[1].max[p[2]] > 0} = {}
      OBVIOUS
    <3>2. QED
      BY <2>2, <3>1 DEF CountBudgetChecks
  <2>6. v = Cardinality(E) + 0 + 0 /\ c = Cardinality(E) + 0 + 0
    BY <1>4, <2>1, <2>2, <2>3, <2>4, <2>5 DEF Violations, Checks
  <2>7. Cardinality(E) \in Nat /\ Cardinality(E) # 0
    BY <1>1, <1>7, GraphFinite, FS_EmptySet
  <2> HIDE DEF v, c
  <2>8. c \in Nat \ {0} /\ v = c
    BY <2>6, <2>7
  <2>9. (100 * (c - v)) \div c = 0
    <3>1. 100 * (c - v) = c * 0 /\ 0 \in Nat
      BY <2>8
    <3>2. QED
      BY <2>8, <3>1
  <2>10. Max({0, 0}) = 0
    BY MaxWithZero
  <2>11. QED
    BY <1>6, <2>8, <2>9, <2>10
<1>8. QED
  BY <1>5, <1>6, <1>7 DEF InferredLayersReversed, E, l, settled

(* In every graph depths are those of the longest chains of imports, the     *)
(* direction of imports is judged by them, the layers inferred from them are *)
(* the imports' the other way round, and the score of a drift is full        *)
(* exactly when nothing is wrong.                                            *)
THEOREM LayersConsistentHolds == Spec => []LayersConsistent
<1>1. edges \in Graphs => LayersConsistent
  BY DepthIsLongestPathWell, InnerEdgesFlaggedWell, InferredLayersReversedWell, DriftScoredWell
     DEF LayersConsistent
<1>2. QED
  BY <1>1, GraphTypeOK, PTL

==============================================================================
