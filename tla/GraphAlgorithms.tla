--------------------------- MODULE GraphAlgorithms ---------------------------
(***************************************************************************)
(* The algorithms of graph/ on the edges of a report, and the graph they   *)
(* come from (DependencyGraph of model/module.go).                         *)
(*                                                                         *)
(* A graph is its set of edges <<from, to>>: AddEdge merges edges with the *)
(* same ends.  Nodes are numbers, ordered as sort.Strings orders names.  A *)
(* queue is worked off a round at a time, one round being what was queued  *)
(* in the round before.                                                    *)
(***************************************************************************)
EXTENDS Integers, Sequences, FiniteSets, FiniteSetsExt, Functions

Nodes(E) == {e[1] : e \in E} \cup {e[2] : e \in E}
Reversed(E) == {<<e[2], e[1]>> : e \in E}
Undirected(E) == E \cup Reversed(E)
Targets(E, S) == {e[2] : e \in {x \in E : x[1] \in S}}

FanIn(E, n) == Cardinality({e \in E : e[2] = n})
FanOut(E, n) == Cardinality({e \in E : e[1] = n})

(* Mutation: the nodes to skip are passed through.                           *)
BFSThrough(seed, E, valid, skip) ==
    LET visited[k \in Nat] ==
          IF k = 0 THEN seed
          ELSE LET v == visited[k - 1] IN v \cup (Targets(E, v) \cap valid)
    IN  visited[Cardinality(Nodes(E))]

BFS(seed, E, valid, skip) ==
    LET visited[k \in Nat] ==
          IF k = 0 THEN seed
          ELSE LET v == visited[k - 1] IN v \cup (Targets(E, v) \cap (valid \ skip))
    IN  visited[Cardinality(Nodes(E))]

(* The chains of edges that meet no node twice.                              *)
Chains(E) ==
    LET chains[k \in Nat] ==
          IF k = 0 THEN {<<n>> : n \in Nodes(E)}
          ELSE UNION {{Append(c, n) : n \in Targets(E, {c[Len(c)]}) \ Range(c)} :
                      c \in chains[k - 1]}
    IN  UNION {chains[k] : k \in 0..Cardinality(Nodes(E))}

(* The elementary cycles (gonum, and self-loops apart), each from its least  *)
(* node.                                                                     *)
DetectCycles(E) ==
    {c \in Chains(E) : <<c[Len(c)], c[1]>> \in E /\ \A i \in DOMAIN c : c[1] <= c[i]}

CycleNodes(E) == UNION {Range(c) : c \in DetectCycles(E)}

------------------------------------------------------------------------------

DepthsBefore(E) ==
    LET cyclic == CycleNodes(E)
    IN  [depth |-> [n \in Nodes(E) |-> IF n \in cyclic THEN -1 ELSE 0],
         inDeg |-> [n \in Nodes(E) |-> FanIn(E, n)],
         queue |-> {n \in Nodes(E) \ cyclic : FanIn(E, n) = 0}]

(* Mutation: a node is queued when it is met first.                          *)
FirstMet(w, left, n) == w.depth[n] = 0
Ready(w, left, n) == left[n] = 0

(* A node is queued when the last edge into it has been followed; edges out  *)
(* of a cycle are not followed.                                              *)
DepthRound(E, w) ==
    LET used == {e \in E : e[1] \in w.queue /\ w.depth[e[2]] # -1}
        Used(n) == {e \in used : e[2] = n}
        left == [n \in Nodes(E) |-> w.inDeg[n] - Cardinality(Used(n))]
    IN  [depth |-> [n \in Nodes(E) |-> Max({w.depth[n]} \cup {w.depth[e[1]] + 1 : e \in Used(n)})],
         inDeg |-> left,
         queue |-> {n \in Targets(used, w.queue) : Ready(w, left, n)}]

ImportDepth(E) ==
    LET round[k \in Nat] == IF k = 0 THEN DepthsBefore(E) ELSE DepthRound(E, round[k - 1])
    IN  round[Cardinality(Nodes(E))].depth

------------------------------------------------------------------------------
(* Brandes' algorithm on the undirected graph.  Scores are multiplied by     *)
(* Unit, a multiple of the numbers of shortest paths of small graphs, and    *)
(* not normalised.                                                           *)

Unit == 12

(* Distances and numbers of shortest paths from src.                         *)
ShortestFrom(E, src) ==
    LET adj == Undirected(E)
        found[k \in Nat] ==
          IF k = 0 THEN [dist |-> [n \in {src} |-> 0], sigma |-> [n \in {src} |-> 1]]
          ELSE LET w == found[k - 1]
                   last == {n \in DOMAIN w.dist : w.dist[n] = k - 1}
                   next == Targets(adj, last) \ DOMAIN w.dist
                   Into(n) == SumFunctionOnSet(w.sigma, {v \in last : <<v, n>> \in adj})
               IN  [dist |-> [n \in DOMAIN w.dist \cup next |->
                                IF n \in next THEN k ELSE w.dist[n]],
                    sigma |-> [n \in DOMAIN w.dist \cup next |->
                                IF n \in next THEN Into(n) ELSE w.sigma[n]]]
    IN  found[Cardinality(Nodes(E))]

(* What src adds to the score of each node, from the farthest inwards.       *)
BrandesBFS(E, src) ==
    LET w == ShortestFrom(E, src)
        After(v) == {n \in DOMAIN w.dist : <<v, n>> \in Undirected(E)
                                             /\ w.dist[n] = w.dist[v] + 1}
        delta[v \in DOMAIN w.dist] ==
            MapThenSumSet(LAMBDA n : (w.sigma[v] * (Unit + delta[n])) \div w.sigma[n], After(v))
    IN  [v \in Nodes(E) |-> IF v \in DOMAIN w.dist /\ v # src THEN delta[v] ELSE 0]

(* The sources that worker w of so many handles, by their places in the list. *)
(* Mutation: the last sources are left over.                                 *)
ChunkFloor(sources, workers, w) ==
    LET size == sources \div workers
    IN  {i \in 1..sources : w * size < i /\ i <= (w + 1) * size}

Chunk(sources, workers, w) ==
    LET size == (sources + workers - 1) \div workers
    IN  {i \in 1..sources : w * size < i /\ i <= (w + 1) * size}

BetweennessCentrality(E, list, procs) ==
    LET workers == Max({1, Min({procs, Len(list)})})
        score == [i \in DOMAIN list |-> BrandesBFS(E, list[i])]
        Partial(w, n) == MapThenSumSet(LAMBDA i : score[i][n],
                                       Chunk(Len(list), workers, w))
    IN  [n \in Nodes(E) |-> MapThenSumSet(LAMBDA w : Partial(w, n), 0..workers - 1)]

==============================================================================
