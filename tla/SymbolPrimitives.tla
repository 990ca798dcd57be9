-------------------------- MODULE SymbolPrimitives --------------------------
(***************************************************************************)
(* The queries of primitives.go on a symbol graph: its symbols N and its   *)
(* edges E, some of which are calls.  Edges may lead to symbols outside N. *)
(***************************************************************************)
EXTENDS GraphAlgorithms, SequencesExt

(* The distance of every symbol met from start in at most maxDepth steps,    *)
(* start apart.                                                              *)
BfsDirected(E, start, maxDepth) ==
    LET visited[d \in Nat] ==
          IF d = 0 THEN [n \in {} |-> 0]
          ELSE LET v == visited[d - 1]
                   frontier == IF d = 1 THEN {start} ELSE {n \in DOMAIN v : v[n] = d - 1}
                   next == Targets(E, frontier) \ (DOMAIN v \cup {start})
               IN  [n \in DOMAIN v \cup next |-> IF n \in next THEN d ELSE v[n]]
    IN  visited[maxDepth]

BfsAll(E, start) ==
    LET visited[k \in Nat] ==
          IF k = 0 THEN {start} ELSE visited[k - 1] \cup Targets(E, visited[k - 1])
    IN  visited[Cardinality(Nodes(E))]

------------------------------------------------------------------------------

(* Sorted by depth and cut after topN (0: not at all); which of several at   *)
(* one depth are cut is left open.                                           *)

Nearest(depths, topN) ==
    IF topN = 0 \/ Cardinality(DOMAIN depths) <= topN THEN {DOMAIN depths}
    ELSE {S \in SUBSET DOMAIN depths :
            /\ Cardinality(S) = topN
            /\ \A n \in S, cut \in DOMAIN depths \ S : depths[n] <= depths[cut]}

(* The results there may be.                                                 *)
TraceScenario(E, symbol, maxDepth, topN) ==
    LET down == BfsDirected(E, symbol, maxDepth)
        up == BfsDirected(Reversed(E), symbol, maxDepth)
        all == {symbol} \cup DOMAIN down \cup DOMAIN up
    IN  {[Upstream |-> up,
          Downstream |-> Restrict(down, S),
          Entries |-> {n \in DOMAIN up : FanIn(E, n) = 0},
          Leaves |-> {n \in S : FanOut(E, n) = 0},
          Edges |-> {e \in E : {e[1], e[2]} \subseteq all}] : S \in Nearest(down, topN)}

------------------------------------------------------------------------------

(* The places in symbols whose call tree contains n.                         *)
(* Mutation: a symbol is in its own tree.                                    *)
SourcesOwn(E, symbols, n) == {i \in DOMAIN symbols : n \in BfsAll(E, symbols[i])}

Sources(E, symbols, n) ==
    {i \in DOMAIN symbols : n # symbols[i] /\ n \in BfsAll(E, symbols[i])}

(* Only the list of nodes is cut, not the edges between them.                *)
FindConvergence(E, symbols, topN) ==
    LET Converges(n) == Cardinality(Sources(E, symbols, n))
        shared == {n \in Nodes(E) : Converges(n) >= 2}
        Before(n) == {m \in shared : \/ Converges(m) > Converges(n)
                                     \/ Converges(m) = Converges(n) /\ m < n}
    IN  [Nodes |-> {n \in shared : topN = 0 \/ Cardinality(Before(n)) < topN},
         Edges |-> {e \in E : {e[1], e[2]} \subseteq shared}]

------------------------------------------------------------------------------

Inside(E, N) == {e \in E : {e[1], e[2]} \subseteq N}

(* The number of groups of symbols of N linked in either direction.          *)
(* Mutation: links are followed forwards only.                               *)
ForwardGroups(E, N) == Cardinality({BFS({n}, Inside(E, N), N, {}) : n \in N})

ComponentsWith(E, N) == Cardinality({BFS({n}, Undirected(Inside(E, N)), N, {}) : n \in N})

Isolate(E, N, symbol) ==
    [ComponentsBefore |-> ComponentsWith(E, N),
     ComponentsAfter |-> ComponentsWith({e \in E : symbol \notin {e[1], e[2]}}, N \ {symbol})]

(* Exported symbols that call and that nobody calls.                         *)
DetectEntryPoints(N, calls, exported) ==
    {n \in N \cap exported : FanIn(calls, n) = 0 /\ FanOut(calls, n) > 0}

(* Symbols no entry point leads to.  The count of reachable symbols has the  *)
(* ones outside the graph in it.                                             *)
ReachableFrom(E, entries) == UNION {BfsAll(E, n) : n \in entries}

FindIslands(E, N, entryPoints, calls, exported) ==
    LET entries == IF entryPoints = {} THEN DetectEntryPoints(N, calls, exported)
                   ELSE entryPoints
        reachable == ReachableFrom(E, entries)
    IN  [EntryPoints |-> entries, Reachable |-> Cardinality(reachable),
         Unreachable |-> N \ reachable]

------------------------------------------------------------------------------
(* The mesh of mesh.go: symbols placed in files, packages and components,    *)
(* with weights on their edges (edge_weight.go).                             *)
(*                                                                           *)
(* A package is the sequence of the parts of its path, the root package the  *)
(* empty one.  A symbol is a record of its package, its file and its         *)
(* receiver, "" when it is no method.  comps lists the component names as    *)
(* the report does, sorted: a component before those inside it.  Weights are *)
(* in hundredths.                                                            *)

WeightInternalCross == 100
WeightInternalSame == 50
WeightExternalMeaningful == 30

Root == <<"(root)">>

(* Components that name the package or a directory above it.                 *)
Holding(pkg, comps) == SelectSeq(comps, LAMBDA c : IsPrefix(c, pkg))

(* The part of a symbol's full name before the last dot: for a method its    *)
(* type, which is not a package.                                             *)
ExtractPackage(sym) ==
    IF sym.receiver = "" THEN sym.pkg
    ELSE IF sym.pkg = <<>> THEN <<sym.receiver>>
    ELSE [sym.pkg EXCEPT ![Len(sym.pkg)] = @ \o "." \o sym.receiver]

(* What edges weigh: the first component in the list that holds the symbol.  *)
(* Mutation: an unknown end counts as another component.                     *)
WeightUnguarded(src, tgt, comps) ==
    LET from == Holding(ExtractPackage(src), comps)
        to == Holding(ExtractPackage(tgt), comps)
    IN  IF from = <<>> /\ to = <<>> THEN WeightExternalMeaningful
        ELSE IF from # <<>> /\ to # <<>> /\ Head(from) = Head(to) THEN WeightInternalSame
        ELSE WeightInternalCross

ClassifyEdgeWeight(src, tgt, comps) ==
    LET from == Holding(ExtractPackage(src), comps)
        to == Holding(ExtractPackage(tgt), comps)
    IN  IF from = <<>> \/ to = <<>> THEN WeightExternalMeaningful
        ELSE IF Head(from) # Head(to) THEN WeightInternalCross
        ELSE WeightInternalSame

(* Where symbols are placed: the longest component that holds the package.   *)
MeshComponent(pkg, comps) ==
    LET holding == Holding(pkg, comps)
    IN  IF holding = <<>> THEN IF pkg = <<>> THEN Root ELSE pkg
        ELSE CHOOSE c \in Range(holding) : \A d \in Range(holding) : Len(d) <= Len(c)

(* The way up from a symbol ends at its file when its package has no name.   *)
ResolveToComponent(sym, comps) ==
    IF sym.pkg = <<>> THEN Append(sym.pkg, "/" \o sym.file)
    ELSE MeshComponent(sym.pkg, comps)

(* The weights of the edges E between symbols, E's nodes.                    *)
BuildMesh(E, symbol, comps) ==
    [e \in E |-> ClassifyEdgeWeight(symbol[e[1]], symbol[e[2]], comps)]

------------------------------------------------------------------------------

BoundariesMinWeight(mesh, symbol, comps, minWeight) ==
    {e \in DOMAIN mesh : mesh[e] >= minWeight
        /\ ResolveToComponent(symbol[e[1]], comps) # ResolveToComponent(symbol[e[2]], comps)}

(* Edges between components, with the sum of the weights they stand for.     *)
Aggregate(mesh, symbol, comps) ==
    LET Comp(n) == ResolveToComponent(symbol[n], comps)
        seams == {e \in DOMAIN mesh : Comp(e[1]) # Comp(e[2])}
    IN  [pair \in {<<Comp(e[1]), Comp(e[2])>> : e \in seams} |->
           SumFunctionOnSet(mesh, {e \in seams : <<Comp(e[1]), Comp(e[2])>> = pair})]

Neighborhood(mesh, fqn, hops) ==
    LET visited[d \in Nat] ==
          IF d = 0 THEN {fqn}
          ELSE visited[d - 1] \cup Targets(Undirected(DOMAIN mesh), visited[d - 1])
    IN  visited[hops]

(* A neighbour gets the weight of the edge it was found by, raised by every  *)
(* heavier edge met later.  Mutation: an edge met later is ignored.          *)
KeepFirst(w, seen) == w
Raise(w, seen) == Max({w} \cup seen)

NeighborhoodWeighted(mesh, fqn, hops) ==
    LET Weights(S, n) == {mesh[e] : e \in {x \in DOMAIN mesh :
                            \/ x[1] \in S /\ x[2] = n
                            \/ x[2] \in S /\ x[1] = n}}
        best[d \in Nat] ==
          IF d = 0 THEN [weight |-> [n \in {fqn} |-> 0], frontier |-> {fqn}]
          ELSE LET b == best[d - 1]
                   near == Targets(Undirected(DOMAIN mesh), b.frontier)
                   new == near \ DOMAIN b.weight
                   Known(n) == IF n \in new THEN Min(Weights(b.frontier, n)) ELSE b.weight[n]
               IN  [weight |-> [n \in DOMAIN b.weight \cup new |->
                                  Raise(Known(n), Weights(b.frontier, n))],
                    frontier |-> new]
    IN  RestrictDomain(best[hops].weight, LAMBDA n : n # fqn)

(* The number of edges between two symbols, -1 when nothing links them: the  *)
(* search ends as soon as it sees the other one.                             *)
Distance(mesh, from, to) ==
    LET adj == Undirected(DOMAIN mesh)
        search[d \in Nat] ==
          IF d = 0 THEN [visited |-> {from}, frontier |-> {from}]
          ELSE LET w == search[d - 1]
                   new == Targets(adj, w.frontier) \ w.visited
               IN  [visited |-> w.visited \cup new, frontier |-> new]
        seen == {d \in 1..Cardinality(Nodes(adj)) :
                   to \in Targets(adj, search[d - 1].frontier)}
    IN  IF from = to THEN 0 ELSE IF seen = {} THEN -1 ELSE Min(seen)

==============================================================================
