---------------------------- MODULE GraphReports ----------------------------
(***************************************************************************)
(* What the reports say of a graph that grows edge by edge, each algorithm *)
(* against a definition of its result over walks.                          *)
(*                                                                         *)
(* The same edges are read as imports between components, where nothing    *)
(* imports itself, and as edges between symbols, of which some are calls   *)
(* and some lead outside the graph.  All graphs of up to MaxEdges edges    *)
(* are met, so a query that looks at no other property of its nodes is     *)
(* asked about node 1 only.                                                *)
(***************************************************************************)
EXTENDS ChangeImpact, SymbolPrimitives, LayerRules

CONSTANTS Size,       \* nodes are 1..Size
          MaxEdges,   \* bound on the edges of a graph
          Exported,   \* exported symbols
          Layouts,    \* where symbols are: [symbol |-> a record each, comps |-> a sequence]
          Services,   \* the churn and nesting of each component
          DesiredStates,  \* rules for the architecture
          Titles          \* ways to name the nodes, a sequence of names each

Names == 1..Size

ASSUME GraphReportsAssumption ==
    /\ Size \in Nat \ {0} /\ MaxEdges \in Nat
    /\ Exported \subseteq Names
    /\ \A l \in Layouts : DOMAIN l.symbol = Names
    /\ DOMAIN Services = Names
    /\ \A n \in Names : Services[n].churn \in Nat /\ Services[n].nesting \in Nat
    /\ \A ds \in DesiredStates : IsFiniteSet(ds.boundaries) /\ IsFiniteSet(ds.constraints)
    /\ \A title \in Titles : DOMAIN title = Names /\ IsInjective(title)

VARIABLE edges

Init == edges = {}

Depend(from, to) ==
    /\ Cardinality(edges) < MaxEdges
    /\ edges' = edges \cup {<<from, to>>}

NewDependencyGraph == edges' = {}

Next == (\E from, to \in Names : Depend(from, to)) \/ NewDependencyGraph

Spec == Init /\ [][Next]_edges

Imports == {e \in edges : e[1] # e[2]}

(* The last name is not a symbol of the graph, and what leads back to an     *)
(* earlier symbol is no call.                                                *)
Symbols == 1..(Size - 1)
SymbolEdges == {e \in edges : e[1] \in Symbols}
Calls == {e \in SymbolEdges : e[1] <= e[2]}

------------------------------------------------------------------------------

(* The ends of the walks of so many edges, and the pairs some walk links.    *)
Walks(E, length) ==
    LET walk[k \in Nat] ==
          IF k = 0 THEN {<<n, n>> : n \in Names}
          ELSE {<<pair[1][1], pair[2][2]>> :
                  pair \in {p \in walk[k - 1] \X E : p[1][2] = p[2][1]}}
    IN  walk[length]

Linked(E) == UNION {Walks(E, k) : k \in 1..Size}

Steps(E, from, to) == Min({k \in 0..Size : <<from, to>> \in Walks(E, k)})

OnCycle(E) == LET linked == Linked(E) IN {n \in Names : <<n, n>> \in linked}

(* Nodes no cycle leads to.                                                  *)
Settled(E) ==
    LET linked == Linked(E)
        cyclic == OnCycle(E)
    IN  {n \in Names : \A c \in cyclic : <<c, n>> \notin linked}

(* ImportDepth is -1 exactly on cycles, and for a node no cycle leads to the *)
(* length of the longest chain of imports that ends there, in whatever order *)
(* the queue meets its importers.  (Below a cycle it can be too small.)      *)
DepthIsLongestPath ==
    LET depth == ImportDepth(Imports)
        linked == Linked(Imports)
        settled == Settled(Imports)
    IN  \A n \in Nodes(Imports) :
          /\ depth[n] = -1 <=> <<n, n>> \in linked
          /\ n \in settled =>
               depth[n] = Max({k \in 0..Size : \E w \in Walks(Imports, k) : w[2] = n})

(* The betweenness of a node counts, over all ordered pairs of other nodes,  *)
(* the share of their shortest paths that pass through it, and however the   *)
(* sources are divided among the workers.                                    *)
BetweennessCountsPaths ==
    LET chains == Chains(Undirected(edges))
        Between(s, t) == {c \in chains : c[1] = s /\ c[Len(c)] = t}
        shortest == [p \in Nodes(edges) \X Nodes(edges) |->
                       LET paths == Between(p[1], p[2])
                       IN  {c \in paths : \A d \in paths : Len(c) <= Len(d)}]
        Share(p, n) == (Unit * Cardinality({c \in shortest[p] : n \in Range(c)}))
                          \div Max({1, Cardinality(shortest[p])})
        Pairs(n) == {p \in (Nodes(edges) \ {n}) \X (Nodes(edges) \ {n}) : p[1] # p[2]}
        shares == [n \in Nodes(edges) |-> MapThenSumSet(LAMBDA p : Share(p, n), Pairs(n))]
        list == SetToSeq(Nodes(edges))
    IN  \A procs \in 1..(Size + 1) : BetweennessCentrality(edges, list, procs) = shares

(* The order is of all nodes; what the start is linked to comes last, the    *)
(* farther from it the earlier; the rest is not grouped by its links.        *)
PartitionOrders ==
    \A order \in Partition(edges) :
      LET last == order[Len(order)]
          near == {n \in Nodes(edges) : n = last \/ <<n, last>> \in Linked(Undirected(edges))}
          rest == SelectSeq(order, LAMBDA n : n \notin near)
          At(n) == CHOOSE i \in DOMAIN order : order[i] = n
      IN  /\ Range(order) = Nodes(edges) /\ Len(order) = Cardinality(Nodes(edges))
          /\ edges # {} =>
               /\ rest = SubSeq(order, 1, Len(rest))
               /\ \A i, j \in DOMAIN rest : i < j => rest[i] > rest[j]
               /\ \A m, n \in near : At(m) < At(n) =>
                    Steps(Undirected(edges), m, last) >= Steps(Undirected(edges), n, last)

(* Deleting a component ends the cycles it lies on and makes none.  Merging  *)
(* it into another puts the other on a cycle exactly if some third component *)
(* is imported, however far, by one of the two and imports one of them.      *)
WhatIfCycles ==
    LET services == [i \in Names |-> i]
        deleted == ComputeWhatIf(services, Imports, <<<<1, NoTarget>>>>)
        merged == ComputeWhatIf(services, Imports, <<<<1, 2>>>>)
        after == (Imports \ merged.RemovedEdges) \cup merged.AddedEdges
        Through(n) == \E a, b \in {1, 2} : {<<a, n>>, <<n, b>>} \subseteq Linked(Imports)
    IN  /\ deleted.NewCycles = {}
        /\ deleted.RemovedCycles = {c \in CycleSet(Imports) : 1 \in c}
        /\ 2 \in OnCycle(after) <=> \E n \in Names \ {1, 2} : Through(n)
        /\ merged.ComponentsAfter = Size - 1

(* The dependents of a component are those that some chain of imports links  *)
(* to it, itself never among them though it lie on a cycle; the blast radius *)
(* of symbols finds the same callers, each once; and a set of files affects  *)
(* what depends on any of their components.                                  *)
ImpactReaches ==
    LET Dependents(E, n) == {d \in Names \ {n} : <<d, n>> \in Linked(E)}
        impact == ComputeImpact(Imports, Names, 1)
        blast == ComputeSymbolBlastRadius(edges, 1)
        both == ComputeBlastRadius(Imports, Names, {0, 1, 2}, [f \in {0, 1, 2} |-> f])
    IN  /\ impact.TransDeps = Dependents(Imports, 1)
        /\ (blast.DirectCallers \cup blast.TransCallers) \ {1} = Dependents(edges, 1)
        /\ 1 \notin blast.TransCallers
        /\ both.AffectedComponents
             = ({1, 2} \cap Names) \cup Dependents(Imports, 1) \cup Dependents(Imports, 2)

(* A comparison of two reports gives the later from the earlier.  Though no  *)
(* component was changed since, the churn of one seems to differ if its      *)
(* importers made it a hot spot, or made it none any more.                   *)
ReportsCompared ==
    LET Report(E) == [edges |-> E, services |-> Services]
        Hub(E, n) == FanIn(E, n) >= (IF Services[n].nesting >= HotNesting THEN HotFanIn ELSE HubFanIn)
        turned == {<<e[2], e[1]>> : e \in Imports}
    IN  \A E \in {{}, turned} :
          LET diff == DiffReports(Report(E), Report(Imports))
          IN  /\ Imports = (E \ diff.removedEdges) \cup diff.addedEdges
              /\ diff.addedEdges \cap E = {} /\ diff.removedEdges \cap Imports = {}
              /\ diff.churnDeltas
                   = {n \in Names : /\ Services[n].churn \in 1..(HotChurn - 1)
                                    /\ Hub(E, n) # Hub(Imports, n)}

(* What a change of a component reaches, and what two reports say of the     *)
(* changes between them.                                                     *)
ChangesTracked == ImpactReaches /\ ReportsCompared

(* Judged by the depths ImportDepth gives, as all presets do, every import   *)
(* below the roots is a violation, save where cycles are: an import always   *)
(* leads to a greater depth.                                                 *)
InnerEdgesFlagged ==
    LET flagged == ComputeImportDirection(Imports, ImportDepth(Imports))
        settled == Settled(Imports)
    IN  \A e \in Imports : e[2] \in settled =>
          (e \in flagged <=> FanIn(Imports, e[1]) > 0)

(* The layers that are inferred are in the order of the imports, the other   *)
(* way round: read from the top, no import is flagged but where cycles are,  *)
(* and so, read as they are, every import is, and the drift of a project     *)
(* without a desired state is total.                                         *)
InferredLayersReversed ==
    LET layers == InferLayerOrder(Imports, Names)
        calm == Settled(Imports)
        settled == {e \in Imports : e[2] \in calm}
        drift == GetDrift(Imports, Services, NoState)
    IN  /\ Range(layers) = Names
        /\ CheckLayerPurity(settled, Reverse(layers)) = {}
        /\ settled \subseteq drift.layered
        /\ settled = Imports /\ Imports # {} => drift.score = 0

(* GetDrift counts its checks apart from making them: the score is full      *)
(* exactly when nothing is wrong, whatever rules there are, also ones that   *)
(* name no component of the report.                                          *)
DriftScored ==
    \A ds \in DesiredStates :
      LET drift == GetDrift(Imports, Services, ds)
      IN  drift.clean <=> drift.score = 100

(* A diagram of the architecture is what it is held to in the end only if it *)
(* labels components with their names alone, and then but for components     *)
(* without imports, for libraries, and for those whose ids are another's;    *)
(* with packages in its labels, as reports have them, nothing fits.  Of ids  *)
(* alone those fit whose names have no dash or dot.                          *)
DiagramsValidate ==
    \A title \in Titles :
      LET E == {<<title[e[1]], title[e[2]]>> : e \in Imports}
          outside == {<<title[e[1]], title[e[2]]>> : e \in {f \in Imports : f[2] = Size}}
          actual == [services |-> Range(title), edges |-> E]
          Drift(lines) == ValidateArchitecture(ParseDesiredMermaid(lines), actual)
          Key(S) == {NormalizeComponentName(n) : n \in S}
          Keys(S) == {<<NormalizeComponentName(e[1]), NormalizeComponentName(e[2])>> : e \in S}
          Meant(name) == title[Max({n \in Names : MermaidID(title[n]) = MermaidID(name)})]
          inner == {<<Meant(e[1]), Meant(e[2])>> : e \in E \ outside}
          byName == Drift(RenderMermaid(title, E, outside, <<>>))
          byLabel == Drift(RenderMermaid(title, E, {}, <<"pkg">>))
          byId == Drift(SelectSeq(RenderMermaid(title, E, {}, <<>>), LAMBDA l : l.kind = "edge"))
          Plain(name) == Range(name) \cap {"-", "."} = {}
      IN  /\ byName.missingComponents = {}
          /\ byName.extraComponents = Key(Range(title)) \ Key(Nodes(inner))
          /\ byName.extraEdges = Keys(E) \ Keys(inner) /\ byName.missingEdges = Keys(inner) \ Keys(E)
          /\ byLabel.extraEdges = Keys(E) /\ byLabel.extraComponents = Key(Range(title))
          /\ \A e \in E : Plain(e[1]) /\ Plain(e[2]) => Keys({e}) \cap byId.extraEdges = {}
          /\ \A name \in Nodes(E) : ~Plain(name) => Key({name}) \subseteq byId.extraComponents

(* The edges of full weight, those between components by the component list, *)
(* are all seams between components of the mesh, which places symbols by     *)
(* another rule; and what BoundariesMinWeight keeps are these.               *)
HeavyEdgesAreSeams ==
    \A l \in Layouts :
      LET mesh == BuildMesh(edges, l.symbol, l.comps)
          heavy == {e \in edges : mesh[e] = WeightInternalCross}
          component == Aggregate(mesh, l.symbol, l.comps)
      IN  /\ BoundariesMinWeight(mesh, l.symbol, l.comps, WeightInternalCross) = heavy
          /\ SumFunctionOnSet(component, DOMAIN component)
               = SumFunctionOnSet(mesh, BoundariesMinWeight(mesh, l.symbol, l.comps, 0))

(* Depths are those of the longest chains of imports, and import direction,  *)
(* inferred layers and the score of the drift, which all stand on them, say  *)
(* of the imports what depths say.                                           *)
LayersConsistent ==
    DepthIsLongestPath /\ InnerEdgesFlagged /\ InferredLayersReversed /\ DriftScored

(* What other views say of the graph: the share a component has in paths, its *)
(* place in an order, the cycles a change would leave, its diagram, and the  *)
(* seams of the mesh.                                                        *)
ViewsAgree ==
    /\ BetweennessCountsPaths /\ PartitionOrders /\ WhatIfCycles
    /\ DiagramsValidate /\ HeavyEdgesAreSeams

------------------------------------------------------------------------------

(* A scenario gives every symbol at its distance; cut after topN it is still *)
(* connected: each symbol listed is called by one listed a step before.      *)
ScenarioConnected ==
    \A maxDepth \in 1..3, topN \in 0..2 :
      \A r \in TraceScenario(edges, 1, maxDepth, topN) :
        /\ r.Upstream = [n \in {m \in Names \ {1} : \E k \in 1..maxDepth :
                                   <<m, 1>> \in Walks(edges, k)} |-> Steps(edges, n, 1)]
        /\ \A n \in DOMAIN r.Downstream :
             /\ n # 1
             /\ r.Downstream[n] = Steps(edges, 1, n)
             /\ \E m \in {1} \cup DOMAIN r.Downstream :
                  <<m, n>> \in r.Edges /\ Steps(edges, 1, m) = r.Downstream[n] - 1
        /\ topN = 0 => DOMAIN r.Downstream
                         = {n \in Names \ {1} : \E k \in 1..maxDepth :
                              <<1, n>> \in Walks(edges, k)}

(* Where call trees meet: the symbols that at least two of the given ones    *)
(* lead to, not counting itself.  What such a symbol calls is shared too,    *)
(* the given symbols apart, and the one kept by topN = 1 is shared by most.  *)
ConvergenceShared ==
    LET given == <<1, 2, 3>>
        linked == Linked(edges)
        Leading(n) == {s \in Range(given) \ {n} : <<s, n>> \in linked}
        all == FindConvergence(edges, given, 0).Nodes
    IN  /\ all = {n \in Names : Cardinality(Leading(n)) >= 2}
        /\ Targets(edges, all) \subseteq all \cup Range(given)
        /\ \A top \in FindConvergence(edges, given, 1).Nodes, n \in Names :
             Cardinality(Leading(n)) <= Cardinality(Leading(top))

(* What symbols call, followed from one symbol and from several.             *)
FlowsConnected == ScenarioConnected /\ ConvergenceShared

(* Taking a symbol out leaves more groups than before exactly when it parts  *)
(* two others, and fewer exactly when it stood alone.                        *)
IsolateParts ==
    \A N \in {S \in {Names, Symbols} : 1 \in S} :
      LET isolated == Isolate(edges, N, 1)
          before == Linked(Undirected(Inside(edges, N)))
          after == Linked(Undirected(Inside(edges, N \ {1})))
      IN  /\ isolated.ComponentsAfter > isolated.ComponentsBefore
               <=> \E x, y \in N \ {1} : x # y /\ <<x, y>> \in before \ after
          /\ isolated.ComponentsAfter < isolated.ComponentsBefore
               <=> \A n \in N \ {1} : <<1, n>> \notin before

(* Without entry points given, the islands are the symbols that no exported, *)
(* uncalled caller leads to; an exported symbol that calls is on an island   *)
(* only if a caller of its own is.                                           *)
IslandsUnreached ==
    LET r == FindIslands(SymbolEdges, Symbols, {}, Calls, Exported)
    IN  /\ r.Unreachable = {n \in Symbols \ r.EntryPoints :
                              \A s \in r.EntryPoints : <<s, n>> \notin Linked(SymbolEdges)}
        /\ \A n \in r.Unreachable \cap Exported :
             FanOut(Calls, n) > 0 => \E c \in r.Unreachable : <<c, n>> \in Calls

(* What falls apart without a symbol, and what is apart already.             *)
PartsApart == IsolateParts /\ IslandsUnreached

(* The primitives follow calls as far as they lead, and no farther.          *)
CallsFollowed == FlowsConnected /\ PartsApart

(* Neighborhood, Distance and NeighborhoodWeighted agree on who is near, and *)
(* a neighbour has the weight of its heaviest edge to a symbol nearer than   *)
(* the last hop.                                                             *)
MeshConsistent ==
    \A l \in Layouts, hops \in 1..3 :
      LET mesh == BuildMesh(edges, l.symbol, l.comps)
          near == Neighborhood(mesh, 1, hops)
          inner == Neighborhood(mesh, 1, hops - 1)
          Beside(n) == {e \in edges : {e[1], e[2]} \in {{n, m} : m \in inner}}
      IN  /\ near = {1} \cup {n \in Names : Distance(mesh, 1, n) \in 0..hops}
          /\ NeighborhoodWeighted(mesh, 1, hops)
               = [n \in near \ {1} |-> Max({mesh[e] : e \in Beside(n)})]


==============================================================================
