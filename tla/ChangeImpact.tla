---------------------------- MODULE ChangeImpact ----------------------------
(***************************************************************************)
(* What a change touches: the dependents of a component (impact/), of a    *)
(* set of files and of a symbol, a graph that is changed by hypothesis     *)
(* (what_if.go), and the direction of imports (constraint/).               *)
(*                                                                         *)
(* edges are pairs <<importer, imported>>, services the components of the  *)
(* report.  Percentages, risk levels and summaries follow from the sets    *)
(* and are left out.                                                       *)
(***************************************************************************)
EXTENDS GraphAlgorithms, SequencesExt

ComputeImpact(E, services, component) ==
    LET direct == Targets(Reversed(E), {component}) \cap services
    IN  [DirectDeps |-> direct,
         TransDeps |-> BFS(direct, Reversed(E), services, {component})]

(* dirOf maps a file to the component it lies in; a file that lies in none   *)
(* counts for nothing.                                                       *)
ComputeBlastRadius(E, services, files, dirOf) ==
    LET changed == {dirOf[f] : f \in files} \cap services
        Dependents(c) == ComputeImpact(E, services, c).TransDeps
    IN  [ChangedComponents |-> changed,
         AffectedComponents |-> changed \cup UNION {Dependents(c) : c \in changed}]

(* The callers are listed as they are first met, the symbol never as a       *)
(* caller of its callers.                                                    *)
ComputeSymbolBlastRadius(E, symbol) ==
    LET direct == Targets(Reversed(E), {symbol})
        all == BFS(direct, Reversed(E), Nodes(E), {symbol})
    IN  [DirectCallers |-> direct, TransCallers |-> all \ direct]

------------------------------------------------------------------------------
(* A move <<from, to>> renames a component, or deletes it when there is no   *)
(* to.                                                                       *)

NoTarget == 0

DeleteEdges(E, name) == {e \in E : name \notin {e[1], e[2]}}

RenameEdges(E, from, to) ==
    LET New(n) == IF n = from THEN to ELSE n
    IN  {<<New(e[1]), New(e[2])>> : e \in E}

(* Of several services with one name the first stays; the sum of all so far  *)
(* overwrites whatever was kept last.                                        *)
MergeServices(services, name) ==
    FoldLeft(LAMBDA kept, s : IF s = name /\ name \in Range(kept)
                                THEN [kept EXCEPT ![Len(kept)] = name]
                                ELSE Append(kept, s),
             <<>>, services)

(* Only the first service of that name is renamed.                           *)
RenameService(services, from, to) ==
    IF from \notin Range(services) THEN services
    ELSE LET first == Min({i \in DOMAIN services : services[i] = from})
         IN  MergeServices([services EXCEPT ![first] = to], to)

ApplyMove(w, move) ==
    IF move[2] = NoTarget
      THEN [services |-> SelectSeq(w.services, LAMBDA s : s # move[1]),
            edges |-> DeleteEdges(w.edges, move[1])]
      ELSE [services |-> RenameService(w.services, move[1], move[2]),
            edges |-> RenameEdges(w.edges, move[1], move[2])]

RemoveSelfLoops(E) == {e \in E : e[1] # e[2]}

(* Cycles are compared by the nodes they meet.                               *)
CycleSet(E) == {Range(c) : c \in DetectCycles(E)}

ComputeWhatIf(services, E, moves) ==
    LET w == FoldLeft(ApplyMove, [services |-> services, edges |-> E], moves)
        after == RemoveSelfLoops(w.edges)
    IN  [ComponentsAfter |-> Len(w.services),
         RemovedEdges |-> E \ after, AddedEdges |-> after \ E,
         NewCycles |-> CycleSet(after) \ CycleSet(E),
         RemovedCycles |-> CycleSet(E) \ CycleSet(after),
         FanInDelta |-> {n \in Nodes(E) \cup Nodes(after) : FanIn(E, n) # FanIn(after, n)}]

------------------------------------------------------------------------------

ComputeImportDirection(E, depths) ==
    {e \in E : depths[e[1]] > 0 /\ depths[e[1]] < depths[e[2]]}

------------------------------------------------------------------------------
(* Scores of components (impact/risk.go, leverage.go, consolidation.go) and  *)
(* the order that groups the coupled ones (graph/partition.go).              *)
(*                                                                           *)
(* services gives the churn, the lines, the number of symbols, and the       *)
(* coverage in percent of each component, Unknown if there is none; uses     *)
(* gives the weight, the call sites and the lines of each import.            *)

CONSTANT EnrichmentLOC   \* more lines used than these is more than an import

Unknown == -1

BlastRadius(E, services, n) ==
    (Cardinality(ComputeImpact(E, services, n).TransDeps) * 100) \div Cardinality(services)

(* Mutation: what is not covered by any data counts as covered.              *)
KnownGap(pct) == IF pct = Unknown THEN 0 ELSE 100 - pct
CoverageGap(pct) == IF pct = Unknown THEN 100 ELSE 100 - pct

(* Scores in percent, rounded down; the levels are told by 25, 50 and 75.    *)
ComputeRiskScores(E, services) ==
    LET names == DOMAIN services
        blast == [n \in names |-> BlastRadius(E, names, n)]
        maxChurn == Max({1} \cup {services[n].churn : n \in names})
        maxBlast == Max({1} \cup {blast[n] : n \in names})
        active == {n \in names : services[n].churn # 0 \/ FanIn(E, n) # 0}
        Raw(n) == 40 * services[n].churn * maxBlast * 100
                    + 40 * blast[n] * maxChurn * 100
                    + 20 * CoverageGap(services[n].coverage) * maxChurn * maxBlast
    IN  [n \in active |-> Min({100, Raw(n) \div (100 * maxChurn * maxBlast)})]

RiskLevel(score) ==
    IF score >= 75 THEN "critical" ELSE IF score >= 50 THEN "high"
    ELSE IF score >= 25 THEN "medium" ELSE "low"

------------------------------------------------------------------------------

Enriches(use) ==
    \/ use.callSites > 0 /\ use.callSites >= 2 * Max({1, use.weight})
    \/ use.locSurface > EnrichmentLOC
    \/ use.weight > 1

ComputeLeverage(E, services, uses, target) ==
    LET consumers == {e \in E : e[2] = target}
        enrichment == {e \in consumers : Enriches(uses[e])}
        binary == Cardinality(consumers \ enrichment)
    IN  [Enrichment |-> {e[1] : e \in enrichment},
         Binary |-> {e[1] : e \in consumers \ enrichment},
         Score |-> Min({100, ((3 * Cardinality(enrichment) + binary) * 100)
                               \div (3 * Cardinality(services))})]

------------------------------------------------------------------------------

(* Similar enough, in tenths: 7 is what ComputeConsolidation asks for.       *)
Similar(a, b, threshold) ==
    Cardinality(a \cup b) > 0
      /\ 10 * Cardinality(a \cap b) >= threshold * Cardinality(a \cup b)

Consumers(E, n) == {e[1] : e \in {x \in E : x[2] = n}}

(* The groups of components that chains of similar pairs link.               *)
ConnectedComponents(pairs) ==
    {BFS({n}, Undirected(pairs), Nodes(pairs), {}) : n \in Nodes(pairs)}

DetectCohesionClusters(E, threshold) ==
    LET imported == {e[2] : e \in E}
        highSim == {p \in imported \X imported :
                      p[1] < p[2] /\ Similar(Consumers(E, p[1]), Consumers(E, p[2]), threshold)}
    IN  ConnectedComponents(highSim)

(* Independence is a fraction, here <<numerator, denominator>>.              *)
ComputeConsolidation(E, services) ==
    [Independence |-> [n \in DOMAIN services |->
                         <<FanIn(E, n) * services[n].symbols, Max({1, services[n].loc})>>],
     Clusters |-> DetectCohesionClusters(E, 7)]

------------------------------------------------------------------------------
(* Reverse Cuthill-McKee: one search from a node of least degree, the least  *)
(* one, and then what it did not reach, all in reverse.  Neighbours of one   *)
(* degree come in any order, so there are several results.                   *)

Degree(E, n) == Cardinality(Targets(Undirected(E), {n}))

Peripheral(E) ==
    CHOOSE n \in Nodes(E) : \A m \in Nodes(E) :
      Degree(E, n) < Degree(E, m) \/ (Degree(E, n) = Degree(E, m) /\ n <= m)

ByDegree(E, S) ==
    {s \in SetToSeqs(S) : \A i \in 1..Len(s) - 1 : Degree(E, s[i]) <= Degree(E, s[i + 1])}

(* The nodes taken from the queue so far, and the queue.                     *)
SearchFrom(E, start) ==
    LET taken[k \in Nat] ==
          IF k = 0 THEN {[order |-> <<>>, queue |-> <<start>>]}
          ELSE UNION {IF w.queue = <<>> THEN {w}
                      ELSE LET cur == Head(w.queue)
                               seen == Range(w.order) \cup Range(w.queue)
                           IN  {[order |-> Append(w.order, cur), queue |-> Tail(w.queue) \o next] :
                                  next \in ByDegree(E, Targets(Undirected(E), {cur}) \ seen)} :
                      w \in taken[k - 1]}
    IN  {w.order : w \in taken[Cardinality(Nodes(E))]}

Partition(E) ==
    IF E = {} THEN {<<>>}
    ELSE {Reverse(order \o SetToSortSeq(Nodes(E) \ Range(order), <)) :
            order \in SearchFrom(E, Peripheral(E))}

==============================================================================
