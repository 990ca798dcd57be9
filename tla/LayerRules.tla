----------------------------- MODULE LayerRules -----------------------------
(***************************************************************************)
(* The rules an architecture is held to: layers (graph/layer.go, and how   *)
(* the engine infers them), boundaries and budgets (constraint/), and the  *)
(* drift from all three (GetDrift of engine/protocol.go).                  *)
(*                                                                         *)
(* A desired state is a record of layers, a sequence of components from    *)
(* the bottom; boundaries, each with the components its two patterns       *)
(* match; and constraints, each with a limit per metric, 0 for none.       *)
(* services gives what the report knows of each component.                 *)
(***************************************************************************)
EXTENDS GraphAlgorithms, SequencesExt

Before(depth, a, b) == depth[a] < depth[b] \/ (depth[a] = depth[b] /\ a < b)

(* A component without edges has no depth, which reads as 0.                 *)
LayerDepths(E, services) ==
    LET known == ImportDepth(E)
    IN  [n \in services |-> IF n \in DOMAIN known THEN known[n] ELSE 0]

Place(depth, n) == Cardinality({m \in DOMAIN depth : Before(depth, m, n)}) + 1

InferLayerOrder(E, services) ==
    LET depth == LayerDepths(E, services)
    IN  [i \in 1..Cardinality(services) |-> CHOOSE n \in services : Place(depth, n) = i]

(* A component that is listed twice counts at its last place.                *)
CheckLayerPurity(E, layers) ==
    LET Rank(n) == Max({i \in DOMAIN layers : layers[i] = n})
    IN  {e \in E : {e[1], e[2]} \subseteq Range(layers) /\ Rank(e[1]) < Rank(e[2])}

CheckBoundaryRules(E, boundaries) ==
    {p \in E \X boundaries : p[1][1] \in p[2].from /\ p[1][2] \in p[2].to /\ ~p[2].allow}

Metrics == {"fanIn", "churn", "nesting"}

ComputeBudgetViolations(E, services, constraints) ==
    LET Actual(n, m) == IF m = "fanIn" THEN FanIn(E, n) ELSE services[n][m]
        Exceeded(c, m) == /\ c.component \in DOMAIN services
                          /\ c.max[m] > 0 /\ Actual(c.component, m) > c.max[m]
    IN  {p \in constraints \X Metrics : Exceeded(p[1], p[2])}

(* Mutation: limits of the fan-in alone are counted.                         *)
CountFanInChecks(services, constraints) ==
    Cardinality({c \in constraints : c.component \in DOMAIN services /\ c.max.fanIn > 0})

CountBudgetChecks(services, constraints) ==
    Cardinality({p \in constraints \X Metrics :
                    p[1].component \in DOMAIN services /\ p[1].max[p[2]] > 0})

NoState == [none |-> TRUE]

(* The drift from a state.  The score is in percent, rounded down.           *)
DriftFrom(E, services, ds) ==
    LET layered == CheckLayerPurity(E, ds.layers)
        bounded == CheckBoundaryRules(E, ds.boundaries)
        budgets == ComputeBudgetViolations(E, services, ds.constraints)
        violations == Cardinality(layered) + Cardinality(bounded) + Cardinality(budgets)
        checks == Cardinality(E) + Cardinality(ds.boundaries)
                    + CountBudgetChecks(services, ds.constraints)
    IN  [layered |-> layered, bounded |-> bounded, budgets |-> budgets,
         score |-> IF checks = 0 THEN 100
                   ELSE Max({0, (100 * (checks - violations)) \div checks}),
         clean |-> violations = 0]

(* Without a desired state the layers are inferred; one without layers is    *)
(* taken as it is.                                                           *)
GetDrift(E, services, desired) ==
    DriftFrom(E, services,
              IF desired # NoState THEN desired
              ELSE [layers |-> InferLayerOrder(E, DOMAIN services),
                    boundaries |-> {}, constraints |-> {}])

------------------------------------------------------------------------------
(* Two reports are compared by what they show (history/diff.go): of churn    *)
(* only that of hot spots.                                                   *)

CONSTANTS HotFanIn, HotChurn, HotNesting,   \* what makes a hot spot: 3, 5, 4
          HubFanIn                          \* fan-in that makes one alone, 5

ASSUME LayerRulesAssumption ==
    {HotFanIn, HotChurn, HotNesting, HubFanIn} \subseteq Nat /\ HotFanIn <= HubFanIn

ComputeHotSpots(E, services) ==
    {n \in DOMAIN services :
        \/ services[n].churn >= HotChurn
        \/ FanIn(E, n) >= HotFanIn /\ services[n].nesting >= HotNesting
        \/ FanIn(E, n) >= HubFanIn}

DiffReports(old, new) ==
    LET Churn(r, n) == IF n \in ComputeHotSpots(r.edges, r.services) THEN r.services[n].churn ELSE 0
        all == DOMAIN old.services \cup DOMAIN new.services
    IN  [addedComponents |-> DOMAIN new.services \ DOMAIN old.services,
         removedComponents |-> DOMAIN old.services \ DOMAIN new.services,
         addedEdges |-> new.edges \ old.edges, removedEdges |-> old.edges \ new.edges,
         churnDeltas |-> {n \in all : Churn(old, n) # Churn(new, n)}]

------------------------------------------------------------------------------
(* An architecture as a diagram, and one that is desired against the one     *)
(* there is (arch/validate.go).  A name is a sequence of words and of what   *)
(* separates them.  lines are nodes, edges and what is not understood.       *)

MermaidID(name) == [i \in DOMAIN name |-> IF name[i] \in {" ", "-", ".", "/"} THEN "_" ELSE name[i]]

NormalizeComponentName(name) ==
    [i \in DOMAIN name |-> IF name[i] \in {"_", "\\"} THEN "/" ELSE name[i]]

(* services is a sequence of names, pkg what is appended to all of them.     *)
RenderMermaid(services, E, external, pkg) ==
    [i \in DOMAIN services |->
        [kind |-> "node", id |-> MermaidID(services[i]), label |-> services[i] \o pkg]]
      \o [k \in 1..Cardinality(E) |->
            LET e == SetToSeq(E)[k]
            IN  [kind |-> IF e \in external THEN "dotted" ELSE "edge",
                 from |-> MermaidID(e[1]), to |-> MermaidID(e[2])]]

(* A node is known by the label its id had last, and only if an edge needs   *)
(* it.                                                                       *)
ParseDesiredMermaid(lines) ==
    LET Read(m, line) ==
            CASE line.kind = "node" -> [m EXCEPT !.labels = (line.id :> line.label) @@ @]
              [] line.kind = "edge" ->
                   LET Name(id) == IF id \in DOMAIN m.labels THEN m.labels[id] ELSE id
                       ends == <<Name(line.from), Name(line.to)>>
                   IN  [m EXCEPT !.services = @ \cup Range(ends), !.edges = @ \cup {ends}]
              [] OTHER -> m
    IN  FoldLeft(Read, [labels |-> <<>>, services |-> {}, edges |-> {}], lines)

ValidateArchitecture(desired, actual) ==
    LET Components(m) == {NormalizeComponentName(n) : n \in m.services}
        Edges(m) == {<<NormalizeComponentName(e[1]), NormalizeComponentName(e[2])>> : e \in m.edges}
    IN  [missingComponents |-> Components(desired) \ Components(actual),
         extraComponents |-> Components(actual) \ Components(desired),
         missingEdges |-> Edges(desired) \ Edges(actual),
         extraEdges |-> Edges(actual) \ Edges(desired)]

==============================================================================
