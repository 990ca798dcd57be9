---------------------------- MODULE HealthReports ----------------------------
(***************************************************************************)
(* What the clinic and the scores say of components whose imports grow     *)
(* edge by edge.  Some components are outside the project, import nothing  *)
(* and are imported by external edges.                                     *)
(***************************************************************************)
EXTENDS GraphReports, HexaRoles

CONSTANT Projects   \* [services |-> a record each, outside |-> ..., ...]

ASSUME HealthReportsAssumption ==
    \A p \in Projects :
      /\ DOMAIN p.services = Names
      /\ \A n \in Names : /\ p.services[n].churn \in Nat /\ p.services[n].symbols \in Nat
                         /\ p.services[n].coverage \in Unknown..100
      /\ DOMAIN p.classes = 1..Len(p.classes) /\ Len(p.classes) \in Nat

ImportsOf(p) == {e \in Imports : e[1] \notin p.outside}
Leaving(p) == {e \in ImportsOf(p) : e[2] \in p.outside}

RolesOf(p, E) == ComputeHexaClassification(p.services, E, E \cap Leaving(p))

(* An import changes the roles of its ends alone, though roles depend on how *)
(* many of all components import one: so it makes violations of none but     *)
(* the edges at its ends.                                                    *)
RolesLocal ==
    \A p \in Projects :
      LET E == ImportsOf(p)
          roles == RolesOf(p, E)
          wrong == ComputeHexaViolations(roles, E)
      IN  \A e \in E :
            LET before == RolesOf(p, E \ {e})
            IN  /\ \A n \in Names \ {e[1], e[2]} : roles[n] = before[n]
                /\ \A v \in wrong \ ComputeHexaViolations(before, E \ {e}) :
                     {v[1], v[2]} \cap {e[1], e[2]} # {}

(* The two detectors of wrong dependencies agree on those of the domain, and *)
(* roles given by hand reach neither; accepting a component silences its own *)
(* imports alone, and calling it an entrypoint silences its size.            *)
DetectorsAgree ==
    \A p \in Projects :
      LET E == ImportsOf(p)
          roles == RolesOf(p, E)
          wrong == {v \in ComputeHexaViolations(roles, E) : roles[v[1]] = "domain"}
          Scan(given, ok) ==
            ComputeSOLIDScan(p.services, E, Leaving(p), p.classes, p.domainOf, given, ok)
          plain == Scan([n \in {} |-> ""], {})
      IN  \A who \in SUBSET Names :
            LET accepted == who \X {"DIP"}
                entries == Scan([n \in who |-> "entrypoint"], {})
            IN  /\ Scan([n \in who |-> "app"], accepted).DIP = {v \in wrong : v[1] \notin who}
                /\ entries.DIP = plain.DIP
                /\ entries.SRP = {v \in plain.SRP : v[1] \notin who}

(* Every component on a cycle is told, and every two that import each other  *)
(* are told once, unless accepted: if only one of them is, it is the order   *)
(* of the edges that decides.                                                *)
SmellsTold ==
    LET list == SetToSeq(Imports)
        cyclic == OnCycle(Imports)
        plain == ComputePatternScan(list, {}).intimate
        mutual == {i \in Imports : <<i[2], i[1]>> \in Imports}
        Ends(E) == {{i, <<i[2], i[1]>>} : i \in E}
    IN  /\ \A e \in plain : {e[1], e[2]} \subseteq cyclic /\ <<e[2], e[1]>> \notin plain
        /\ \A who \in SUBSET Names :
             LET accepted == who \X {"circular", "intimate"}
                 scan == ComputePatternScan(list, accepted)
                 back == ComputePatternScan(Reverse(list), accepted)
                 Told(found, e) == {e, <<e[2], e[1]>>} \in Ends(found.intimate)
             IN  /\ scan.circular = cyclic \ who
                 /\ \A e \in mutual :
                      CASE {e[1], e[2]} \cap who = {} -> Told(scan, e) /\ Told(back, e)
                        [] {e[1], e[2]} \subseteq who -> ~Told(scan, e) /\ ~Told(back, e)
                        [] OTHER -> Told(scan, e) # Told(back, e)

(* Without roles given by hand a boundary is crossed exactly where one end   *)
(* imports a server and the other does not; and an interface is an orphan    *)
(* only if no namesake of it is implemented either.                          *)
OutsideSeen ==
    \A p \in Projects :
      LET Serves(n) == \E t \in p.served : <<n, t>> \in Imports
          metrics == ComputeInterfaceMetrics(p.classes,
                       {<<e[1], p.classes[e[2]].name>> : e \in {i \in Imports : i[2] \in DOMAIN p.classes}})
          Implemented(i) == \E e \in Imports : e[2] \in DOMAIN p.classes
                                                 /\ p.classes[e[2]].name = p.classes[i].name
      IN  /\ ComputeTrustBoundaries(p.services, Imports, [n \in {} |-> ""], p.served).Crossings
               = {e \in Imports : Serves(e[1]) # Serves(e[2])}
          /\ metrics.Orphans = {i \in metrics.Interfaces : ~Implemented(i)}
          /\ \A i \in DOMAIN p.classes : p.classes[i].kind = "interface" =>
               \E j \in metrics.Interfaces : p.classes[j].name = p.classes[i].name

(* How the clinic judges components by the roles their imports give them.    *)
RolesJudged == RolesLocal /\ DetectorsAgree /\ SmellsTold /\ OutsideSeen

------------------------------------------------------------------------------

(* What more depends on, changes more and is covered less is never the less  *)
(* risky, in particular of two components of which one imports the other,    *)
(* and on a cycle too; what is worst in all three has the full score.        *)
RiskMonotone ==
    \A p \in Projects :
      LET risk == ComputeRiskScores(Imports, p.services)
          Blast(n) == BlastRadius(Imports, Names, n)
          Worse(a, b) == /\ p.services[a].churn <= p.services[b].churn
                         /\ CoverageGap(p.services[a].coverage) <= CoverageGap(p.services[b].coverage)
      IN  /\ \A e \in Imports : Blast(e[1]) <= Blast(e[2])
          /\ \A a, b \in DOMAIN risk :
               Worse(a, b) /\ (Blast(a) <= Blast(b) \/ <<a, b>> \in Imports) => risk[a] <= risk[b]
          /\ \A b \in DOMAIN risk :
               /\ p.services[b].churn > 0 /\ Blast(b) > 0 /\ p.services[b].coverage = Unknown
               /\ \A a \in Names : Worse(a, b) /\ Blast(a) <= Blast(b)
               => risk[b] = 100 /\ RiskLevel(risk[b]) = "critical"

(* Leverage counts the direct dependents of a component, each once, never    *)
(* reaches the full score, and another importer never lowers it.             *)
LeverageCounts ==
    \A p \in Projects :
      LET Leverage(E) == ComputeLeverage(E, Names, p.uses, 1)
          all == Leverage(Imports)
      IN  /\ all.Enrichment \cup all.Binary = ComputeImpact(Imports, Names, 1).DirectDeps
          /\ all.Enrichment \cap all.Binary = {}
          /\ all.Score < 100
          /\ \A e \in Imports : Leverage(Imports \ {e}).Score <= all.Score

(* Clusters share nothing, hold together what has the same importers, and    *)
(* merge but never part when less similarity is asked for; what is in one    *)
(* and has symbols is never without independence.                            *)
ClustersNest ==
    LET clusters == [t \in 1..10 |-> DetectCohesionClusters(Imports, t)]
    IN  /\ \A t \in 1..10 : \A c, d \in clusters[t] : c = d \/ c \cap d = {}
        /\ \A t \in 1..9 : \A c \in clusters[t + 1] : \E d \in clusters[t] : c \subseteq d
        /\ \A a, b \in Nodes(Imports) : a # b /\ Consumers(Imports, a) # {} =>
             (Consumers(Imports, a) = Consumers(Imports, b)
                <=> \E c \in clusters[10] : {a, b} \subseteq c)
        /\ \A p \in Projects :
             LET consolidation == ComputeConsolidation(Imports, p.services)
             IN  /\ consolidation.Clusters = clusters[7]
                 /\ \A n \in UNION clusters[7] : p.services[n].symbols > 0 =>
                      consolidation.Independence[n][1] > 0

(* How components are ranked and grouped by who imports them.                *)
HealthScored == RiskMonotone /\ LeverageCounts /\ ClustersNest

==============================================================================
