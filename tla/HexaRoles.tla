------------------------------ MODULE HexaRoles ------------------------------
(***************************************************************************)
(* The clinic (clinic/hexa.go, solid.go, pattern_scan.go) and what trust   *)
(* zones and interfaces look like (constraint/).                           *)
(*                                                                         *)
(* services gives what the report knows of each component: whether it has  *)
(* a main symbol, its lines, its numbers of symbols, of interfaces and of  *)
(* types among them, and of classes and interfaces by analysis.  external  *)
(* are the edges that lead out of the project.  An accepted violation is a *)
(* pair <<component, principle>>.                                          *)
(***************************************************************************)
EXTENDS GraphAlgorithms, SequencesExt

CONSTANTS CompositionRootFanOut, InfraTypeThreshold,
          SrpLOC, SrpFanOut, SrpDomains, SrpSymbols, IspMethods

ASSUME HexaRolesAssumption ==
    {CompositionRootFanOut, InfraTypeThreshold, SrpLOC, SrpFanOut, SrpDomains,
     SrpSymbols, IspMethods} \subseteq Nat

IsEntry(svc, fanIn, fanOut) == svc.main \/ (fanOut >= CompositionRootFanOut /\ fanIn <= 1)

MostlyInterfaces(svc) ==
    2 * svc.interfaces > svc.symbols \/ 2 * svc.classInterfaces > svc.classes

IsInfra(svc, fanIn, total) ==
    /\ total > 2 /\ 10 * fanIn > 4 * total
    /\ Max({svc.types, svc.classes}) <= InfraTypeThreshold

ClassifyService(svc, hasExternal, fanIn, fanOut, total) ==
    IF IsEntry(svc, fanIn, fanOut) THEN "entrypoint"
    ELSE IF MostlyInterfaces(svc) THEN "port"
    ELSE IF hasExternal THEN "adapter"
    ELSE IF IsInfra(svc, fanIn, total) THEN "infra"
    ELSE "domain"

ComputeHexaClassification(services, E, external) ==
    [n \in DOMAIN services |->
        ClassifyService(services[n], \E e \in external : e[1] = n,
                        FanIn(E, n), FanOut(E, n), Cardinality(DOMAIN services))]

(* Roles given by hand replace the others, also of components that are not   *)
(* in the report.                                                            *)
ResolveRoles(classified, overrides) ==
    [n \in DOMAIN classified \cup DOMAIN overrides |->
        IF n \in DOMAIN overrides THEN overrides[n] ELSE classified[n]]

HexaErrors == {"domain", "port"} \X {"adapter", "infra"}
HexaWarnings == {<<"domain", "app">>}

ComputeHexaViolations(classified, E) ==
    {e \in E : /\ {e[1], e[2]} \subseteq DOMAIN classified
               /\ <<classified[e[1]], classified[e[2]]>> \in HexaErrors \cup HexaWarnings}

------------------------------------------------------------------------------

(* Mutation: an accepted component hides the edges into it as well.          *)
TouchesAccepted(E, accepted) ==
    {e \in E : <<e[1], "DIP">> \in accepted \/ <<e[2], "DIP">> \in accepted}
AcceptedEdges(E, accepted) == {e \in E : <<e[1], "DIP">> \in accepted}

ComputeDIPViolations(classified, E, accepted) ==
    LET Role(n) == IF n \in DOMAIN classified THEN classified[n] ELSE ""
    IN  {e \in E \ AcceptedEdges(E, accepted) :
           <<Role(e[1]), Role(e[2])>> \in
             ({"domain"} \X {"adapter", "infra"}) \cup {<<"app", "adapter">>}}

(* The limits for errors are met only where those for warnings are, and give *)
(* a warning as well.  domainOf is the first segment of a path.              *)
ComputeSRPViolations(services, E, roles, domainOf, accepted) ==
    LET judged == {n \in DOMAIN services :
                     <<n, "SRP">> \notin accepted /\ roles[n] # "entrypoint"}
        Domains(n) == {domainOf[t] : t \in Targets(E, {n})}
    IN  {<<n, "size">> : n \in {m \in judged : services[m].loc > SrpLOC
                                                /\ FanOut(E, m) > SrpFanOut}}
        \cup {<<n, "domains">> : n \in {m \in judged : services[m].symbols > SrpSymbols
                                          /\ Cardinality(Domains(m)) > SrpDomains}}

(* classes is the sequence of the classes found.                             *)
ComputeISPViolations(classes, accepted) ==
    {i \in DOMAIN classes : /\ classes[i].kind = "interface"
                            /\ <<classes[i].name, "ISP">> \notin accepted
                            /\ classes[i].methods > IspMethods}

(* The roles given by hand count for SRP alone.                              *)
ComputeSOLIDScan(services, E, external, classes, domainOf, overrides, accepted) ==
    LET classified == ComputeHexaClassification(services, E, external)
        roles == ResolveRoles(classified, overrides)
    IN  [SRP |-> ComputeSRPViolations(services, E, roles, domainOf, accepted),
         ISP |-> ComputeISPViolations(classes, accepted),
         DIP |-> ComputeDIPViolations(classified, E, accepted)]

------------------------------------------------------------------------------

(* E is a sequence here: of two edges between the same components the first  *)
(* one names the component.                                                  *)
ComputePatternScan(list, accepted) ==
    LET E == Range(list)
        First(e) == Min({i \in DOMAIN list : list[i] \in {e, <<e[2], e[1]>>}})
        mutual == {e \in E : <<e[2], e[1]>> \in E /\ list[First(e)] = e}
    IN  [circular |-> {n \in CycleNodes(E) : <<n, "circular">> \notin accepted},
         intimate |-> {e \in mutual : <<e[1], "intimate">> \notin accepted}]

------------------------------------------------------------------------------

RoleToZone(role) ==
    CASE role = "entrypoint" -> "entrypoint"
      [] role = "adapter" -> "boundary"
      [] role = "infra" -> "infra"
      [] role = "port" -> "port"
      [] OTHER -> "domain"

(* Roles are those of the desired state alone; other components are told by  *)
(* the names they import, of which served look like a server's.              *)
InferTrustZone(n, E, desired, served) ==
    IF n \in DOMAIN desired THEN RoleToZone(desired[n])
    ELSE IF Targets(E, {n}) \cap served # {} THEN "boundary"
    ELSE "domain"

ComputeTrustBoundaries(services, E, desired, served) ==
    LET zone == [n \in DOMAIN services |-> InferTrustZone(n, E, desired, served)]
    IN  [Zones |-> zone,
         Crossings |-> {e \in E : /\ {e[1], e[2]} \subseteq DOMAIN zone
                                  /\ zone[e[1]] # zone[e[2]]}]

(* Interfaces are kept by their bare names: of namesakes the last one is     *)
(* counted, with the implementors of all.  implements is pairs <<type, name>>. *)
ComputeInterfaceMetrics(classes, implements) ==
    LET interfaces == {i \in DOMAIN classes : classes[i].kind = "interface"}
        last == {i \in interfaces : \A j \in interfaces :
                    classes[j].name = classes[i].name => j <= i}
        Implementors(i) == {p \in implements : p[2] = classes[i].name}
    IN  [Interfaces |-> last, Orphans |-> {i \in last : Implementors(i) = {}}]

==============================================================================
