------------------------------ MODULE QueryPlans ------------------------------
(***************************************************************************)
(* The queries of the engine (engine/protocol.go, batch.go, nav.go,        *)
(* taint.go, intra.go, preset/presets.go) by the pieces they read, in      *)
(* order: "report", of a scan; "graph", the symbol graph; "live", the tree *)
(* itself, through an analyzer, a language server or git; "state", the     *)
(* stored desired state; "argument", a check of what was asked for.        *)
(***************************************************************************)
EXTENDS Naturals, Sequences, SequencesExt

(* The pieces.  A read that fails is fatal to the query, or is left out of   *)
(* the answer, or either, as the rest of the query says.                     *)

Piece(piece, fatal) == [piece |-> piece, fatal |-> fatal, path |-> 1, of |-> 0]
Must(piece) == Piece(piece, {TRUE})
May(piece) == Piece(piece, {FALSE})
Might(piece) == Piece(piece, BOOLEAN)
Second(step) == [step EXCEPT !.path = 2]

Argument == Must("argument")
OfReport == <<Must("report")>>
OfGraph == <<Must("graph")>>
Named == <<Argument>> \o OfReport
Live == <<Must("live")>>

(* Queries of the components and their imports.                              *)
SuggestDepth == Live
GetHotSpots == OfReport \o <<May("live")>>
GetDependencies == Named
GetCouplingTable == OfReport
GetEdgeList == OfReport
GetCycles == OfReport
GetViolations == OfReport \o <<May("state")>>
GetDrift == <<Must("state"), Might("report")>>
SuggestArchitecture == OfReport
SearchSymbolsFiltered == OfReport
GetComponentDetail == Named \o <<Argument>>
GetAPISurface == OfReport
ValidateArchitecture == OfReport \o <<Argument>>
GetImpact == Named
GetWhatIf == OfReport \o <<Argument>>
GetGaps == OfReport \o <<Must("live")>>
GetLeverage == Named
GetRiskScores == OfReport
GetConsolidation == OfReport
GetBudgets == OfReport \o <<May("state")>>
GetBlastRadius == OfReport \o <<Must("live")>>
GetImportDirection == OfReport
GetTrustBoundaries == OfReport \o <<May("state")>>
GetIntraPackageDeps == OfReport \o <<Argument>>
GetIntraCoupling == OfReport \o <<Argument>>
GetTypeUsages == OfReport
GetComplexityHints == OfReport \o <<May("live")>>
GetCrossRepo == <<Must("report"), Second(Must("report"))>>
GetComponentRangeDiff == <<Argument, Must("live"), Must("report")>>

(* Queries of the code health clinic: classes and implementations come from  *)
(* the live tree beside the components of the report.                        *)
GetInterfaceMetrics == Live \o Live
GetHexaValidation == OfReport \o <<May("live")>>
GetSOLIDScan == OfReport \o <<May("live"), May("live"), May("state")>>
GetPatternScan == OfReport \o <<May("live"), May("live"), May("state")>>
GetSymbolQuality == OfReport
GetVocabMap == OfReport

Normative == <<May("state"), May("state")>>
PreRefactor == <<May("live"), May("live")>>
FullClinic == <<May("state")>> \o PreRefactor \o <<May("state")>> \o PreRefactor \o <<May("state")>>
CodeHealth == <<May("live"), May("live")>>
RunPreset == {OfReport \o preset : preset \in {<<>>, <<Argument>>, Normative, PreRefactor,
                                               FullClinic, CodeHealth}}

(* Queries of the call graph, which is built anew for each of them.          *)
GetCallees == <<Argument>> \o Live
GetCallPath == Live
GetSymbolBlastRadius == <<Argument>> \o Live
GetDiffIntelligence == OfReport \o Live \o Live
GetCallers == Named \o <<Might("live"), May("live"), Argument>>
GetCallersAt == <<May("live")>>
GetDataFlow == Live
DetectStateMachines == Live
GetModuleDependencies == Live
GetConventions == Live
GetCoverage == Live

(* Queries of the symbol graph.                                              *)
DetectPipelines == OfGraph
ProbeSymbol == OfGraph
GetScenario == OfGraph
GetConvergence == OfGraph
IsolateSymbol == OfGraph
FindIslands == OfGraph
Diagnose == OfGraph
DiffSymbolGraphs == <<Must("graph"), Second(Must("graph"))>>
TaintQuery == <<Argument, Might("graph"), May("live")>>

(* GetMeshOpts gives getOrScan the path as it came.                          *)
GetMesh == <<Must("graph"), Must("raw report")>>

(* Navigation: the locator is looked up in the report, and the file is that  *)
(* of the path as it came.                                                   *)
GetDefinition == <<Argument, Must("report"), May("raw live")>>
GetReferencesByLocator == <<Argument, Must("report"), May("raw live")>>
GetShow == <<Argument, Must("report"), May("raw live"), May("raw live")>>

(* A question in words names one of a few queries, or is looked for in the   *)
(* files, the report and the symbol graph, and the hits in the graph again.  *)
HybridRetrieve == <<May("live"), May("report"), May("graph"), May("graph")>>
DispatchQueryAction == {OfReport, GetCycles, GetViolations, <<>>}
AnswerQuery == DispatchQueryAction \cup {HybridRetrieve}

Queries ==
    {SuggestDepth, GetHotSpots, GetDependencies, GetCouplingTable, GetEdgeList, GetCycles,
     GetViolations, GetDrift, SuggestArchitecture, SearchSymbolsFiltered, GetComponentDetail,
     GetAPISurface, ValidateArchitecture, GetImpact, GetWhatIf, GetGaps, GetLeverage,
     GetRiskScores, GetConsolidation, GetBudgets, GetBlastRadius, GetImportDirection,
     GetTrustBoundaries, GetIntraPackageDeps, GetIntraCoupling, GetTypeUsages,
     GetComplexityHints, GetCrossRepo, GetComponentRangeDiff, GetInterfaceMetrics,
     GetHexaValidation, GetSOLIDScan, GetPatternScan, GetSymbolQuality, GetVocabMap,
     GetCallees, GetCallPath, GetSymbolBlastRadius, GetDiffIntelligence, GetCallers,
     GetCallersAt, GetDataFlow, DetectStateMachines, GetModuleDependencies, GetConventions,
     GetCoverage, DetectPipelines, ProbeSymbol, GetScenario, GetConvergence, IsolateSymbol,
     FindIslands, Diagnose, DiffSymbolGraphs, TaintQuery, GetMesh, GetDefinition,
     GetReferencesByLocator, GetShow} \cup RunPreset \cup AnswerQuery

------------------------------------------------------------------------------
(* BatchQuery scans the project and hands the key of that scan to its        *)
(* actions, which fail one by one.                                           *)

BatchAnalysis == {GetHotSpots, GetDependencies, GetCouplingTable, GetCycles, GetViolations,
                  GetCallers, GetCallees, GetCallPath, GetComponentDetail, SearchSymbolsFiltered,
                  GetRiskScores, GetImpact, OfGraph, DetectPipelines} \cup RunPreset
BatchClinic == {GetPatternScan, <<>>, GetHexaValidation, GetSOLIDScan, GetSymbolQuality, GetVocabMap}
BatchConstraint == {GetBlastRadius, GetImportDirection, GetTrustBoundaries, GetBudgets,
                    GetModuleDependencies, GetSymbolBlastRadius, GetInterfaceMetrics, GetLeverage,
                    GetAPISurface, GetConventions, GetGaps, GetConsolidation}
BatchRefactor == {GetDrift, <<Argument>>, GetDiffIntelligence}
BatchActions == BatchAnalysis \cup BatchClinic \cup BatchConstraint \cup BatchRefactor

(* GetGaps has no use for the key.                                           *)
Keyed(action) ==
    IF action = GetGaps THEN action
    ELSE [i \in 1 .. Len(action) |-> IF action[i].piece = "report"
                                     THEN [action[i] EXCEPT !.piece = "keyed"] ELSE action[i]]

BatchQuery(actions) ==
    <<Must("scan")>> \o FlattenSeq([i \in 1 .. Len(actions) |->
        [j \in 1 .. Len(actions[i]) |-> [Keyed(actions[i])[j] EXCEPT !.of = i]]])
==============================================================================
