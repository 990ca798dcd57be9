---------------------------- MODULE ScansAndQueries ----------------------------
(***************************************************************************)
(* The scans that share a report cache, which this module extends, beside  *)
(* the queries that read it, of which it is an instance: there the scans   *)
(* are single steps of a query, here they are taken apart.                 *)
(***************************************************************************)
EXTENDS ScanEngine, Sequences

CONSTANTS Askers, Projects, Workspace, Cwd, Empty, Asked, WorkedOn, None    \* EngineQueries

VARIABLES trees, marked, reports, graphs, phase, query

queryVars == <<trees, marked, reports, graphs, phase, query>>

Queried == INSTANCE EngineQueries
             WITH Calls <- Askers, NoVersion <- None,
                  tree <- trees, dirty <- marked, slot <- reports, graph <- graphs

(* What EngineQueries assumes of its constants.                              *)
SensibleQueries ==
    /\ Empty \notin Projects /\ None \notin Nat
    /\ {Workspace, Cwd} \cup WorkedOn \subseteq Projects
    /\ Asked \in [Askers -> SUBSET Queried!Plans]

ASSUME QueryConstants == SensibleQueries

(* What the queries show: of the current tree, and of one scan.              *)
AnswersWhole == Queried!AnswersCurrent /\ Queried!BatchShares
==============================================================================
