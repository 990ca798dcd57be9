------------------------------ MODULE Analyzers ------------------------------
(***************************************************************************)
(* The races of the analyzers, which this module extends, beside the walk  *)
(* of the calls from a set of roots, of which it is an instance: the two   *)
(* share no state.                                                         *)
(***************************************************************************)
EXTENDS Racer

CONSTANTS Symbols, External, Tasks, Concurrency    \* CallGraphWalk

VARIABLES task, waiting, stack, visited, nodes, edges, cut

walkVars == <<task, waiting, stack, visited, nodes, edges, cut>>

Walk == INSTANCE CallGraphWalk

(* What CallGraphWalk assumes of its constants.                              *)
SensibleTasks == IsFiniteSet(Symbols) /\ Tasks \subseteq Walk!Task

ASSUME WalkConstants == SensibleTasks

(* What CallGraphWalk promises of its walks.                                 *)
AskedOnce == Walk!AskedOnce
WalkComplete == Walk!WalkComplete
==============================================================================
