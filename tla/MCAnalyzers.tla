----------------------------- MODULE MCAnalyzers -----------------------------
(* Analyzers for TLC, where one moves only while the other rests: two races  *)
(* of two analyzers, and walks of programs of three symbols and one in a     *)
(* library with up to three calls.                                           *)
EXTENDS Analyzers, TLC

CONSTANTS a1, a2

MCQuality == (a1 :> 1) @@ (a2 :> 2)

Pairs == {<<1, 2>>, <<1, 3>>, <<2, 1>>, <<2, 2>>, <<2, 3>>, <<3, 1>>, <<1, 4>>}

(* Names that differ, and two symbols of one name.                           *)
MCTasks ==
    [calls : {c \in SUBSET Pairs : Cardinality(c) <= 3},
     name : {<<1, 2, 3, 4>>, <<1, 2, 2, 4>>},
     roots : {{1}, {1, 2}}, depth : {1, 4}, frugal : BOOLEAN]

NoRace == cache = None /\ (\A r \in Races : At(r, "idle"))
            /\ ~racer.interactive /\ racer.min = 2

MCInit == Init /\ Walk!Init

MCNext ==
    \/ task = Walk!NoTask /\ Next /\ UNCHANGED walkVars
    \/ NoRace /\ Walk!Next /\ UNCHANGED vars

MCSpec == MCInit /\ [][MCNext]_<<vars, walkVars>> /\ Fairness
==============================================================================
