----------------------------- MODULE ServerSlots -----------------------------
(***************************************************************************)
(* What a pool of language servers looks like to the machine that runs     *)
(* them: a set of at most Capacity running servers, started one at a time  *)
(* and only while there is room, and stopped one at a time.                *)
(***************************************************************************)
EXTENDS Naturals, FiniteSets

CONSTANTS Servers, Capacity

VARIABLE running

SlotsInit == running = {}

Start(s) ==
    /\ s \notin running
    /\ Cardinality(running) < Capacity
    /\ running' = running \cup {s}

Stop(s) ==
    /\ s \in running
    /\ running' = running \ {s}

SlotsNext == \E s \in Servers : Start(s) \/ Stop(s)

SlotsSpec == SlotsInit /\ [][SlotsNext]_running

==============================================================================
