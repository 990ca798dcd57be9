-------------------------- MODULE MCScansAndQueries --------------------------
(* ScansAndQueries for TLC: each behaviour is of the scans or of the         *)
(* queries.                                                                  *)
EXTENDS ScansAndQueries, TLC

VARIABLE active

QueryPlan == INSTANCE QueryPlans

(* Queries of up to three pieces, the one that asks every cache, and two     *)
(* batches, beside a call that scans.                                        *)
MCAsked ==
    "any" :> ({plan \in QueryPlan!Queries : Len(plan) < 4} \cup {QueryPlan!HybridRetrieve} \cup
              {QueryPlan!BatchQuery(actions) :
                 actions \in {<<QueryPlan!GetCycles, QueryPlan!GetDiffIntelligence>>,
                              <<QueryPlan!GetGaps>>}})
      @@ "scan" :> {QueryPlan!BatchQuery(<<>>)}

MCInit == active \in {"scans", "queries"} /\ Init /\ Queried!Init

MCNext ==
    \/ active = "scans" /\ Next /\ UNCHANGED <<active, queryVars>>
    \/ active = "queries" /\ Queried!Next /\ UNCHANGED <<active, vars>>

MCSpec == MCInit /\ [][MCNext]_<<active, vars, queryVars>>
==============================================================================
