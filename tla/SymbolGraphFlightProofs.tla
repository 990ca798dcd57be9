----------------------- MODULE SymbolGraphFlightProofs -----------------------
(***************************************************************************)
(* Proofs about GetSymbolGraph's shared builds, for any number of callers, *)
(* flights and builds.  The invariant counts, for each flight, the callers *)
(* between waiters++ and waiters--; a flight is registered, and its build  *)
(* uncancelled, only while one of them is there or the last one is leaving.*)
(***************************************************************************)
EXTENDS SymbolGraphFlight, FiniteSetTheorems, TLAPS

(* The callers counted in a flight are finitely many.                        *)
LEMMA CountedFinite ==
    \A f : /\ IsFiniteSet(Counted(f)) /\ IsFiniteSet(Counted(f)')
           /\ Cardinality(Counted(f)) \in 0..Cardinality(Callers)
           /\ Cardinality(Counted(f)') \in 0..Cardinality(Callers)
           /\ Cardinality(Callers) \in Nat
<1> SUFFICES ASSUME NEW f
             PROVE  /\ IsFiniteSet(Counted(f)) /\ IsFiniteSet(Counted(f)')
                    /\ Cardinality(Counted(f)) \in 0..Cardinality(Callers)
                    /\ Cardinality(Counted(f)') \in 0..Cardinality(Callers)
                    /\ Cardinality(Callers) \in Nat
  OBVIOUS
<1>1. Counted(f) \subseteq Callers /\ Counted(f)' \subseteq Callers
  BY DEF Counted
<1>2. IsFiniteSet(Callers)
  BY SymbolGraphFlightAssumption
<1>3. /\ IsFiniteSet(Counted(f)) /\ IsFiniteSet(Counted(f)')
      /\ Cardinality(Counted(f)) <= Cardinality(Callers)
      /\ Cardinality(Counted(f)') <= Cardinality(Callers)
  BY <1>1, <1>2, FS_Subset
<1>4. /\ Cardinality(Counted(f)) \in Nat /\ Cardinality(Counted(f)') \in Nat
      /\ Cardinality(Callers) \in Nat
  BY <1>2, <1>3, FS_CardinalityType
<1>5. QED
  BY <1>3, <1>4

(* A new engine: no flight, no build, nobody waits.                          *)
LEMMA InitFlightInv == Init => FlightInv
<1> SUFFICES ASSUME Init PROVE FlightInv
  OBVIOUS
<1>1. \A f \in Flights : Counted(f) = {}
  BY DEF Init, Counted
<1>2. Cardinality({}) = 0 /\ Cardinality(Callers) \in Nat
  BY FS_EmptySet, CountedFinite
<1>3. TypeOK
  <2>1. waiters \in [Flights -> 0..Cardinality(Callers)]
    BY <1>2 DEF Init
  <2>2. QED
    BY <2>1 DEF Init, TypeOK, Results, Unfinished
<1>4. WaitersCounted
  BY <1>1, <1>2 DEF Init, WaitersCounted
<1>5. FlightsHeld /\ OneBuild /\ NoAbandonedBuild /\ FlightsForgotten
  BY SymbolGraphFlightAssumption
  DEF Init, FlightsHeld, OneBuild, NoAbandonedBuild, FlightsForgotten
<1>6. QED
  BY <1>3, <1>4, <1>5 DEF FlightInv

(* A step that leaves flights, stages of build and the callers' places as    *)
(* far as anybody counts them: the callers counted are the same.             *)
LEMMA SameCount ==
    ASSUME FlightInv, waiters' = waiters,
           \A f \in Flights : Counted(f)' = Counted(f)
    PROVE  WaitersCounted'
BY DEF FlightInv, WaitersCounted

(* Somebody is counted in a flight whose counter is positive.                *)
LEMMA CountedMember ==
    ASSUME FlightInv, NEW f \in Flights
    PROVE  waiters[f] > 0 <=> \E c \in Callers : c \in Counted(f)
<1>1. Cardinality(Counted(f)) = 0 <=> Counted(f) = {}
  BY CountedFinite, FS_EmptySet
<1>2. waiters[f] = Cardinality(Counted(f)) /\ Cardinality(Counted(f)) \in Nat
  BY CountedFinite DEF FlightInv, WaitersCounted
<1>3. Counted(f) \subseteq Callers
  BY DEF Counted
<1>4. QED
  BY <1>1, <1>2, <1>3

------------------------------------------------------------------------------
(* The steps.                                                              *)

(* A caller misses the cache: it is in no flight yet.                        *)
LEMMA MissStep ==
    ASSUME FlightInv, NEW c \in Callers, Miss(c)
    PROVE  FlightInv'
<1> USE SymbolGraphFlightAssumption DEF FlightInv
<1>1. TypeOK'
  BY DEF TypeOK, Results, Unfinished, Miss, Goto, flightVars, buildVars
<1>2. WaitersCounted'
  <2>1. \A f \in Flights : Counted(f)' = Counted(f)
    BY DEF TypeOK, Counted, FlightsHeld, Miss, Goto, flightVars, buildVars
  <2>2. QED
    BY <2>1, SameCount DEF Miss, Goto, flightVars, buildVars
<1>3. FlightsHeld'
  BY DEF TypeOK, FlightsHeld, Miss, Goto, flightVars, buildVars
<1>4. OneBuild'
  BY DEF TypeOK, Unfinished, Results, OneBuild, Miss, Goto, flightVars, buildVars
<1>5. NoAbandonedBuild'
  BY DEF TypeOK, Unfinished, Results, OneBuild, FlightsHeld, NoAbandonedBuild, Miss, Goto,
      flightVars, buildVars
<1>6. FlightsForgotten'
  BY DEF TypeOK, FlightsHeld, FlightsForgotten, Miss, Goto, flightVars, buildVars
<1>7. QED
  BY <1>1, <1>2, <1>3, <1>4, <1>5, <1>6

(* A caller finds the registered flight or registers a new, empty one.       *)
LEMMA FindFlightStep ==
    ASSUME FlightInv, NEW c \in Callers, FindFlight(c)
    PROVE  FlightInv'
<1> USE SymbolGraphFlightAssumption DEF FlightInv
<1>0. \A f \in Flights : Counted(f)' = Counted(f)
  BY DEF TypeOK, Counted, FlightsHeld, FindFlight, Goto
<1>1. TypeOK'
  <2>1. 0 \in 0..Cardinality(Callers)
    BY CountedFinite
  <2>2. /\ registered' \in Flights \cup {NoFlight}
        /\ waiters' \in [Flights -> 0..Cardinality(Callers)]
        /\ cancel' \in [Flights -> Builds \cup {NoBuild}]
        /\ flight' \in [Callers -> Flights \cup {NoFlight}]
    BY <2>1 DEF TypeOK, FindFlight, NoWaiters, flightVars
  <2> QED
    BY <2>2 DEF TypeOK, FindFlight, Goto, buildVars
<1>2. WaitersCounted'
  <2>1. CASE registered # NoFlight
    BY <2>1, <1>0, SameCount DEF FindFlight, flightVars
  <2>2. CASE registered = NoFlight
    <3>1. PICK f \in Flights : /\ ~InUse(f)
                              /\ waiters' = [waiters EXCEPT ![f] = 0]
      BY <2>2 DEF FindFlight, NoWaiters
    <3>2. Counted(f) = {}
      BY <3>1 DEF InUse, Counted
    <3>3. waiters' = waiters
      BY <3>1, <3>2, FS_EmptySet DEF TypeOK, WaitersCounted
    <3>4. QED
      BY <3>3, <1>0, SameCount
  <2>3. QED
    BY <2>1, <2>2
<1>3. FlightsHeld'
  BY <1>0, CountedFinite
  DEF TypeOK, FlightsHeld, FindFlight, Goto, NoWaiters, InUse, flightVars, buildVars
<1>4. OneBuild'
  BY <1>0, CountedFinite
  DEF TypeOK, Unfinished, Results, OneBuild, FindFlight, Goto, NoWaiters, InUse,
      flightVars, buildVars
<1>5. NoAbandonedBuild'
  BY <1>0, CountedFinite
  DEF TypeOK, Unfinished, Results, OneBuild, FlightsHeld, NoAbandonedBuild, FindFlight,
      Goto, NoWaiters, InUse, flightVars, buildVars
<1>6. FlightsForgotten'
  BY <1>0, CountedFinite
  DEF TypeOK, FlightsHeld, FlightsForgotten, FindFlight, Goto, NoWaiters, InUse,
      flightVars, buildVars
<1>7. QED
  BY <1>1, <1>2, <1>3, <1>4, <1>5, <1>6

(* A caller is counted in its flight.                                        *)
LEMMA JoinStep ==
    ASSUME FlightInv, NEW c \in Callers, Join(c)
    PROVE  FlightInv'
<1> USE SymbolGraphFlightAssumption DEF FlightInv
<1>0. PICK g \in Flights : g = flight[c]
  BY DEF TypeOK, FlightsHeld, Join
<1>a. /\ c \notin Counted(g)
      /\ \A f \in Flights : Counted(f)' = IF f = g THEN Counted(f) \cup {c} ELSE Counted(f)
  BY <1>0 DEF TypeOK, Counted, Join, Goto
<1>b. Cardinality(Counted(g)') = Cardinality(Counted(g)) + 1
  <2>1. Counted(g)' = Counted(g) \cup {c} /\ IsFiniteSet(Counted(g))
    BY <1>a, CountedFinite
  <2>2. QED
    BY <2>1, <1>a, FS_AddElement
<1>1. TypeOK'
  <2>1. waiters' \in [Flights -> 0..Cardinality(Callers)]
    <3>1. waiters[g] + 1 = Cardinality(Counted(g)')
      BY <1>0, <1>b DEF WaitersCounted
    <3>2. waiters[g] + 1 \in 0..Cardinality(Callers)
      BY <3>1, CountedFinite
    <3>3. QED
      BY <3>2, <1>0 DEF TypeOK, Join
  <2>2. QED
    BY <2>1 DEF TypeOK, Join, Goto, buildVars
<1>2. WaitersCounted'
  <2>1. ASSUME NEW f \in Flights PROVE waiters'[f] = Cardinality(Counted(f)')
    <3>1. waiters'[f] = IF f = g THEN waiters[f] + 1 ELSE waiters[f]
      BY <1>0 DEF TypeOK, Join
    <3>2. QED
      BY <3>1, <1>a, <1>b DEF WaitersCounted
  <2>2. QED
    BY <2>1 DEF WaitersCounted
<1>3. FlightsHeld'
  BY <1>0, <1>2
  DEF TypeOK, FlightsHeld, Join, Goto, buildVars
<1>4. OneBuild'
  BY <1>0, <1>2
  DEF TypeOK, Unfinished, Results, OneBuild, Join, Goto, buildVars
<1>5. NoAbandonedBuild'
  BY <1>0, <1>2
  DEF TypeOK, Unfinished, Results, OneBuild, FlightsHeld, NoAbandonedBuild, Join, Goto,
      buildVars
<1>6. FlightsForgotten'
  BY <1>0, <1>2
  DEF TypeOK, FlightsHeld, FlightsForgotten, Join, Goto, buildVars
<1>7. QED
  BY <1>1, <1>2, <1>3, <1>4, <1>5, <1>6

(* A caller attaches to the running build or starts one in its flight.       *)
LEMMA DoChanStep ==
    ASSUME FlightInv, NEW c \in Callers, DoChan(c)
    PROVE  FlightInv'
<1> USE SymbolGraphFlightAssumption DEF FlightInv
<1>0. flight[c] \in Flights
  BY DEF TypeOK, FlightsHeld, DoChan
<1>1. TypeOK'
  <2>1. CASE running # NoBuild
    BY <2>1 DEF TypeOK, DoChan, Goto, flightVars, buildVars
  <2>2. CASE running = NoBuild
    BY <1>0, <2>2 DEF TypeOK, Unfinished, DoChan, Goto, flightVars
  <2>3. QED
    BY <2>1, <2>2
<1>2. WaitersCounted'
  <2>1. \A f \in Flights : Counted(f)' = Counted(f)
    BY DEF TypeOK, Counted, FlightsHeld, DoChan, Goto, flightVars, buildVars
  <2>2. QED
    BY <2>1, SameCount DEF DoChan, Goto, flightVars, buildVars
<1>3. FlightsHeld'
  BY DEF TypeOK, FlightsHeld, DoChan, Goto, flightVars, buildVars
<1>4. OneBuild'
  <2>1. CASE running # NoBuild
    BY <2>1 DEF OneBuild, DoChan, flightVars, buildVars
  <2>2. CASE running = NoBuild
    BY <1>0, <2>2 DEF TypeOK, OneBuild, DoChan, flightVars
  <2>3. QED
    BY <2>1, <2>2
<1>5. NoAbandonedBuild'
  BY DEF TypeOK, Unfinished, Results, OneBuild, FlightsHeld, NoAbandonedBuild, DoChan,
      Goto, flightVars, buildVars
<1>6. FlightsForgotten'
  BY DEF TypeOK, FlightsHeld, FlightsForgotten, DoChan, Goto, flightVars, buildVars
<1>7. QED
  BY <1>1, <1>2, <1>3, <1>4, <1>5, <1>6

(* A caller has its result, or its deadline has passed.                      *)
LEMMA StopWaitingStep ==
    ASSUME FlightInv, NEW c \in Callers, NEW r \in Results \cup {"timeout"}, pc[c] = "wait", StopWaiting(c, r)
    PROVE  FlightInv'
<1> USE SymbolGraphFlightAssumption DEF FlightInv
<1>1. TypeOK'
  BY DEF TypeOK, Results, Unfinished, StopWaiting, Goto, flightVars, buildVars
<1>2. WaitersCounted'
  <2>1. \A f \in Flights : Counted(f)' = Counted(f)
    BY DEF TypeOK, Counted, FlightsHeld, StopWaiting, Goto, flightVars, buildVars
  <2>2. QED
    BY <2>1, SameCount DEF StopWaiting, Goto, flightVars, buildVars
<1>3. FlightsHeld'
  BY DEF TypeOK, FlightsHeld, StopWaiting, Goto, flightVars, buildVars
<1>4. OneBuild'
  BY DEF TypeOK, Unfinished, Results, OneBuild, StopWaiting, Goto, flightVars, buildVars
<1>5. NoAbandonedBuild'
  BY DEF TypeOK, Unfinished, Results, OneBuild, FlightsHeld, NoAbandonedBuild, StopWaiting,
      Goto, flightVars, buildVars
<1>6. FlightsForgotten'
  BY DEF TypeOK, FlightsHeld, FlightsForgotten, StopWaiting, Goto, flightVars, buildVars
<1>7. QED
  BY <1>1, <1>2, <1>3, <1>4, <1>5, <1>6

(* A caller leaves its flight; others are still counted unless it was the last. *)
LEMMA LeaveStep ==
    ASSUME FlightInv, NEW c \in Callers, Leave(c)
    PROVE  FlightInv'
<1> USE SymbolGraphFlightAssumption DEF FlightInv
<1>0. PICK g \in Flights : g = flight[c]
  BY DEF TypeOK, FlightsHeld, Leave
<1>a. /\ c \in Counted(g)
      /\ \A f \in Flights : Counted(f)' = IF f = g THEN Counted(f) \ {c} ELSE Counted(f)
  BY <1>0, SymbolGraphFlightAssumption DEF TypeOK, Counted, Leave, Depart, Goto
<1>b. /\ Cardinality(Counted(g)') = Cardinality(Counted(g)) - 1
      /\ Cardinality(Counted(g)) \in Nat
      /\ Cardinality(Counted(g)') \in 0..Cardinality(Callers)
  <2>1. Counted(g)' = Counted(g) \ {c} /\ IsFiniteSet(Counted(g))
    BY <1>a, CountedFinite
  <2>2. Cardinality(Counted(g)') = Cardinality(Counted(g)) - 1
    BY <2>1, <1>a, FS_RemoveElement
  <2>3. QED
    BY <2>2, CountedFinite
<1>c. waiters[g] = 1 \/ \E d \in Callers : d # c /\ d \in Counted(g)
  <2>1. CASE Counted(g)' = {}
    BY <2>1, <1>b, FS_EmptySet DEF WaitersCounted
  <2>2. CASE Counted(g)' # {}
    BY <2>2, <1>a DEF Counted
  <2>3. QED
    BY <2>1, <2>2
<1>1. TypeOK'
  <2>1. waiters[g] - 1 \in 0..Cardinality(Callers)
    BY <1>0, <1>b DEF WaitersCounted
  <2>2. waiters' \in [Flights -> 0..Cardinality(Callers)]
    BY <2>1, <1>0 DEF TypeOK, Leave
  <2>3. QED
    BY <2>2, <1>0 DEF TypeOK, Leave, Depart, Goto, buildVars
<1>2. WaitersCounted'
  <2>1. ASSUME NEW f \in Flights PROVE waiters'[f] = Cardinality(Counted(f)')
    <3>1. waiters'[f] = IF f = g THEN waiters[f] - 1 ELSE waiters[f]
      BY <1>0 DEF TypeOK, Leave
    <3>2. QED
      BY <3>1, <1>a, <1>b DEF WaitersCounted
  <2>2. QED
    BY <2>1 DEF WaitersCounted
<1>3. FlightsHeld'
  BY <1>0, <1>2, <1>c
  DEF TypeOK, FlightsHeld, Leave, Depart, Goto, LastOf, buildVars
<1>4. OneBuild'
  BY <1>0, <1>2, <1>c
  DEF TypeOK, Unfinished, Results, OneBuild, Leave, Depart, Goto, LastOf, buildVars
<1>5. NoAbandonedBuild'
  <2> SUFFICES ASSUME NEW b \in Builds, stage[b] = "build", ~cancelled[b]
               PROVE  \/ waiters'[leader[b]] > 0
                      \/ \E d \in Callers : pc'[d] = "last" /\ stopping'[d] = b
    BY DEF NoAbandonedBuild, Leave, buildVars
  <2>1. leader[b] \in Flights /\ cancel[leader[b]] = b
    BY DEF TypeOK, OneBuild
  <2>2. CASE waiters[leader[b]] > 0 /\ ~(leader[b] = flight[c] /\ waiters[g] = 1)
    <3>1. waiters'[leader[b]] > 0
      BY <2>1, <2>2, <1>0, CountedFinite DEF TypeOK, Leave
    <3>2. QED
      BY <3>1
  <2>3. CASE leader[b] = flight[c] /\ waiters[g] = 1
    BY <1>0, <2>1, <2>3 DEF TypeOK, Leave, LastOf, Goto
  <2>4. CASE \E d \in Callers : pc[d] = "last" /\ stopping[d] = b
    BY <2>4 DEF TypeOK, Leave, Depart, Goto
  <2>5. QED
    BY <2>2, <2>3, <2>4 DEF NoAbandonedBuild
<1>6. FlightsForgotten'
  <2> SUFFICES ASSUME registered # NoFlight
               PROVE  \E d \in Callers : flight'[d] = registered
    BY DEF FlightsForgotten, Leave
  <2>1. CASE waiters[g] = 1
    BY <1>0, <2>1 DEF TypeOK, FlightsForgotten, Leave, LastOf
  <2>2. CASE registered # flight[c]
    BY <2>2 DEF TypeOK, FlightsForgotten, Leave, Depart
  <2>3. CASE registered = flight[c] /\ waiters[g] # 1
    <3>1. PICK d \in Callers : d # c /\ d \in Counted(g)
      BY <1>c, <2>3
    <3>2. flight'[d] = flight[c]
      BY <3>1, <1>0 DEF TypeOK, Counted, Leave, Depart
    <3>3. QED
      BY <3>2, <2>3
  <2>4. QED
    BY <2>1, <2>2, <2>3
<1>7. QED
  BY <1>1, <1>2, <1>3, <1>4, <1>5, <1>6

(* The last caller cancels the build it read.                                *)
LEMMA CancelBuildStep ==
    ASSUME FlightInv, NEW c \in Callers, CancelBuild(c)
    PROVE  FlightInv'
<1> USE SymbolGraphFlightAssumption DEF FlightInv
<1>1. TypeOK'
  BY DEF TypeOK, Results, Unfinished, CancelBuild, Goto, flightVars
<1>2. WaitersCounted'
  <2>1. \A f \in Flights : Counted(f)' = Counted(f)
    BY DEF TypeOK, Counted, FlightsHeld, CancelBuild, Goto, flightVars
  <2>2. QED
    BY <2>1, SameCount DEF CancelBuild, Goto, flightVars
<1>3. FlightsHeld'
  BY DEF TypeOK, FlightsHeld, CancelBuild, Goto, flightVars
<1>4. OneBuild'
  BY DEF TypeOK, Unfinished, Results, OneBuild, CancelBuild, Goto, flightVars
<1>5. NoAbandonedBuild'
  <2> SUFFICES ASSUME NEW b \in Builds, stage[b] = "build", ~cancelled'[b]
               PROVE  \/ waiters[leader[b]] > 0
                      \/ \E d \in Callers : pc'[d] = "last" /\ stopping'[d] = b
    BY DEF NoAbandonedBuild, CancelBuild, flightVars
  <2>1. ~cancelled[b] /\ b # stopping[c]
    BY DEF CancelBuild
  <2>2. \A d \in Callers : pc[d] = "last" /\ stopping[d] = b =>
                             pc'[d] = "last" /\ stopping'[d] = b
    BY <2>1 DEF TypeOK, CancelBuild, Goto
  <2> QED
    BY <2>1, <2>2 DEF NoAbandonedBuild
<1>6. FlightsForgotten'
  BY DEF TypeOK, FlightsHeld, FlightsForgotten, CancelBuild, Goto, flightVars
<1>7. QED
  BY <1>1, <1>2, <1>3, <1>4, <1>5, <1>6

(* The last caller takes its flight out of the map.                          *)
LEMMA ForgetStep ==
    ASSUME FlightInv, NEW c \in Callers, Forget(c)
    PROVE  FlightInv'
<1> USE SymbolGraphFlightAssumption DEF FlightInv
<1>1. TypeOK'
  BY DEF TypeOK, Results, Unfinished, Forget, Depart, Goto, buildVars
<1>2. WaitersCounted'
  <2>1. \A f \in Flights : Counted(f)' = Counted(f)
    BY DEF TypeOK, Counted, FlightsHeld, Forget, Depart, Goto, buildVars
  <2>2. QED
    BY <2>1, SameCount DEF Forget, Depart, Goto, buildVars
<1>3. FlightsHeld'
  BY DEF TypeOK, FlightsHeld, Forget, Depart, Goto, buildVars
<1>4. OneBuild'
  BY DEF TypeOK, Unfinished, Results, OneBuild, Forget, Depart, Goto, buildVars
<1>5. NoAbandonedBuild'
  BY DEF TypeOK, Unfinished, Results, OneBuild, FlightsHeld, NoAbandonedBuild, Forget,
      Depart, Goto, buildVars
<1>6. FlightsForgotten'
  BY DEF TypeOK, FlightsHeld, FlightsForgotten, Forget, Depart, Goto, buildVars
<1>7. QED
  BY <1>1, <1>2, <1>3, <1>4, <1>5, <1>6

(* The build looks at the cache again.                                       *)
LEMMA RecheckStep ==
    ASSUME FlightInv, NEW b \in Builds, Recheck(b)
    PROVE  FlightInv'
<1> USE SymbolGraphFlightAssumption DEF FlightInv
<1>1. TypeOK'
  BY DEF TypeOK, Results, Unfinished, Recheck, Proceed, flightVars, callerVars
<1>2. WaitersCounted'
  <2>1. \A f \in Flights : Counted(f)' = Counted(f)
    BY DEF TypeOK, Counted, FlightsHeld, Recheck, Proceed, flightVars, callerVars
  <2>2. QED
    BY <2>1, SameCount DEF Recheck, Proceed, flightVars, callerVars
<1>3. FlightsHeld'
  BY DEF TypeOK, FlightsHeld, Recheck, Proceed, flightVars, callerVars
<1>4. OneBuild'
  BY DEF TypeOK, Unfinished, Results, OneBuild, Recheck, Proceed, flightVars, callerVars
<1>5. NoAbandonedBuild'
  BY DEF TypeOK, Unfinished, Results, OneBuild, FlightsHeld, NoAbandonedBuild, Recheck,
      Proceed, flightVars, callerVars
<1>6. FlightsForgotten'
  BY DEF TypeOK, FlightsHeld, FlightsForgotten, Recheck, Proceed, flightVars, callerVars
<1>7. QED
  BY <1>1, <1>2, <1>3, <1>4, <1>5, <1>6

(* The build registers its cancel function, or is cancelled at once.         *)
LEMMA SetCancelStep ==
    ASSUME FlightInv, NEW b \in Builds, SetCancel(b)
    PROVE  FlightInv'
<1> USE SymbolGraphFlightAssumption DEF FlightInv
<1>0. leader[b] \in Flights
  BY DEF TypeOK, OneBuild, SetCancel
<1>a. waiters[leader[b]] \in Nat
  BY <1>0, CountedFinite DEF TypeOK
<1>1. TypeOK'
  BY <1>0, <1>a
  DEF TypeOK, Results, Unfinished, SetCancel, Proceed, callerVars
<1>2. WaitersCounted'
  <2>1. \A f \in Flights : Counted(f)' = Counted(f)
    BY <1>0, <1>a
  DEF TypeOK, Counted, FlightsHeld, SetCancel, Proceed, callerVars
  <2>2. QED
    BY <2>1, SameCount DEF SetCancel, Proceed, callerVars
<1>3. FlightsHeld'
  BY <1>0, <1>a
  DEF TypeOK, FlightsHeld, SetCancel, Proceed, callerVars
<1>4. OneBuild'
  BY <1>0, <1>a
  DEF TypeOK, Unfinished, Results, OneBuild, SetCancel, Proceed, callerVars
<1>5. NoAbandonedBuild'
  <2> SUFFICES ASSUME NEW d \in Builds, stage'[d] = "build", ~cancelled'[d]
               PROVE  \/ waiters[leader[d]] > 0
                      \/ \E c \in Callers : pc[c] = "last" /\ stopping[c] = d
    BY DEF NoAbandonedBuild, SetCancel, callerVars
  <2>1. CASE d = b
    <3>1. waiters[leader[b]] # 0
      BY <2>1 DEF TypeOK, SetCancel
    <3>2. QED
      BY <3>1, <2>1, <1>a
  <2>2. CASE d # b
    BY <2>2 DEF TypeOK, NoAbandonedBuild, SetCancel, Proceed
  <2>3. QED
    BY <2>1, <2>2
<1>6. FlightsForgotten'
  BY <1>0, <1>a
  DEF TypeOK, FlightsHeld, FlightsForgotten, SetCancel, Proceed, callerVars
<1>7. QED
  BY <1>1, <1>2, <1>3, <1>4, <1>5, <1>6

(* The build fails.                                                          *)
LEMMA BuildFailsStep ==
    ASSUME FlightInv, NEW b \in Builds, BuildFails(b)
    PROVE  FlightInv'
<1> USE SymbolGraphFlightAssumption DEF FlightInv
<1>1. TypeOK'
  BY DEF TypeOK, Results, Unfinished, BuildFails, Proceed, flightVars, callerVars
<1>2. WaitersCounted'
  <2>1. \A f \in Flights : Counted(f)' = Counted(f)
    BY DEF TypeOK, Counted, FlightsHeld, BuildFails, Proceed, flightVars, callerVars
  <2>2. QED
    BY <2>1, SameCount DEF BuildFails, Proceed, flightVars, callerVars
<1>3. FlightsHeld'
  BY DEF TypeOK, FlightsHeld, BuildFails, Proceed, flightVars, callerVars
<1>4. OneBuild'
  BY DEF TypeOK, Unfinished, Results, OneBuild, BuildFails, Proceed, flightVars, callerVars
<1>5. NoAbandonedBuild'
  BY DEF TypeOK, Unfinished, Results, OneBuild, FlightsHeld, NoAbandonedBuild, BuildFails,
      Proceed, flightVars, callerVars
<1>6. FlightsForgotten'
  BY DEF TypeOK, FlightsHeld, FlightsForgotten, BuildFails, Proceed, flightVars, callerVars
<1>7. QED
  BY <1>1, <1>2, <1>3, <1>4, <1>5, <1>6

(* The call graph is there.                                                  *)
LEMMA CallGraphDoneStep ==
    ASSUME FlightInv, NEW b \in Builds, CallGraphDone(b)
    PROVE  FlightInv'
<1> USE SymbolGraphFlightAssumption DEF FlightInv
<1>1. TypeOK'
  BY DEF TypeOK, Results, Unfinished, CallGraphDone, Proceed, flightVars, callerVars
<1>2. WaitersCounted'
  <2>1. \A f \in Flights : Counted(f)' = Counted(f)
    BY DEF TypeOK, Counted, FlightsHeld, CallGraphDone, Proceed, flightVars, callerVars
  <2>2. QED
    BY <2>1, SameCount DEF CallGraphDone, Proceed, flightVars, callerVars
<1>3. FlightsHeld'
  BY DEF TypeOK, FlightsHeld, CallGraphDone, Proceed, flightVars, callerVars
<1>4. OneBuild'
  BY DEF TypeOK, Unfinished, Results, OneBuild, CallGraphDone, Proceed, flightVars,
      callerVars
<1>5. NoAbandonedBuild'
  BY DEF TypeOK, Unfinished, Results, OneBuild, FlightsHeld, NoAbandonedBuild,
      CallGraphDone, Proceed, flightVars, callerVars
<1>6. FlightsForgotten'
  BY DEF TypeOK, FlightsHeld, FlightsForgotten, CallGraphDone, Proceed, flightVars,
      callerVars
<1>7. QED
  BY <1>1, <1>2, <1>3, <1>4, <1>5, <1>6

(* The graph is stored.                                                      *)
LEMMA StoreStep ==
    ASSUME FlightInv, NEW b \in Builds, Store(b)
    PROVE  FlightInv'
<1> USE SymbolGraphFlightAssumption DEF FlightInv
<1>1. TypeOK'
  BY DEF TypeOK, Results, Unfinished, Store, Proceed, flightVars, callerVars
<1>2. WaitersCounted'
  <2>1. \A f \in Flights : Counted(f)' = Counted(f)
    BY DEF TypeOK, Counted, FlightsHeld, Store, Proceed, flightVars, callerVars
  <2>2. QED
    BY <2>1, SameCount DEF Store, Proceed, flightVars, callerVars
<1>3. FlightsHeld'
  BY DEF TypeOK, FlightsHeld, Store, Proceed, flightVars, callerVars
<1>4. OneBuild'
  BY DEF TypeOK, Unfinished, Results, OneBuild, Store, Proceed, flightVars, callerVars
<1>5. NoAbandonedBuild'
  BY DEF TypeOK, Unfinished, Results, OneBuild, FlightsHeld, NoAbandonedBuild, Store,
      Proceed, flightVars, callerVars
<1>6. FlightsForgotten'
  BY DEF TypeOK, FlightsHeld, FlightsForgotten, Store, Proceed, flightVars, callerVars
<1>7. QED
  BY <1>1, <1>2, <1>3, <1>4, <1>5, <1>6

(* The result is sent, and the build forgotten.                              *)
LEMMA DeliverStep ==
    ASSUME FlightInv, NEW b \in Builds, Deliver(b)
    PROVE  FlightInv'
<1> USE SymbolGraphFlightAssumption DEF FlightInv
<1>1. TypeOK'
  BY DEF TypeOK, Results, Unfinished, Deliver, Without, Proceed
<1>2. WaitersCounted'
  <2>1. \A f \in Flights : Counted(f)' = Counted(f)
    BY DEF TypeOK, Counted, FlightsHeld, Deliver, Without, Proceed
  <2>2. QED
    BY <2>1, SameCount DEF Deliver, Without, Proceed
<1>3. FlightsHeld'
  BY DEF TypeOK, FlightsHeld, Deliver, Without, Proceed
<1>4. OneBuild'
  BY DEF TypeOK, Unfinished, Results, OneBuild, Deliver, Without, Proceed
<1>5. NoAbandonedBuild'
  BY DEF TypeOK, Unfinished, Results, OneBuild, FlightsHeld, NoAbandonedBuild, Deliver,
      Without, Proceed
<1>6. FlightsForgotten'
  BY DEF TypeOK, FlightsHeld, FlightsForgotten, Deliver, Without, Proceed
<1>7. QED
  BY <1>1, <1>2, <1>3, <1>4, <1>5, <1>6

(* The cache is flushed.                                                     *)
LEMMA FlushStep ==
    ASSUME FlightInv, Flush
    PROVE  FlightInv'
<1> USE SymbolGraphFlightAssumption DEF FlightInv
<1>1. TypeOK'
  BY DEF TypeOK, Results, Unfinished, Flush, flightVars, buildVars, callerVars
<1>2. WaitersCounted'
  <2>1. \A f \in Flights : Counted(f)' = Counted(f)
    BY DEF TypeOK, Counted, FlightsHeld, Flush, flightVars, buildVars, callerVars
  <2>2. QED
    BY <2>1, SameCount DEF Flush, flightVars, buildVars, callerVars
<1>3. FlightsHeld'
  BY DEF TypeOK, FlightsHeld, Flush, flightVars, buildVars, callerVars
<1>4. OneBuild'
  BY DEF TypeOK, Unfinished, Results, OneBuild, Flush, flightVars, buildVars, callerVars
<1>5. NoAbandonedBuild'
  BY DEF TypeOK, Unfinished, Results, OneBuild, FlightsHeld, NoAbandonedBuild, Flush,
      flightVars, buildVars, callerVars
<1>6. FlightsForgotten'
  BY DEF TypeOK, FlightsHeld, FlightsForgotten, Flush, flightVars, buildVars, callerVars
<1>7. QED
  BY <1>1, <1>2, <1>3, <1>4, <1>5, <1>6

(* Nothing changes.                                                          *)
LEMMA StandStillStep ==
    ASSUME FlightInv, UNCHANGED vars
    PROVE  FlightInv'
<1> USE SymbolGraphFlightAssumption DEF FlightInv
<1>1. TypeOK'
  BY DEF TypeOK, Results, Unfinished, vars
<1>2. WaitersCounted'
  <2>1. \A f \in Flights : Counted(f)' = Counted(f)
    BY DEF TypeOK, Counted, FlightsHeld, vars
  <2>2. QED
    BY <2>1, SameCount DEF vars
<1>3. FlightsHeld'
  BY DEF TypeOK, FlightsHeld, vars
<1>4. OneBuild'
  BY DEF TypeOK, Unfinished, Results, OneBuild, vars
<1>5. NoAbandonedBuild'
  BY DEF TypeOK, Unfinished, Results, OneBuild, FlightsHeld, NoAbandonedBuild, vars
<1>6. FlightsForgotten'
  BY DEF TypeOK, FlightsHeld, FlightsForgotten, vars
<1>7. QED
  BY <1>1, <1>2, <1>3, <1>4, <1>5, <1>6

(* Every step keeps the invariant.                                           *)
LEMMA NextFlightInv == FlightInv /\ [Next]_vars => FlightInv'
<1> SUFFICES ASSUME FlightInv, [Next]_vars PROVE FlightInv'
  OBVIOUS
<1>1. ASSUME NEW c \in Callers, Miss(c) \/ CallerStep(c) PROVE FlightInv'
  <2>1. CASE Receive(c)
    <3>1. ch[c] \in Results /\ pc[c] = "wait"
      BY <2>1 DEF Receive, FlightInv, TypeOK
    <3>2. QED
      BY <2>1, <3>1, StopWaitingStep DEF Receive
  <2>2. CASE Timeout(c)
    BY <2>2, StopWaitingStep DEF Timeout
  <2>3. QED
    BY <1>1, <2>1, <2>2, MissStep, FindFlightStep, JoinStep, DoChanStep, LeaveStep,
       CancelBuildStep, ForgetStep
    DEF CallerStep
<1>2. ASSUME NEW b \in Builds, BuildStep(b) PROVE FlightInv'
  BY <1>2, RecheckStep, SetCancelStep, BuildFailsStep, CallGraphDoneStep, StoreStep,
     DeliverStep
  DEF BuildStep
<1>3. QED
  BY <1>1, <1>2, FlushStep, StandStillStep DEF Next

(* In every reachable state the flights' counters are the callers in them,   *)
(* and the one build that runs can be cancelled through its flight.          *)
THEOREM FlightInvariant == Spec => []FlightInv
BY InitFlightInv, NextFlightInv, PTL DEF Spec

(* A build that nobody waits for never runs on uncancelled.                  *)
THEOREM BuildsNotAbandoned == Spec => []NoAbandonedBuild
BY FlightInvariant, PTL DEF FlightInv

(* sgFlights does not grow: a flight is there only while a caller uses it.   *)
THEOREM FlightsAreForgotten == Spec => []FlightsForgotten
BY FlightInvariant, PTL DEF FlightInv

==============================================================================
