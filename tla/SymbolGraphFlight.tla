-------------------------- MODULE SymbolGraphFlight --------------------------
(***************************************************************************)
(* GetSymbolGraph (engine/protocol.go) for one project at one HEAD.        *)
(* Callers that miss the in-process cache share one build: singleflight    *)
(* runs it once, and a "flight" object per key counts the callers that     *)
(* still want it, so that the last one to leave can cancel it.  The        *)
(* counter, the map of flights and the singleflight group have a lock each *)
(* and no common one.                                                      *)
(***************************************************************************)
EXTENDS Naturals, FiniteSets, TLC

CONSTANTS
    Callers,    \* calls of GetSymbolGraph in progress at a time
    Flights,    \* sgFlight objects, reused once nobody refers to them
    Builds,     \* singleflight calls, reused once they have ended
    NoFlight, NoBuild

ASSUME SymbolGraphFlightAssumption ==
    /\ NoFlight \notin Flights /\ NoBuild \notin Builds
    /\ IsFiniteSet(Callers)

VARIABLES
    cached,     \* sgEntries has the graph
    registered, \* the flight in sgFlights
    waiters,    \* sgFlight.waiters
    cancel,     \* sgFlight.cancel: the build it cancels
    running,    \* the call in the singleflight group
    stage,      \* how far each build is
    leader,     \* the flight that the function of a build has captured
    cancelled,  \* its context is cancelled
    pc,         \* where each caller is
    flight,     \* its flight
    waitsFor,   \* the build whose result will arrive on its channel
    ch,         \* that channel
    got,        \* what GetSymbolGraph is about to return
    stopping    \* the cancel function the caller has read

callerVars == <<pc, flight, waitsFor, ch, got, stopping>>
buildVars == <<running, stage, leader, cancelled>>
flightVars == <<registered, waiters, cancel>>
vars == <<cached, registered, waiters, cancel, running, stage, leader, cancelled,
          pc, flight, waitsFor, ch, got, stopping>>

Results == {"graph", "failed", "aborted"}
Unfinished == {"new", "bind", "build", "merge"} \cup Results

TypeOK ==
    /\ cached \in BOOLEAN
    /\ registered \in Flights \cup {NoFlight}
    /\ waiters \in [Flights -> 0..Cardinality(Callers)]
    /\ cancel \in [Flights -> Builds \cup {NoBuild}]
    /\ running \in Builds \cup {NoBuild}
    /\ stage \in [Builds -> Unfinished \cup {"free"}]
    /\ leader \in [Builds -> Flights \cup {NoFlight}]
    /\ cancelled \in [Builds -> BOOLEAN]
    /\ pc \in [Callers -> {"idle", "missed", "found", "joined", "wait", "leave", "last", "forget"}]
    /\ flight \in [Callers -> Flights \cup {NoFlight}]
    /\ waitsFor \in [Callers -> Builds \cup {NoBuild}]
    /\ ch \in [Callers -> Results \cup {"empty"}]
    /\ got \in [Callers -> Results \cup {"nothing", "timeout"}]
    /\ stopping \in [Callers -> Builds \cup {NoBuild}]

Init ==
    /\ cached = FALSE
    /\ registered = NoFlight
    /\ waiters = [f \in Flights |-> 0]
    /\ cancel = [f \in Flights |-> NoBuild]
    /\ running = NoBuild
    /\ stage = [b \in Builds |-> "free"]
    /\ leader = [b \in Builds |-> NoFlight]
    /\ cancelled = [b \in Builds |-> FALSE]
    /\ pc = [c \in Callers |-> "idle"]
    /\ flight = [c \in Callers |-> NoFlight]
    /\ waitsFor = [c \in Callers |-> NoBuild]
    /\ ch = [c \in Callers |-> "empty"]
    /\ got = [c \in Callers |-> "nothing"]
    /\ stopping = [c \in Callers |-> NoBuild]

Goto(c, next) == pc' = [pc EXCEPT ![c] = next]

(* A flight nobody refers to has been collected.                             *)
InUse(f) ==
    \/ f = registered
    \/ \E c \in Callers : flight[c] = f
    \/ \E b \in Builds : leader[b] = f

------------------------------------------------------------------------------
(* A caller.                                                               *)

(* sgLoad finds nothing; when it finds the graph the call returns at once.   *)
Miss(c) ==
    /\ pc[c] = "idle" /\ ~cached
    /\ Goto(c, "missed")
    /\ UNCHANGED <<cached, flightVars, buildVars, flight, waitsFor, ch, got, stopping>>

NoWaiters == 0

(* sgFlightJoin: LoadOrStore, then waiters++ under the flight's lock.        *)
FindFlight(c) ==
    /\ pc[c] = "missed"
    /\ IF registered # NoFlight
       THEN /\ flight' = [flight EXCEPT ![c] = registered]
            /\ UNCHANGED flightVars
       ELSE \E f \in Flights :
              /\ ~InUse(f)
              /\ flight' = [flight EXCEPT ![c] = f]
              /\ registered' = f
              /\ waiters' = [waiters EXCEPT ![f] = NoWaiters]
              /\ cancel' = [cancel EXCEPT ![f] = NoBuild]
    /\ Goto(c, "found")
    /\ UNCHANGED <<cached, buildVars, waitsFor, ch, got, stopping>>

Join(c) ==
    /\ pc[c] = "found"
    /\ waiters' = [waiters EXCEPT ![flight[c]] = @ + 1]
    /\ Goto(c, "joined")
    /\ UNCHANGED <<cached, registered, cancel, buildVars, flight, waitsFor, ch, got, stopping>>

(* singleflight: the first caller starts the call, the others attach to it.  *)
DoChan(c) ==
    /\ pc[c] = "joined"
    /\ IF running # NoBuild
       THEN /\ waitsFor' = [waitsFor EXCEPT ![c] = running]
            /\ UNCHANGED buildVars
       ELSE \E b \in Builds :
              /\ stage[b] = "free"
              /\ waitsFor' = [waitsFor EXCEPT ![c] = b]
              /\ running' = b
              /\ stage' = [stage EXCEPT ![b] = "new"]
              /\ leader' = [leader EXCEPT ![b] = flight[c]]
              /\ cancelled' = [cancelled EXCEPT ![b] = FALSE]
    /\ Goto(c, "wait")
    /\ UNCHANGED <<cached, flightVars, flight, ch, got, stopping>>

StopWaiting(c, result) ==
    /\ got' = [got EXCEPT ![c] = result]
    /\ waitsFor' = [waitsFor EXCEPT ![c] = NoBuild]
    /\ ch' = [ch EXCEPT ![c] = "empty"]
    /\ Goto(c, "leave")
    /\ UNCHANGED <<cached, flightVars, buildVars, flight, stopping>>

Receive(c) ==
    /\ pc[c] = "wait" /\ ch[c] # "empty"
    /\ StopWaiting(c, ch[c])

(* Every call has a deadline: its caller's, or DefaultMeshTimeout.           *)
Timeout(c) ==
    /\ pc[c] = "wait"
    /\ StopWaiting(c, "timeout")

(* sgFlightLeave: waiters-- and the look at cancel are one critical section, *)
(* the call of cancel and CompareAndDelete are not.                          *)
Depart(c) ==
    /\ flight' = [flight EXCEPT ![c] = NoFlight]
    /\ got' = [got EXCEPT ![c] = "nothing"]
    /\ stopping' = [stopping EXCEPT ![c] = NoBuild]
    /\ Goto(c, "idle")

(* Mutation: the counter is compared before it is decremented.               *)
LastBefore(f) == waiters[f] = 0
LastOf(f) == waiters[f] = 1

Leave(c) ==
    /\ pc[c] = "leave"
    /\ waiters' = [waiters EXCEPT ![flight[c]] = @ - 1]
    /\ IF LastOf(flight[c])
       THEN /\ stopping' = [stopping EXCEPT ![c] = cancel[flight[c]]]
            /\ Goto(c, "last")
            /\ UNCHANGED <<flight, got>>
       ELSE Depart(c)
    /\ UNCHANGED <<cached, registered, cancel, buildVars, waitsFor, ch>>

CancelBuild(c) ==
    /\ pc[c] = "last"
    /\ cancelled' = [b \in Builds |-> cancelled[b] \/ b = stopping[c]]
    /\ stopping' = [stopping EXCEPT ![c] = NoBuild]
    /\ Goto(c, "forget")
    /\ UNCHANGED <<cached, flightVars, running, stage, leader, flight, waitsFor, ch, got>>

Forget(c) ==
    /\ pc[c] = "forget"
    /\ registered' = IF registered = flight[c] THEN NoFlight ELSE registered
    /\ Depart(c)
    /\ UNCHANGED <<cached, waiters, cancel, buildVars, waitsFor, ch>>

------------------------------------------------------------------------------
(* The build, in the goroutine of singleflight.                            *)

Proceed(b, next) == stage' = [stage EXCEPT ![b] = next]

(* The second look at the cache.                                             *)
Recheck(b) ==
    /\ stage[b] = "new"
    /\ Proceed(b, IF cached THEN "graph" ELSE "bind")
    /\ UNCHANGED <<cached, flightVars, running, leader, cancelled, callerVars>>

(* Mutation: setCancel does not ask whether anybody still waits.             *)
BindOnly(b) ==
    /\ stage[b] = "bind"
    /\ cancel' = [cancel EXCEPT ![leader[b]] = b]
    /\ Proceed(b, "build")
    /\ UNCHANGED <<cached, registered, waiters, running, leader, cancelled, callerVars>>

SetCancel(b) ==
    /\ stage[b] = "bind"
    /\ cancel' = [cancel EXCEPT ![leader[b]] = b]
    /\ cancelled' = [cancelled EXCEPT ![b] = waiters[leader[b]] = 0]
    /\ Proceed(b, "build")
    /\ UNCHANGED <<cached, registered, waiters, running, leader, callerVars>>

(* The call graph fails, or the build's own timeout expires.                 *)
BuildFails(b) ==
    /\ stage[b] = "build"
    /\ Proceed(b, "failed")
    /\ UNCHANGED <<cached, flightVars, running, leader, cancelled, callerVars>>

(* The context is looked at last when the call graph is there.               *)
CallGraphDone(b) ==
    /\ stage[b] = "build"
    /\ Proceed(b, IF cancelled[b] THEN "aborted" ELSE "merge")
    /\ UNCHANGED <<cached, flightVars, running, leader, cancelled, callerVars>>

Store(b) ==
    /\ stage[b] = "merge"
    /\ cached' = TRUE
    /\ Proceed(b, "graph")
    /\ UNCHANGED <<flightVars, running, leader, cancelled, callerVars>>

Without(fn, b) == [x \in DOMAIN fn |-> IF fn[x] = b THEN NoBuild ELSE fn[x]]

(* singleflight forgets the call and sends the result to everyone attached.  *)
(* The function has cancelled its own context on the way out: cancelling it  *)
(* once more does nothing, so the references to it are dropped.              *)
Deliver(b) ==
    /\ stage[b] \in Results
    /\ running' = NoBuild
    /\ ch' = [c \in Callers |-> IF waitsFor[c] = b THEN stage[b] ELSE ch[c]]
    /\ waitsFor' = Without(waitsFor, b)
    /\ cancel' = Without(cancel, b)
    /\ stopping' = Without(stopping, b)
    /\ leader' = [leader EXCEPT ![b] = NoFlight]
    /\ cancelled' = [cancelled EXCEPT ![b] = FALSE]
    /\ Proceed(b, "free")
    /\ UNCHANGED <<cached, registered, waiters, pc, flight, got>>

(* SGCacheFlush (by MarkDirty or a rescan), or the entry's TTL.              *)
Flush ==
    /\ cached
    /\ cached' = FALSE
    /\ UNCHANGED <<flightVars, buildVars, callerVars>>

------------------------------------------------------------------------------

CallerStep(c) ==
    \/ FindFlight(c) \/ Join(c) \/ DoChan(c)
    \/ Receive(c) \/ Timeout(c)
    \/ Leave(c) \/ CancelBuild(c) \/ Forget(c)

BuildStep(b) ==
    \/ Recheck(b) \/ SetCancel(b) \/ BuildFails(b) \/ CallGraphDone(b)
    \/ Store(b) \/ Deliver(b)

Next ==
    \/ \E c \in Callers : Miss(c) \/ CallerStep(c)
    \/ \E b \in Builds : BuildStep(b)
    \/ Flush

Spec == Init /\ [][Next]_vars

------------------------------------------------------------------------------

(* The comment on sgFlights: a build nobody waits for is cancelled, so that  *)
(* an abandoned call graph does not keep allocating.  While a build runs     *)
(* uncancelled somebody counted in its flight still wants it, or the last    *)
(* one to leave is about to cancel it; whether its cancel function was       *)
(* registered before or after they left.                                     *)
NoAbandonedBuild ==
    \A b \in Builds :
        stage[b] = "build" /\ ~cancelled[b] =>
            \/ waiters[leader[b]] > 0
            \/ \E c \in Callers : pc[c] = "last" /\ stopping[c] = b

(* No flight stays in sgFlights once the callers that used it are gone.      *)
FlightsForgotten ==
    registered # NoFlight => \E c \in Callers : flight[c] = registered

(* The comment in GetSymbolGraph: one caller's cancel does not abort work    *)
(* other waiters still need.  So no step cancels a build while a caller is   *)
(* waiting for its result.                                                   *)
OthersKeepBuild ==
    [][\A b \in Builds, c \in Callers :
          ~cancelled[b] /\ cancelled'[b] => ~(pc[c] = "wait" /\ waitsFor[c] = b)]_vars

(* The inductive invariant behind the first two.                             *)

(* The counter of a flight is the number of callers between Join and Leave.  *)
Counted(f) == {c \in Callers : flight[c] = f /\ pc[c] \in {"joined", "wait", "leave"}}
WaitersCounted == \A f \in Flights : waiters[f] = Cardinality(Counted(f))

FlightsHeld ==
    \A c \in Callers :
        /\ flight[c] = NoFlight <=> pc[c] \in {"idle", "missed"}
        /\ stopping[c] # NoBuild => pc[c] = "last"

(* One build at a time, and its flight can cancel it.                        *)
OneBuild ==
    \A b \in Builds :
        /\ stage[b] # "free" <=> running = b
        /\ stage[b] # "free" <=> leader[b] # NoFlight
        /\ stage[b] = "build" => cancel[leader[b]] = b

FlightInv ==
    /\ TypeOK
    /\ WaitersCounted
    /\ FlightsHeld
    /\ OneBuild
    /\ NoAbandonedBuild
    /\ FlightsForgotten
------------------------------------------------------------------------------
(* For TLC.                                                                  *)

Symmetry == Permutations(Callers) \cup Permutations(Flights) \cup Permutations(Builds)
==============================================================================
