-------------------------------- MODULE Racer --------------------------------
(***************************************************************************)
(* Racer of analyzer/racer.go: a call of Race runs all analyzers at once   *)
(* and returns the first result that is good enough; the others go on and  *)
(* improve the cached result behind its back, or are cancelled             *)
(* (interactive).  Calls share the cache, and Invalidate clears it.        *)
(***************************************************************************)
EXTENDS Integers, Sequences, FiniteSets

CONSTANTS
    Races,       \* calls of Race in progress at a time
    Attempts,    \* the analyzers
    Quality,     \* how good each analyzer is
    Thresholds,  \* the minimal qualities a racer may be made with
    None

ASSUME RacerAssumption ==
    /\ IsFiniteSet(Attempts)
    /\ None \notin Attempts /\ None \notin [by : Attempts, current : BOOLEAN]
    /\ Quality \in [Attempts -> Nat]
    /\ Thresholds \subseteq Nat

VARIABLES
    racer,    \* what the racer was made with
    cache,    \* the cached result, or None
    race      \* the calls: where each is, and its variables

vars == <<racer, cache, race>>

(* A result is known by its analyzer; "current" says that its race began     *)
(* after the last Invalidate.                                                *)
Cached == [by : Attempts, current : BOOLEAN]
Sent == [by : Attempts, out : {"value", "nothing"}]
Answers == [kind : {"value", "cached", "degraded", "unqualified", "empty", "ended"},
            by : Attempts \cup {None}, current : BOOLEAN]

(* running: analyzers at work; sent: what they have sent into the channel,   *)
(* of which the first "read" have been received; ended: the caller's context *)
(* is done; best: bestDegraded.                                              *)
Calls == [at : {"idle", "waiting", "draining", "over"}, running : SUBSET Attempts,
          sent : Seq(Sent), read : Nat, best : Attempts \cup {None},
          current : BOOLEAN, ended : BOOLEAN, answer : Answers \cup {None}]

Idle == [at |-> "idle", running |-> {}, sent |-> <<>>, read |-> 0, best |-> None,
         current |-> TRUE, ended |-> FALSE, answer |-> None]

TypeOK ==
    /\ racer \in [interactive : BOOLEAN, min : Thresholds]
    /\ cache \in Cached \cup {None}
    /\ race \in [Races -> Calls]

Init ==
    /\ racer \in [interactive : BOOLEAN, min : Thresholds]
    /\ cache = None
    /\ race = [r \in Races |-> Idle]

At(r, place) == race[r].at = place
Becomes(r, call) == race' = [race EXCEPT ![r] = call] /\ UNCHANGED racer
Remaining(r) == Cardinality(Attempts) - race[r].read

Answer(r, kind, a) == [kind |-> kind, by |-> a, current |-> race[r].current]
Returns(r, kind, a) == [race[r] EXCEPT !.at = "over", !.answer = Answer(r, kind, a)]

(* Nobody reads the channel any more.                                        *)
Leaves(r, answer) == [Idle EXCEPT !.at = "over", !.running = race[r].running,
                                  !.current = race[r].current, !.answer = answer]

------------------------------------------------------------------------------

CacheHit(r) ==
    /\ At(r, "idle") /\ cache # None
    /\ Becomes(r, [Idle EXCEPT !.at = "over", !.answer =
                     [kind |-> "cached", by |-> cache.by, current |-> cache.current]])
    /\ UNCHANGED cache

Start(r) ==
    /\ At(r, "idle") /\ cache = None
    /\ Becomes(r, [Idle EXCEPT !.at = "waiting", !.running = Attempts])
    /\ UNCHANGED cache

(* An analyzer ends, with an error or an empty result ("nothing") or not;    *)
(* the channel has room for all.                                             *)
Finish(r, a, out) ==
    /\ a \in race[r].running
    /\ Becomes(r, [race[r] EXCEPT !.running = @ \ {a},
                     !.sent = IF At(r, "over") THEN @
                              ELSE Append(@, [by |-> a, out |-> out])])
    /\ UNCHANGED cache

(* The caller's deadline passes, or it cancels.                              *)
EndContext(r) ==
    /\ race[r].at \in {"waiting", "draining"} /\ ~race[r].ended
    /\ Becomes(r, [race[r] EXCEPT !.ended = TRUE])
    /\ UNCHANGED cache

Arrived(r) == race[r].read < Len(race[r].sent)
NextResult(r) == race[r].sent[race[r].read + 1]
Received(r) == [race[r] EXCEPT !.read = @ + 1]

Qualified(res) == res.out = "value" /\ Quality[res.by] >= racer.min

(* Mutation: the last result below the threshold is kept, not the best.      *)
BetterLast(a, b) == TRUE
Better(a, b) == b = None \/ Quality[a] > Quality[b]

Reject(r) ==
    /\ At(r, "waiting") /\ Arrived(r) /\ ~Qualified(NextResult(r))
    /\ LET res == NextResult(r)
           best == race[r].best
       IN  Becomes(r, [Received(r) EXCEPT !.best =
                         IF res.out = "value" /\ Better(res.by, best) THEN res.by ELSE best])
    /\ UNCHANGED cache

(* The first good result is cached, whatever the cache holds by now.         *)
Win(r) ==
    /\ At(r, "waiting") /\ Arrived(r) /\ Qualified(NextResult(r))
    /\ LET a == NextResult(r).by
       IN  /\ cache' = [by |-> a, current |-> race[r].current]
           /\ Becomes(r, IF racer.interactive THEN Leaves(r, Answer(r, "value", a))
                         ELSE [Received(r) EXCEPT !.at = "draining",
                                                  !.answer = Answer(r, "value", a)])

(* Nothing good has come from any analyzer.                                  *)
(* Mutation: the loop waits for one result more than there are.              *)
AllHeardLate(r) == Remaining(r) < 0
AllHeard(r) == Remaining(r) = 0

GiveUp(r) ==
    /\ At(r, "waiting") /\ AllHeard(r)
    /\ Becomes(r, IF race[r].best # None THEN Returns(r, "degraded", race[r].best)
                  ELSE Returns(r, IF racer.min > 0 THEN "unqualified" ELSE "empty", None))
    /\ UNCHANGED cache

CtxDone(r) ==
    /\ At(r, "waiting") /\ race[r].ended /\ ~AllHeard(r)
    /\ Becomes(r, Leaves(r, Answer(r, "ended", None)))
    /\ UNCHANGED cache

(* Mutation: the background goroutine stores whatever comes.                 *)
UpgradesAny(res) == res.out = "value"
Upgrades(res) ==
    res.out = "value" /\ (cache = None \/ Quality[res.by] > Quality[cache.by])

(* The goroutine left behind by a winner.                                    *)
Drain(r) ==
    /\ At(r, "draining") /\ Arrived(r)
    /\ Becomes(r, Received(r))
    /\ cache' = IF Upgrades(NextResult(r))
                THEN [by |-> NextResult(r).by, current |-> race[r].current] ELSE cache

DrainEnds(r) ==
    /\ At(r, "draining") /\ (Remaining(r) = 0 \/ race[r].ended)
    /\ Becomes(r, Leaves(r, race[r].answer))
    /\ UNCHANGED cache

(* The last goroutine of a call is gone.                                     *)
Gone(r) ==
    /\ At(r, "over") /\ race[r].running = {}
    /\ Becomes(r, Idle)
    /\ UNCHANGED cache

Invalidate ==
    /\ cache' = None
    /\ race' = [r \in Races |-> IF At(r, "idle") THEN race[r]
                                ELSE [race[r] EXCEPT !.current = FALSE]]
    /\ UNCHANGED racer

(* The calls' own steps.                                                     *)
Step(r) ==
    \/ Reject(r) \/ Win(r) \/ GiveUp(r) \/ CtxDone(r)
    \/ Drain(r) \/ DrainEnds(r) \/ Gone(r)

Next ==
    \/ \E r \in Races : CacheHit(r) \/ Start(r) \/ EndContext(r) \/ Step(r)
    \/ \E r \in Races, a \in Attempts, out \in {"value", "nothing"} : Finish(r, a, out)
    \/ Invalidate

Spec == Init /\ [][Next]_vars

(* Goroutines run, and every analyzer has a timeout (analyzerTimeout): a     *)
(* call in which something can happen goes on.                               *)
Work(r) == Step(r) \/ \E a \in Attempts, out \in {"value", "nothing"} : Finish(r, a, out)

Fairness == \A r \in Races : WF_vars(Work(r))

FairSpec == Spec /\ Fairness

------------------------------------------------------------------------------

(* The analyzers of the first n results that are not empty.                  *)
Results(c, n) == {c.sent[i].by : i \in {j \in 1..n : c.sent[j].out = "value"}}
Values(c) == Results(c, Len(c.sent))
GoodEnough(a) == Quality[a] >= racer.min

(* As long as nobody invalidates, what is served without a warning is good   *)
(* enough, and so is what is cached, although the goroutine a winner leaves  *)
(* behind stores results without looking at the threshold: it has a better   *)
(* one to beat.                                                              *)
Served(c) ==
    c.answer # None /\ c.answer.kind \in {"value", "cached"} /\ c.answer.current
        => GoodEnough(c.answer.by)

ServedQualified ==
    /\ cache # None /\ cache.current => GoodEnough(cache.by)
    /\ \A r \in Races : Served(race[r])

(* A race gives a degraded result only when all analyzers have ended and     *)
(* none had a good one, and then it is the best there is; it gives nothing   *)
(* only when there is nothing.                                               *)
Degraded(c) ==
    c.answer # None =>
        /\ c.answer.kind = "degraded" =>
             /\ c.running = {} /\ c.answer.by \in Values(c)
             /\ \A a \in Values(c) : ~GoodEnough(a) /\ Quality[a] <= Quality[c.answer.by]
        /\ c.answer.kind \in {"unqualified", "empty"} => c.running = {} /\ Values(c) = {}

DegradedIsBest == \A r \in Races : Degraded(race[r])

(* Between two invalidations the cached result gets worse in one case only:  *)
(* another race, begun before there was any, stores its first good result.   *)
OnlyWinnersDowngrade ==
    [][cache # None /\ cache' # None /\ Quality[cache'.by] < Quality[cache.by] =>
          \E w \in Races : At(w, "waiting") /\ race'[w].at # "waiting"
                            /\ GoodEnough(cache'.by)]_vars

(* Every call returns and leaves no goroutine behind, whatever its analyzers *)
(* find, if each ends in the end.                                            *)
RacesEnd == \A r \in Races : race[r].at # "idle" ~> race[r].at = "idle"

------------------------------------------------------------------------------
(* The inductive invariant behind the first two.                           *)

(* Every analyzer is at work or has sent its result, and so many of the      *)
(* results have been received.                                               *)
AllAccounted(c) ==
    c.at \in {"waiting", "draining"} =>
        /\ Len(c.sent) + Cardinality(c.running) = Cardinality(Attempts)
        /\ c.read <= Len(c.sent)

(* What has been received while waiting was not good enough, and the best of *)
(* it has been kept.                                                         *)
BestKept(c) ==
    c.at = "waiting" =>
        /\ \A a \in Results(c, c.read) :
              ~GoodEnough(a) /\ c.best # None /\ Quality[a] <= Quality[c.best]
        /\ c.best # None => c.best \in Results(c, c.read)

(* As long as nobody invalidates, a winner's goroutine has a good result to  *)
(* beat.                                                                     *)
GoodToBeat(c) ==
    c.at = "draining" /\ c.current => cache # None /\ GoodEnough(cache.by)

(* Only a call that has given a value leaves a goroutine behind.             *)
AnswerFits(c) ==
    /\ c.at = "waiting" => c.answer = None
    /\ c.at = "draining" => c.answer \in Answers /\ c.answer.kind = "value"

(* A call and what it knows.                                                 *)
CallOK(c) ==
    /\ AllAccounted(c) /\ BestKept(c) /\ GoodToBeat(c) /\ AnswerFits(c)
    /\ Served(c) /\ Degraded(c)

RaceInv ==
    /\ TypeOK
    /\ cache # None /\ cache.current => GoodEnough(cache.by)
    /\ \A r \in Races : CallOK(race[r])
==============================================================================
