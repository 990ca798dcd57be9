---------------------------- MODULE AnalyzersProofs ----------------------------
(***************************************************************************)
(* Proofs about Racer, for any calls, analyzers, qualities and thresholds, *)
(* and about CallGraphWalk, for any program, roots and number of           *)
(* goroutines.                                                             *)
(*                                                                         *)
(* What one goroutine of a walk does changes one stack at its top; the     *)
(* lemmas about frames say what stays, those about stacks that no name is  *)
(* asked for twice, and those after them that nothing found is lost.       *)
(***************************************************************************)
EXTENDS Analyzers, FiniteSetTheorems, TLAPS

(* A new call has nothing to answer for.                                     *)
LEMMA IdleOK == Idle \in Calls /\ CallOK(Idle)
  BY RacerAssumption DEF Idle, Calls, CallOK, AllAccounted, BestKept, GoodToBeat,
     AnswerFits, Served, Degraded

LEMMA InitRaceInv == Init => RaceInv
  BY IdleOK, RacerAssumption DEF Init, RaceInv, TypeOK

(* What a call knows is about its own record, the threshold and the cache.   *)
LEMMA CallOKStays ==
  ASSUME UNCHANGED <<racer, cache>>, NEW d, CallOK(d)
  PROVE  CallOK(d)'
<1>1. \A a : GoodEnough(a)' = GoodEnough(a)
  BY DEF GoodEnough
<1>2. AllAccounted(d)' /\ AnswerFits(d)'
  BY DEF CallOK, AllAccounted, AnswerFits
<1>3. BestKept(d)'
  BY <1>1 DEF CallOK, BestKept, Results
<1>4. GoodToBeat(d)'
  BY <1>1 DEF CallOK, GoodToBeat
<1>5. Served(d)'
  BY <1>1 DEF CallOK, Served
<1>6. Degraded(d)'
  BY <1>1 DEF CallOK, Degraded, Values, Results
<1> QED
  BY <1>2, <1>3, <1>4, <1>5, <1>6 DEF CallOK

(* A step of one call that leaves the cache alone.                           *)
LEMMA OneCall ==
  ASSUME RaceInv, NEW r \in Races, NEW c \in Calls, Becomes(r, c), UNCHANGED cache,
         CallOK(c)
  PROVE  RaceInv'
<1>1. \A q \in Races : race'[q] = IF q = r THEN c ELSE race[q]
  BY DEF RaceInv, TypeOK, Becomes
<1>2. TypeOK'
  BY <1>1 DEF RaceInv, TypeOK, Becomes
<1>3. \A d : CallOK(d) => CallOK(d)'
  BY CallOKStays DEF Becomes
<1>4. \A q \in Races : CallOK(race'[q])
  BY <1>1 DEF RaceInv
<1> QED
  BY <1>2, <1>3, <1>4 DEF RaceInv, GoodEnough, Becomes

(* A step of one call that stores a result.                                  *)
LEMMA OneStore ==
  ASSUME RaceInv, NEW r \in Races, NEW c \in Calls, Becomes(r, c),
         NEW k \in Cached, cache' = k,
         k.current => GoodEnough(k.by),
         \A q \in Races \ {r} :
            race[q].at = "draining" /\ race[q].current => GoodEnough(k.by),
         c.at = "draining" /\ c.current => GoodEnough(k.by),
         AllAccounted(c), BestKept(c), AnswerFits(c), Served(c), Degraded(c)
  PROVE  RaceInv'
<1>1. \A q \in Races : race'[q] = IF q = r THEN c ELSE race[q]
  BY DEF RaceInv, TypeOK, Becomes
<1>2. TypeOK'
  BY <1>1 DEF RaceInv, TypeOK, Becomes
<1>3. k # None
  BY RacerAssumption DEF Cached
<1>4. \A q \in Races : GoodToBeat(race[q])'
  BY <1>1, <1>3 DEF GoodToBeat, GoodEnough, Becomes
<1>5. \A q \in Races : /\ AllAccounted(race[q])' /\ BestKept(race[q])'
                       /\ AnswerFits(race[q])' /\ Served(race[q])' /\ Degraded(race[q])'
  <2>1. \A q \in Races : /\ AllAccounted(race'[q]) /\ BestKept(race'[q])
                         /\ AnswerFits(race'[q]) /\ Served(race'[q]) /\ Degraded(race'[q])
    BY <1>1 DEF RaceInv, CallOK
  <2>2. \A a : GoodEnough(a)' = GoodEnough(a)
    BY DEF GoodEnough, Becomes
  <2>3. \A q \in Races : AllAccounted(race[q])' /\ AnswerFits(race[q])'
    BY <2>1 DEF AllAccounted, AnswerFits
  <2>4. \A q \in Races : BestKept(race[q])'
    BY <2>1, <2>2 DEF BestKept, Results
  <2>5. \A q \in Races : Served(race[q])'
    BY <2>1, <2>2 DEF Served
  <2>6. \A q \in Races : Degraded(race[q])'
    BY <2>1, <2>2 DEF Degraded, Values, Results
  <2> QED
    BY <2>3, <2>4, <2>5, <2>6
<1> QED
  BY <1>2, <1>4, <1>5 DEF RaceInv, CallOK, GoodEnough, Becomes

------------------------------------------------------------------------------

LEMMA FiniteAttempts ==
  /\ Cardinality(Attempts) \in Nat
  /\ \A S \in SUBSET Attempts : IsFiniteSet(S) /\ Cardinality(S) \in Nat
  BY RacerAssumption, FS_CardinalityType, FS_Subset

(* The fields of a call.                                                     *)
LEMMA CallFields ==
  ASSUME RaceInv, NEW r \in Races
  PROVE  /\ race[r] \in Calls /\ CallOK(race[r])
         /\ race[r].running \in SUBSET Attempts /\ race[r].sent \in Seq(Sent)
         /\ race[r].read \in Nat /\ race[r].best \in Attempts \cup {None}
         /\ race[r].current \in BOOLEAN /\ race[r].answer \in Answers \cup {None}
  BY DEF RaceInv, TypeOK, Calls

LEMMA CacheHitInv ==
  ASSUME RaceInv, NEW r \in Races, CacheHit(r) PROVE RaceInv'
<1> DEFINE c == [Idle EXCEPT !.at = "over", !.answer =
                   [kind |-> "cached", by |-> cache.by, current |-> cache.current]]
<1>1. cache \in Cached
  BY DEF CacheHit, RaceInv, TypeOK
<1>2. c \in Calls
  BY <1>1, IdleOK DEF Calls, Cached, Answers, Idle
<1>3. CallOK(c)
  BY <1>1, RacerAssumption DEF CallOK, AllAccounted, BestKept, GoodToBeat, AnswerFits,
     Served, Degraded,
     Idle, RaceInv, CacheHit
<1> QED
  BY <1>2, <1>3, OneCall DEF CacheHit

LEMMA StartInv ==
  ASSUME RaceInv, NEW r \in Races, Start(r) PROVE RaceInv'
<1> DEFINE c == [Idle EXCEPT !.at = "waiting", !.running = Attempts]
<1>1. c \in Calls
  BY IdleOK DEF Calls, Idle
<1>2. CallOK(c)
  BY FiniteAttempts DEF CallOK, AllAccounted, BestKept, GoodToBeat, AnswerFits, Served,
     Degraded,
     Idle, Results
<1> QED
  BY <1>1, <1>2, OneCall DEF Start

(* What has been received does not change when another result arrives.       *)
LEMMA FinishInv ==
  ASSUME RaceInv, NEW r \in Races, NEW a \in Attempts, NEW out \in {"value", "nothing"},
         Finish(r, a, out)
  PROVE  RaceInv'
<1> DEFINE s == race[r].sent
           m == [by |-> a, out |-> out]
           c == [race[r] EXCEPT !.running = @ \ {a},
                   !.sent = IF At(r, "over") THEN @ ELSE Append(@, m)]
<1>1. a \in race[r].running /\ race[r] \in Calls /\ CallOK(race[r])
  BY CallFields DEF Finish
<1>2. s \in Seq(Sent) /\ m \in Sent /\ Append(s, m) \in Seq(Sent)
  <2>1. s \in Seq(Sent)
    BY CallFields
  <2>2. m \in Sent
    BY DEF Sent
  <2> HIDE DEF s, m
  <2> QED
    BY <2>1, <2>2
<1>3. c \in Calls
  BY <1>1, <1>2 DEF Calls
<1>4. Cardinality(race[r].running \ {a}) = Cardinality(race[r].running) - 1
  BY <1>1, FiniteAttempts, FS_RemoveElement DEF Calls
<1>5. AllAccounted(c)
  BY <1>1, <1>2, <1>4, FiniteAttempts DEF CallOK, AllAccounted, Calls, At
<1>6. race[r].at = "waiting" => Results(c, c.read) = Results(race[r], race[r].read)
  <2> SUFFICES ASSUME race[r].at = "waiting"
               PROVE  Results(c, c.read) = Results(race[r], race[r].read)
    OBVIOUS
  <2>1. c.sent = Append(s, m) /\ c.read = race[r].read
    BY <1>1 DEF Calls, At
  <2>2. race[r].read \in Nat /\ race[r].read <= Len(s)
    BY <1>1 DEF CallOK, AllAccounted, Calls
  <2>3. \A i \in 1..race[r].read : Append(s, m)[i] = s[i]
    BY <1>2, <2>2
  <2>4. Results(c, c.read) = {Append(s, m)[i].by :
            i \in {j \in 1..race[r].read : Append(s, m)[j].out = "value"}}
    BY <2>1 DEF Results
  <2> HIDE DEF s, m, c
  <2>5. {j \in 1..race[r].read : Append(s, m)[j].out = "value"}
          = {j \in 1..race[r].read : s[j].out = "value"}
    BY <2>3
  <2>6. Results(c, c.read) = {s[i].by : i \in {j \in 1..race[r].read : s[j].out = "value"}}
    BY <2>3, <2>4, <2>5
  <2> QED
    BY <2>6 DEF Results, s
<1>7. BestKept(c)
  BY <1>1, <1>6 DEF CallOK, BestKept, Calls
<1>8. Degraded(c)
  <2>1. CASE race[r].answer = None
    BY <1>1, <2>1 DEF Degraded, Calls
  <2>2. CASE race[r].answer # None
    <3>1. c.answer.kind \notin {"degraded", "unqualified", "empty"}
      BY <1>1, <2>2 DEF CallOK, Degraded, Calls
    <3> QED
      BY <3>1 DEF Degraded
  <2> QED
    BY <2>1, <2>2
<1>9. GoodToBeat(c) /\ AnswerFits(c) /\ Served(c)
  BY <1>1 DEF CallOK, GoodToBeat, AnswerFits, Served, Calls
<1>10. CallOK(c)
  BY <1>5, <1>7, <1>8, <1>9 DEF CallOK
<1>11. Becomes(r, c) /\ UNCHANGED cache
  BY DEF Finish
<1> HIDE DEF c
<1> QED
  BY <1>3, <1>10, <1>11, OneCall

LEMMA EndContextInv ==
  ASSUME RaceInv, NEW r \in Races, EndContext(r) PROVE RaceInv'
<1> DEFINE c == [race[r] EXCEPT !.ended = TRUE]
<1>1. race[r] \in Calls /\ CallOK(race[r])
  BY CallFields
<1>2. c \in Calls
  BY <1>1 DEF Calls
<1>3. /\ c.at = race[r].at /\ c.running = race[r].running /\ c.sent = race[r].sent
      /\ c.read = race[r].read /\ c.best = race[r].best /\ c.current = race[r].current
      /\ c.answer = race[r].answer
  BY <1>1 DEF Calls
<1> HIDE DEF c
<1>4. Results(c, c.read) = Results(race[r], race[r].read) /\ Values(c) = Values(race[r])
  BY <1>3 DEF Results, Values
<1>5. CallOK(c)
  BY <1>1, <1>3, <1>4 DEF CallOK, AllAccounted, BestKept, GoodToBeat, AnswerFits, Served,
     Degraded
<1> QED
  BY <1>2, <1>5, OneCall DEF EndContext, c

(* A call that leaves has its answer to stand for, and no other duty.        *)
LEMMA LeavesOK ==
  ASSUME RaceInv, NEW r \in Races, NEW ans \in Answers \cup {None},
         ans # None => /\ ans.kind \notin {"degraded", "unqualified", "empty"}
                       /\ ans.kind = "value" /\ ans.current => GoodEnough(ans.by)
                       /\ ans.kind # "cached"
  PROVE  /\ Leaves(r, ans) \in Calls
         /\ \A v : v = Leaves(r, ans) => CallOK(v)
<1>1. Leaves(r, ans) \in Calls
  BY CallFields, IdleOK DEF Leaves, Calls, Idle
<1>2. ASSUME NEW v, v = Leaves(r, ans) PROVE CallOK(v)
  BY <1>2 DEF Leaves, Idle, CallOK, AllAccounted, BestKept, GoodToBeat, AnswerFits,
     Served, Degraded
<1> QED
  BY <1>1, <1>2

LEMMA CtxDoneInv ==
  ASSUME RaceInv, NEW r \in Races, CtxDone(r) PROVE RaceInv'
<1>1. Answer(r, "ended", None) \in Answers
  BY CallFields DEF Answer, Answers
<1>2. Answer(r, "ended", None).kind = "ended"
  BY DEF Answer
<1>3. /\ Leaves(r, Answer(r, "ended", None)) \in Calls
      /\ CallOK(Leaves(r, Answer(r, "ended", None)))
  BY <1>1, <1>2, LeavesOK
<1> QED
  BY <1>3, OneCall DEF CtxDone

(* A draining call has given a value.                                        *)
LEMMA DrainEndsInv ==
  ASSUME RaceInv, NEW r \in Races, DrainEnds(r) PROVE RaceInv'
<1> DEFINE ans == race[r].answer
<1>1. ans \in Answers \cup {None} /\ CallOK(race[r])
  BY CallFields
<1>2. Leaves(r, ans) \in Calls
  BY <1>1, CallFields, IdleOK DEF Leaves, Calls, Idle
<1>3. CallOK(Leaves(r, ans))
  BY <1>1 DEF Leaves, Idle, CallOK, AllAccounted, BestKept, GoodToBeat, AnswerFits,
     Served, Degraded,
     DrainEnds, At
<1> QED
  BY <1>2, <1>3, OneCall DEF DrainEnds

LEMMA GoneInv ==
  ASSUME RaceInv, NEW r \in Races, Gone(r) PROVE RaceInv'
  BY IdleOK, OneCall DEF Gone

------------------------------------------------------------------------------

(* One more result received.                                                 *)
LEMMA ResultsGrow ==
  ASSUME RaceInv, NEW r \in Races, Arrived(r)
  PROVE  /\ NextResult(r) \in Sent /\ race[r].read + 1 \in 1..Len(race[r].sent)
         /\ Results(race[r], race[r].read + 1) =
              Results(race[r], race[r].read)
                \cup (IF NextResult(r).out = "value" THEN {NextResult(r).by} ELSE {})
<1> DEFINE s == race[r].sent
           n == race[r].read
<1>1. s \in Seq(Sent) /\ n \in Nat /\ n < Len(s)
  BY CallFields DEF Arrived
<1>2. NextResult(r) = s[n + 1]
  BY DEF NextResult
<1>3. Results(race[r], n) = {s[i].by : i \in {j \in 1..n : s[j].out = "value"}}
  BY DEF Results
<1>4. Results(race[r], n + 1) = {s[i].by : i \in {j \in 1..n + 1 : s[j].out = "value"}}
  BY DEF Results
<1> HIDE DEF s, n
<1>5. {j \in 1..n + 1 : s[j].out = "value"} =
        {j \in 1..n : s[j].out = "value"}
          \cup (IF s[n + 1].out = "value" THEN {n + 1} ELSE {})
  BY <1>1
<1>6. Results(race[r], n + 1) = Results(race[r], n)
                                 \cup (IF s[n + 1].out = "value" THEN {s[n + 1].by} ELSE {})
  BY <1>3, <1>4, <1>5
<1>7. n + 1 \in 1..Len(s) /\ s[n + 1] \in Sent
  BY <1>1
<1> QED
  BY <1>2, <1>6, <1>7 DEF s, n

LEMMA ReceivedFields ==
  ASSUME RaceInv, NEW r \in Races
  PROVE  Received(r) \in Calls
<1>1. race[r] \in Calls /\ race[r].read + 1 \in Nat
  BY CallFields
<1> QED
  BY <1>1 DEF Received, Calls

LEMMA ResultsAreAnalyzers ==
  ASSUME RaceInv, NEW r \in Races, race[r].at = "waiting"
  PROVE  Results(race[r], race[r].read) \subseteq Attempts
<1> DEFINE s == race[r].sent
           n == race[r].read
<1>1. s \in Seq(Sent) /\ n \in Nat /\ n <= Len(s)
  BY CallFields DEF CallOK, AllAccounted
<1>2. Results(race[r], n) = {s[i].by : i \in {j \in 1..n : s[j].out = "value"}}
  BY DEF Results
<1> HIDE DEF s, n
<1>3. \A i \in 1..n : s[i] \in Sent
  BY <1>1
<1>4. \A i \in 1..n : s[i].by \in Attempts
  BY <1>3 DEF Sent
<1>5. Results(race[r], n) \subseteq Attempts
  BY <1>2, <1>4
<1> QED
  BY <1>5 DEF n

LEMMA RejectInv ==
  ASSUME RaceInv, NEW r \in Races, Reject(r) PROVE RaceInv'
<1> DEFINE res == NextResult(r)
           best == race[r].best
           new == IF res.out = "value" /\ Better(res.by, best) THEN res.by ELSE best
           c == [Received(r) EXCEPT !.best = new]
<1>1. race[r] \in Calls /\ CallOK(race[r]) /\ race[r].at = "waiting"
  BY CallFields DEF Reject, At
<1>2. res \in Sent /\ ~Qualified(res)
  BY ResultsGrow DEF Reject
<1>3. new \in Attempts \cup {None}
  BY <1>1, <1>2 DEF Sent, Calls
<1>4. /\ c.at = race[r].at /\ c.running = race[r].running /\ c.sent = race[r].sent
      /\ c.read = race[r].read + 1 /\ c.best = new /\ c.current = race[r].current
      /\ c.answer = race[r].answer
  BY <1>1 DEF Calls, Received
<1>5. c \in Calls
  <2> HIDE DEF new
  <2> QED
    BY <1>3, ReceivedFields DEF Calls
<1> HIDE DEF c
<1>6. AllAccounted(c)
  BY <1>1, <1>4, ResultsGrow DEF CallOK, AllAccounted, Reject, Calls
<1>7. BestKept(c)
  <2>1. Results(c, c.read) = Results(race[r], race[r].read)
                               \cup (IF res.out = "value" THEN {res.by} ELSE {})
    <3>1. Results(c, c.read) = Results(race[r], race[r].read + 1)
      BY <1>4 DEF Results
    <3> QED
      BY <3>1, ResultsGrow DEF Reject
  <2>2. \A a \in Results(race[r], race[r].read) :
           ~GoodEnough(a) /\ best # None /\ Quality[a] <= Quality[best]
    BY <1>1 DEF CallOK, BestKept
  <2>3. best # None => best \in Results(race[r], race[r].read)
    BY <1>1 DEF CallOK, BestKept
  <2>4. Results(race[r], race[r].read) \subseteq Attempts
    BY <1>1, ResultsAreAnalyzers
  <2>5. \A a \in Attempts : Quality[a] \in Nat
    BY RacerAssumption
  <2>6. CASE res.out = "value"
    <3>1. ~GoodEnough(res.by) /\ res.by \in Attempts /\ res.by # None
      BY <1>2, <2>6, RacerAssumption DEF Qualified, GoodEnough, Sent
    <3>2. CASE Better(res.by, best)
      BY <1>4, <2>1, <2>2, <2>3, <2>4, <2>5, <2>6, <3>1, <3>2 DEF BestKept, Better
    <3>3. CASE ~Better(res.by, best)
      BY <1>4, <2>1, <2>2, <2>3, <2>4, <2>5, <2>6, <3>1, <3>3 DEF BestKept, Better
    <3> QED
      BY <3>2, <3>3
  <2>7. CASE res.out # "value"
    BY <1>4, <2>1, <2>2, <2>3, <2>7 DEF BestKept
  <2> QED
    BY <2>6, <2>7
<1>8. GoodToBeat(c) /\ AnswerFits(c) /\ Served(c) /\ Degraded(c)
  BY <1>1, <1>4 DEF CallOK, GoodToBeat, AnswerFits, Served, Degraded
<1>9. Becomes(r, c) /\ UNCHANGED cache
  BY DEF Reject, c
<1> QED
  BY <1>5, <1>6, <1>7, <1>8, <1>9, OneCall DEF CallOK

(* The first good result is the one to beat from now on.                     *)
LEMMA WinInv ==
  ASSUME RaceInv, NEW r \in Races, Win(r) PROVE RaceInv'
<1> DEFINE a == NextResult(r).by
           k == [by |-> a, current |-> race[r].current]
           ans == Answer(r, "value", a)
           c == [Received(r) EXCEPT !.at = "draining", !.answer = ans]
<1>1. race[r] \in Calls /\ CallOK(race[r]) /\ race[r].at = "waiting"
  BY CallFields DEF Win, At
<1>2. a \in Attempts /\ GoodEnough(a)
  BY ResultsGrow DEF Win, Qualified, GoodEnough, Sent
<1>3. k \in Cached /\ cache' = k /\ k.by = a /\ k.current = race[r].current
  BY <1>1, <1>2 DEF Win, Cached, Calls
<1>4. /\ ans \in Answers /\ ans.kind = "value" /\ ans.by = a
      /\ ans.current = race[r].current
  BY <1>1, <1>2 DEF Answer, Answers, Calls
<1> HIDE DEF k, ans
<1>5. CASE racer.interactive
  <2> DEFINE d == Leaves(r, ans)
  <2>1. d \in Calls /\ CallOK(d)
    BY <1>2, <1>4, LeavesOK
  <2>2. Becomes(r, d)
    BY <1>5 DEF Win, ans
  <2>3. d.at = "over"
    BY DEF Leaves, Idle
  <2> HIDE DEF d
  <2> QED
    BY <1>2, <1>3, <2>1, <2>2, <2>3, OneStore DEF CallOK
<1>6. CASE ~racer.interactive
  <2>1. /\ c.at = "draining" /\ c.running = race[r].running /\ c.sent = race[r].sent
        /\ c.read = race[r].read + 1 /\ c.current = race[r].current /\ c.answer = ans
    BY <1>1 DEF Calls, Received
  <2>2. c \in Calls
    BY <1>4, ReceivedFields DEF Calls
  <2>3. Becomes(r, c)
    BY <1>6 DEF Win, ans
  <2> HIDE DEF c
  <2>4. AllAccounted(c)
    BY <1>1, <2>1, ResultsGrow DEF CallOK, AllAccounted, Win, Calls
  <2>5. BestKept(c) /\ AnswerFits(c) /\ Served(c) /\ Degraded(c)
    BY <1>2, <1>4, <2>1 DEF BestKept, AnswerFits, Served, Degraded
  <2> QED
    BY <1>2, <1>3, <2>2, <2>3, <2>4, <2>5, OneStore
<1> QED
  BY <1>5, <1>6

(* When all results have been received, the best that was kept is the best   *)
(* there is.                                                                 *)
LEMMA GiveUpInv ==
  ASSUME RaceInv, NEW r \in Races, GiveUp(r) PROVE RaceInv'
<1> DEFINE best == race[r].best
           kind == IF best # None THEN "degraded"
                   ELSE IF racer.min > 0 THEN "unqualified" ELSE "empty"
           ans == Answer(r, kind, best)
           c == Returns(r, kind, best)
<1>1. race[r] \in Calls /\ CallOK(race[r]) /\ race[r].at = "waiting"
  BY CallFields DEF GiveUp, At
<1>2. /\ race[r].read = Len(race[r].sent)
      /\ Cardinality(race[r].running) = 0
  <2>1. /\ Cardinality(race[r].running) \in Nat /\ Len(race[r].sent) \in Nat
        /\ race[r].read \in Nat
    BY <1>1, CallFields, FiniteAttempts
  <2>2. /\ Len(race[r].sent) + Cardinality(race[r].running) = Cardinality(Attempts)
        /\ race[r].read <= Len(race[r].sent)
    BY <1>1 DEF CallOK, AllAccounted
  <2>3. Cardinality(Attempts) - race[r].read = 0
    BY DEF GiveUp, AllHeard, Remaining
  <2> QED
    BY <2>1, <2>2, <2>3, FiniteAttempts
<1>3. race[r].running = {}
  BY <1>2, CallFields, FiniteAttempts, FS_EmptySet
<1>4. ans \in Answers /\ ans.kind = kind /\ ans.by = best
  BY CallFields DEF Answer, Answers
<1>5. Becomes(r, c) /\ UNCHANGED cache
  BY DEF GiveUp
<1>6. /\ c.at = "over" /\ c.running = {} /\ c.sent = race[r].sent /\ c.answer = ans
  BY <1>1, <1>3 DEF Returns, Calls
<1>7. c \in Calls
  <2> HIDE DEF kind
  <2> QED
    BY <1>1, <1>4 DEF Returns, Calls
<1> HIDE DEF c, ans
<1>8. Values(c) = Results(race[r], race[r].read)
  <2> HIDE DEF kind
  <2>1. Values(c) = Values(race[r])
    BY <1>6 DEF Values, Results
  <2> QED
    BY <2>1, <1>2 DEF Values
<1>9. Degraded(c)
  BY <1>1, <1>4, <1>6, <1>8 DEF Degraded, CallOK, BestKept
<1>10. AllAccounted(c) /\ BestKept(c) /\ GoodToBeat(c) /\ AnswerFits(c) /\ Served(c)
  BY <1>4, <1>6 DEF AllAccounted, BestKept, GoodToBeat, AnswerFits, Served
<1> QED
  BY <1>5, <1>7, <1>9, <1>10, OneCall DEF CallOK

(* A result is stored behind the caller's back only if it beats a good one.  *)
LEMMA DrainInv ==
  ASSUME RaceInv, NEW r \in Races, Drain(r) PROVE RaceInv'
<1> DEFINE res == NextResult(r)
           c == Received(r)
           k == [by |-> res.by, current |-> race[r].current]
<1>1. race[r] \in Calls /\ CallOK(race[r]) /\ race[r].at = "draining"
  BY CallFields DEF Drain, At
<1>2. res \in Sent
  BY ResultsGrow DEF Drain
<1>3. /\ c.at = race[r].at /\ c.running = race[r].running /\ c.sent = race[r].sent
      /\ c.read = race[r].read + 1 /\ c.current = race[r].current
      /\ c.answer = race[r].answer
  BY <1>1 DEF Calls, Received
<1>4. c \in Calls
  BY <1>1 DEF Calls, Received
<1>5. Becomes(r, c) /\ cache' = IF Upgrades(res) THEN k ELSE cache
  BY DEF Drain
<1> HIDE DEF c
<1>6. AllAccounted(c)
  BY <1>1, <1>3, ResultsGrow DEF CallOK, AllAccounted, Drain, Calls
<1>7. BestKept(c) /\ AnswerFits(c) /\ Served(c) /\ GoodToBeat(c)
  BY <1>1, <1>3 DEF CallOK, BestKept, AnswerFits, Served, GoodToBeat
<1>8. Degraded(c)
  BY <1>1, <1>3 DEF CallOK, AnswerFits, Degraded
<1>9. CASE ~Upgrades(res)
  BY <1>4, <1>5, <1>6, <1>7, <1>8, <1>9, OneCall DEF CallOK
<1>10. CASE Upgrades(res)
  <2>1. k \in Cached /\ k.by = res.by /\ k.current = race[r].current
    BY <1>1, <1>2 DEF Cached, Calls, Sent
  <2>2. cache # None => cache.by \in Attempts /\ Quality[cache.by] < Quality[res.by]
    BY <1>10 DEF RaceInv, TypeOK, Cached, Upgrades
  <2>3. Quality[res.by] \in Nat /\ \A a \in Attempts : Quality[a] \in Nat
    BY <1>2, RacerAssumption DEF Sent
  <2>4. racer.min \in Nat
    BY RacerAssumption DEF RaceInv, TypeOK
  <2>5. \A q \in Races :
           race[q].at = "draining" /\ race[q].current => GoodEnough(res.by)
    BY <2>2, <2>3, <2>4 DEF RaceInv, CallOK, GoodToBeat, GoodEnough
  <2>6. cache' = k
    BY <1>5, <1>10
  <2> HIDE DEF k, res
  <2> QED
    BY <1>1, <1>3, <1>4, <1>5, <1>6, <1>7, <1>8, <2>1, <2>5, <2>6, OneStore
<1> QED
  BY <1>9, <1>10

(* After Invalidate no call is current but the idle ones.                    *)
LEMMA InvalidateInv ==
  ASSUME RaceInv, Invalidate PROVE RaceInv'
<1>1. \A q \in Races : race'[q] = IF At(q, "idle") THEN race[q]
                                  ELSE [race[q] EXCEPT !.current = FALSE]
  BY DEF Invalidate
<1>2. TypeOK'
  <2>1. ASSUME NEW q \in Races PROVE race'[q] \in Calls
    <3>1. race[q] \in Calls
      BY CallFields
    <3>2. [race[q] EXCEPT !.current = FALSE] \in Calls
      BY <3>1 DEF Calls
    <3> QED
      BY <1>1, <3>1, <3>2
  <2>2. race' = [q \in Races |-> race'[q]]
    BY DEF Invalidate
  <2> QED
    BY <2>1, <2>2 DEF RaceInv, TypeOK, Invalidate
<1>3. ASSUME NEW q \in Races PROVE CallOK(race[q])'
  <2> DEFINE c == race'[q]
  <2>1. race[q] \in Calls /\ CallOK(race[q])
    BY CallFields
  <2>2. /\ c.at = race[q].at /\ c.running = race[q].running /\ c.sent = race[q].sent
        /\ c.read = race[q].read /\ c.best = race[q].best /\ c.answer = race[q].answer
        /\ c.at = "draining" => ~c.current
    BY <1>1, <2>1 DEF Calls, At
  <2> HIDE DEF c
  <2>3. Results(c, c.read) = Results(race[q], race[q].read) /\ Values(c) = Values(race[q])
    BY <2>2 DEF Results, Values
  <2>4. /\ AllAccounted(c) /\ BestKept(c) /\ AnswerFits(c) /\ Served(c) /\ Degraded(c)
        /\ ~(c.at = "draining" /\ c.current)
    BY <2>1, <2>2, <2>3 DEF CallOK, AllAccounted, BestKept, AnswerFits, Served, Degraded
  <2> QED
    BY <2>4 DEF c, CallOK, AllAccounted, BestKept, GoodToBeat, AnswerFits, Served, Degraded,
       GoodEnough, Results, Values, Invalidate
<1> QED
  BY <1>2, <1>3 DEF RaceInv, Invalidate

------------------------------------------------------------------------------

(* Every step keeps the invariant.                                           *)
LEMMA NextRaceInv == RaceInv /\ [Next]_vars => RaceInv'
<1> SUFFICES ASSUME RaceInv, [Next]_vars PROVE RaceInv'
  OBVIOUS
<1>1. CASE Next
  <2>1. ASSUME NEW r \in Races, CacheHit(r) \/ Start(r) \/ EndContext(r) PROVE RaceInv'
    BY <2>1, CacheHitInv, StartInv, EndContextInv
  <2>2. ASSUME NEW r \in Races, Step(r) PROVE RaceInv'
    BY <2>2, RejectInv, WinInv, GiveUpInv, CtxDoneInv, DrainInv, DrainEndsInv,
       GoneInv DEF Step
  <2>3. ASSUME NEW r \in Races, NEW a \in Attempts, NEW out \in {"value", "nothing"},
               Finish(r, a, out)
        PROVE  RaceInv'
    BY <2>3, FinishInv
  <2> QED
    BY <1>1, <2>1, <2>2, <2>3, InvalidateInv DEF Next
<1>2. CASE UNCHANGED vars
  <2>1. racer' = racer /\ cache' = cache /\ race' = race
    BY <1>2 DEF vars
  <2>2. \A c : CallOK(c) => CallOK(c)'
    BY <2>1, CallOKStays
  <2> QED
    BY <2>1, <2>2 DEF RaceInv, TypeOK, GoodEnough
<1> QED
  BY <1>1, <1>2

(* What a race knows and owes at every moment, for any number of calls and   *)
(* analyzers (Race and the goroutine it leaves behind).                      *)
THEOREM RacesInvariant == Spec => []RaceInv
<1> QED
  BY InitRaceInv, NextRaceInv, PTL DEF Spec

(* As long as nobody invalidates, what a racer serves and caches is good     *)
(* enough.                                                                   *)
THEOREM RacesServeQualified == Spec => []ServedQualified
<1>1. RaceInv => ServedQualified
  BY DEF RaceInv, ServedQualified, CallOK
<1> QED
  BY <1>1, RacesInvariant, PTL

(* A degraded result is the best there is, and all analyzers have ended.     *)
THEOREM RacesDegradeToBest == Spec => []DegradedIsBest
<1>1. RaceInv => DegradedIsBest
  BY DEF RaceInv, DegradedIsBest, CallOK
<1> QED
  BY <1>1, RacesInvariant, PTL

(* Between two invalidations the cached result gets worse only when a race   *)
(* stores its first good result.                                             *)
THEOREM RacesOnlyWinnersDowngrade == Spec => OnlyWinnersDowngrade
<1> DEFINE Worse == cache # None /\ cache' # None /\ Quality[cache'.by] < Quality[cache.by]
           Won == \E w \in Races : At(w, "waiting") /\ race'[w].at # "waiting"
                                     /\ GoodEnough(cache'.by)
<1>1. ASSUME RaceInv, [Next]_vars, Worse PROVE Won
  <2>1. cache \in Cached /\ Quality[cache.by] \in Nat
    BY <1>1, RacerAssumption DEF RaceInv, TypeOK, Cached
  <2>2. cache' # cache
    BY <1>1, <2>1
  <2>3. PICK r \in Races : Win(r) \/ Drain(r)
    BY <1>1, <2>2 DEF Next, vars, CacheHit, Start, EndContext, Step, Finish, Reject, GiveUp,
       CtxDone, DrainEnds, Gone, Invalidate
  <2>4. CASE Win(r)
    <3> DEFINE a == NextResult(r).by
    <3>1. cache' = [by |-> a, current |-> race[r].current] /\ GoodEnough(a)
      BY <2>4 DEF Win, Qualified, GoodEnough
    <3>2. race[r] \in Calls
      BY <1>1, CallFields
    <3>3. race'[r].at \in {"over", "draining"}
      <4>1. \A c : Becomes(r, c) => race'[r] = c
        BY <1>1 DEF Becomes, RaceInv, TypeOK
      <4>2. [Received(r) EXCEPT !.at = "draining", !.answer = Answer(r, "value", a)].at
              = "draining"
        BY <3>2 DEF Received, Calls
      <4>3. Leaves(r, Answer(r, "value", a)).at = "over"
        BY DEF Leaves, Idle
      <4> QED
        BY <2>4, <4>1, <4>2, <4>3 DEF Win
    <3>4. At(r, "waiting")
      BY <2>4 DEF Win
    <3> QED
      BY <3>1, <3>3, <3>4
  <2>5. CASE Drain(r)
    <3>1. Upgrades(NextResult(r)) /\ cache'.by = NextResult(r).by
      BY <2>2, <2>5 DEF Drain
    <3>2. Quality[cache'.by] > Quality[cache.by]
      BY <1>1, <3>1 DEF Upgrades
    <3>3. NextResult(r).by \in Attempts
      BY <1>1, <2>5, ResultsGrow DEF Drain, Sent
    <3>4. Quality[cache'.by] \in Nat
      BY <3>1, <3>3, RacerAssumption
    <3> QED
      BY <1>1, <2>1, <3>2, <3>4
  <2> QED
    BY <2>3, <2>4, <2>5
<1>2. RaceInv /\ [Next]_vars => [Worse => Won]_vars
  BY <1>1
<1> QED
  BY <1>2, RacesInvariant, PTL DEF Spec, OnlyWinnersDowngrade

--------------------------------------------------------------------------------
(* The walk of the calls.                                                  *)

(* The instance counts as this module does.                                  *)
LEMMA CountsAgree == \A S : Walk!Cardinality(S) = Cardinality(S)
  BY DEF Walk!Cardinality, Cardinality

(* The frames of a goroutine, when the top one is popped or replaced and     *)
(* another is pushed.                                                        *)
LEMMA Frames ==
    ASSUME NEW st \in Seq(Walk!Frame), st # <<>>, NEW x \in Walk!Frame, NEW y \in Walk!Frame
    PROVE  /\ 1 \in DOMAIN st /\ Head(st) = st[1] /\ Len(st) \in Nat /\ DOMAIN st = 1 .. Len(st)
           /\ Tail(st) \in Seq(Walk!Frame) /\ Len(Tail(st)) = Len(st) - 1
           /\ \A i \in DOMAIN Tail(st) : i + 1 \in DOMAIN st /\ Tail(st)[i] = st[i + 1]
           /\ \A i \in DOMAIN st : i # 1 => i - 1 \in DOMAIN Tail(st) /\ Tail(st)[i - 1] = st[i]
           /\ <<x>> \o Tail(st) \in Seq(Walk!Frame) /\ Len(<<x>> \o Tail(st)) = Len(st)
           /\ (<<x>> \o Tail(st))[1] = x
           /\ \A i \in DOMAIN st : i # 1 => (<<x>> \o Tail(st))[i] = st[i]
           /\ <<y>> \o (<<x>> \o Tail(st)) \in Seq(Walk!Frame)
           /\ Len(<<y>> \o (<<x>> \o Tail(st))) = Len(st) + 1
           /\ (<<y>> \o (<<x>> \o Tail(st)))[1] = y
           /\ (<<y>> \o (<<x>> \o Tail(st)))[2] = x
           /\ \A i \in DOMAIN st : i # 1 => (<<y>> \o (<<x>> \o Tail(st)))[i + 1] = st[i]
<1> DEFINE F == Walk!Frame
           t == Tail(st)
           u == <<x>> \o t
           v == <<y>> \o u
<1> HIDE DEF F
<1>1. st \in Seq(F) /\ x \in F /\ y \in F /\ Len(st) \in Nat /\ Len(st) # 0
  BY DEF F
<1>2. 1 \in DOMAIN st /\ Head(st) = st[1] /\ DOMAIN st = 1 .. Len(st)
  BY <1>1
<1>3. t \in Seq(F) /\ Len(t) = Len(st) - 1 /\ \A i \in 1 .. Len(st) - 1 : t[i] = st[i + 1]
  BY <1>1
<1> HIDE DEF t
<1>4. u \in Seq(F) /\ Len(u) = Len(st) /\ u[1] = x /\ \A i \in 1 .. Len(st) : i # 1 => u[i] = t[i - 1]
  BY <1>1, <1>3
<1>5. \A i \in 1 .. Len(st) : i # 1 => t[i - 1] = st[i]
  BY <1>1, <1>3
<1>6. \A i \in 1 .. Len(st) : i # 1 => u[i] = st[i]
  BY <1>4, <1>5
<1> HIDE DEF u
<1>7. v \in Seq(F) /\ Len(v) = Len(st) + 1 /\ v[1] = y
      /\ \A i \in 1 .. Len(st) : v[i + 1] = u[i]
  BY <1>1, <1>4
<1>8. v[2] = x
  BY <1>1, <1>4, <1>7
<1>9. \A i \in DOMAIN t : i + 1 \in DOMAIN st /\ t[i] = st[i + 1]
  BY <1>1, <1>2, <1>3
<1>10. \A i \in DOMAIN st : i # 1 => i - 1 \in DOMAIN t
  BY <1>1, <1>2, <1>3
<1> QED
  BY <1>1, <1>2, <1>3, <1>4, <1>5, <1>6, <1>7, <1>8, <1>9, <1>10 DEF F, t, u

(* The frame y goes on top of those of st, whose top becomes x.              *)
Pushes(v, y, x, st) ==
    /\ st \in Seq(Walk!Frame) /\ st # <<>> /\ x \in Walk!Frame /\ y \in Walk!Frame
    /\ v = <<y>> \o (<<x>> \o Tail(st))

LEMMA Pushing ==
    ASSUME NEW v, NEW y, NEW x, NEW st, Pushes(v, y, x, st), NEW i \in DOMAIN st, i # 1
    PROVE  v[i + 1] = st[i]
<1> USE DEF Pushes
<1> DEFINE u == <<x>> \o Tail(st)
<1>1. Len(st) \in Nat /\ DOMAIN st = 1 .. Len(st)
  BY Frames
<1>2. u[i] = st[i] /\ Len(u) = Len(st) /\ u \in Seq(Walk!Frame)
  BY Frames
<1> DEFINE F == Walk!Frame
<1> HIDE DEF u, F
<1>3. v = <<y>> \o u /\ y \in F /\ u \in Seq(F)
  BY <1>2 DEF u, F
<1> QED
  BY <1>1, <1>2, <1>3

LEMMA Replacing ==
    ASSUME NEW st \in Seq(Walk!Frame), st # <<>>, NEW x \in Walk!Frame,
           NEW v, v = <<x>> \o Tail(st)
    PROVE  /\ v[1] = x /\ DOMAIN v = DOMAIN st
           /\ \A i \in DOMAIN st : i # 1 => v[i] = st[i]
<1>1. v \in Seq(Walk!Frame) /\ Len(v) = Len(st) /\ v[1] = x /\ DOMAIN st = 1 .. Len(st)
  BY Frames
<1>2. ASSUME NEW i \in DOMAIN st, i # 1 PROVE v[i] = st[i]
  <2> DEFINE u == <<x>> \o Tail(st)
  <2>1. u[i] = st[i]
    BY <1>2, Frames
  <2> HIDE DEF u
  <2>2. v = u
    BY DEF u
  <2> QED
    BY <2>1, <2>2
<1> DEFINE F == Walk!Frame
<1> HIDE DEF F
<1>3. v \in Seq(F)
  BY <1>1 DEF F
<1>4. DOMAIN v = 1 .. Len(v)
  BY <1>3
<1> QED
  BY <1>1, <1>2, <1>4

LEMMA PushedFrames ==
    ASSUME NEW v, NEW y, NEW x, NEW st, Pushes(v, y, x, st)
    PROVE  /\ v[1] = y /\ v[2] = x /\ 1 \in DOMAIN v /\ 2 \in DOMAIN v /\ v # <<>>
           /\ Head(v) = y
           /\ \A i \in DOMAIN st : i # 1 => i + 1 \in DOMAIN v /\ v[i + 1] = st[i]
           /\ \A j \in DOMAIN v : j # 1 /\ j # 2 => j - 1 \in DOMAIN st /\ v[j] = st[j - 1]
<1>1. /\ v \in Seq(Walk!Frame) /\ Len(v) = Len(st) + 1 /\ v[1] = y /\ v[2] = x
      /\ Len(st) \in Nat /\ DOMAIN st = 1 .. Len(st) /\ 1 \in DOMAIN st
  BY Frames DEF Pushes
<1>2. \A i \in DOMAIN st : i # 1 => v[i + 1] = st[i]
  BY Pushing
<1> DEFINE F == Walk!Frame
<1> HIDE DEF F
<1>3. v \in Seq(F)
  BY <1>1 DEF F
<1>4. DOMAIN v = 1 .. Len(st) + 1 /\ v # <<>> /\ Head(v) = v[1]
  BY <1>1, <1>3
<1>5. ASSUME NEW j \in DOMAIN v, j # 1, j # 2 PROVE j - 1 \in DOMAIN st /\ v[j] = st[j - 1]
  <2>1. j - 1 \in DOMAIN st /\ j - 1 # 1 /\ (j - 1) + 1 = j
    BY <1>1, <1>4, <1>5
  <2> QED
    BY <1>2, <2>1
<1>6. \A j \in DOMAIN v : j # 1 /\ j # 2 => j - 1 \in DOMAIN st /\ v[j] = st[j - 1]
  BY <1>5
<1>7. \A i \in DOMAIN st : i + 1 \in DOMAIN v
  BY <1>1, <1>4
<1>8. 1 \in DOMAIN v /\ 2 \in DOMAIN v
  BY <1>1, <1>4
<1> QED
  BY <1>1, <1>2, <1>4, <1>6, <1>7, <1>8

(* A goroutine that is not idle: its frames and the top one.                 *)
LEMMA TopFrame ==
    ASSUME Walk!TypeOK, NEW r \in Symbols, NEW at, Walk!TopAt(r, at)
    PROVE  /\ stack[r] \in Seq(Walk!Frame) /\ stack[r] # <<>>
           /\ Walk!Top(r) = stack[r][1] /\ Walk!Top(r) \in Walk!Frame /\ 1 \in DOMAIN stack[r]
           /\ Walk!Top(r).at = at /\ Walk!Under(r) = Tail(stack[r])
           /\ Walk!Top(r).sym \in Symbols
<1>1. stack[r] \in Seq(Walk!Frame) /\ stack[r] # <<>> /\ Walk!Top(r).at = at
  BY DEF Walk!TypeOK, Walk!TopAt, Walk!Walking
<1> DEFINE F == Walk!Frame
<1>2. stack[r] \in Seq(F)
  BY <1>1
<1>3. \A x \in F : x.sym \in Symbols
  BY DEF Walk!Frame
<1> HIDE DEF F
<1>4. 1 \in DOMAIN stack[r] /\ stack[r][1] \in F /\ Head(stack[r]) = stack[r][1]
  BY <1>1, <1>2
<1> QED
  BY <1>1, <1>3, <1>4 DEF Walk!Top, Walk!Under, F

(* With as many frames under it as there are symbols, a frame is of one of   *)
(* them again.                                                               *)
LEMMA DeepEnough ==
    ASSUME Walk!WalkInv, Walk!Thorough, NEW r \in Symbols, Walk!TopAt(r, "enter"),
           Walk!Top(r).d >= task.depth
    PROVE  Walk!Seen(Walk!Top(r).sym) /\ Walk!Top(r).d = task.depth
<1> DEFINE L == Len(stack[r])
           f == [i \in 2 .. L |-> stack[r][i].sym]
<1>1. stack[r] \in Seq(Walk!Frame) /\ Walk!Top(r) = stack[r][1] /\ Walk!Top(r).sym \in Symbols
      /\ 1 \in DOMAIN stack[r]
  BY TopFrame DEF Walk!WalkInv
<1>2. L \in Nat /\ DOMAIN stack[r] = 1 .. L /\ L >= 1
  <2> DEFINE F == Walk!Frame
  <2> HIDE DEF F
  <2>1. stack[r] \in Seq(F)
    BY <1>1 DEF F
  <2> QED
    BY <2>1, <1>1
<1>3. \A i \in 1 .. L : stack[r][i].sym \in Symbols
  <2> DEFINE F == Walk!Frame
  <2>1. \A x \in F : x.sym \in Symbols
    BY DEF Walk!Frame
  <2> HIDE DEF F
  <2>2. stack[r] \in Seq(F)
    BY <1>1 DEF F
  <2> QED
    BY <2>1, <2>2, <1>2
<1>4. Walk!Top(r).d = L - 1 /\ \A i \in 2 .. L : stack[r][i].at = "loop"
  BY <1>1, <1>2 DEF Walk!WalkInv, Walk!StackInOrder
<1>5. \A i \in 2 .. L : Walk!Seen(stack[r][i].sym)
  BY <1>2, <1>4 DEF Walk!WalkInv, Walk!Marked
<1>6. \A i, j \in 2 .. L : stack[r][i].sym = stack[r][j].sym => i = j
  BY <1>2, <1>4 DEF Walk!WalkInv, Walk!AskedOnce
<1>7. IsFiniteSet(Symbols) /\ Cardinality(Symbols) \in Nat
  BY WalkConstants, FS_CardinalityType DEF SensibleTasks
<1>8. task.depth >= Cardinality(Symbols) /\ task.depth \in Nat
  BY CountsAgree DEF Walk!Thorough, Walk!WalkInv, Walk!TypeOK, Walk!Task
<1> HIDE DEF L
<1>9. f \in Injection(2 .. L, Symbols)
  BY <1>2, <1>3, <1>6 DEF Injection, IsInjective
<1>10. Cardinality(2 .. L) = L - 1
  BY <1>2, FS_Interval
<1>11. L - 1 <= Cardinality(Symbols) /\ (L - 1 = Cardinality(Symbols) => f \in Surjection(2 .. L, Symbols))
  <2> HIDE DEF f
  <2> QED
    BY <1>7, <1>9, <1>10, FS_Injection
<1>12. L - 1 = Cardinality(Symbols) /\ L - 1 = task.depth
  BY <1>2, <1>4, <1>7, <1>8, <1>11
<1>13. PICK i \in 2 .. L : f[i] = Walk!Top(r).sym
  BY <1>1, <1>11, <1>12 DEF Surjection
<1> QED
  BY <1>4, <1>5, <1>12, <1>13

(* The frames that are in their loop or ask stem from different frames that  *)
(* were, or from the one on top, which marks its symbol.                     *)
LEMMA OnceKept ==
    ASSUME Walk!WalkInv, NEW r \in Symbols, NEW new, task' = task, visited \subseteq visited',
           stack' = [stack EXCEPT ![r] = new], NEW from,
           \A i, j \in DOMAIN new : from[i] = from[j] => i = j,
           \A i \in DOMAIN new : new[i].at # "enter" =>
             /\ from[i] \in DOMAIN stack[r] /\ stack[r][from[i]].sym = new[i].sym
             /\ task.name[new[i].sym] \in visited'
             /\ stack[r][from[i]].at # "enter" \/ (from[i] = 1 /\ ~Walk!Seen(new[i].sym))
    PROVE  Walk!Marked' /\ Walk!AskedOnce'
<1>1. \A q \in Symbols : stack'[q] = IF q = r THEN new ELSE stack[q]
  BY DEF Walk!WalkInv, Walk!TypeOK
<1>2. Walk!Marked /\ Walk!AskedOnce
  BY DEF Walk!WalkInv
<1>3. Walk!Marked'
  <2> SUFFICES ASSUME NEW q \in Symbols, NEW i \in DOMAIN stack'[q], stack'[q][i].at # "enter"
               PROVE  task.name[stack'[q][i].sym] \in visited'
    BY DEF Walk!Marked, Walk!Seen
  <2> QED
    BY <1>1, <1>2 DEF Walk!Marked, Walk!Seen
<1>4. ASSUME NEW q \in Symbols, NEW s \in Symbols, NEW i \in DOMAIN stack'[q], NEW j \in DOMAIN stack'[s],
             stack'[q][i].at # "enter", stack'[s][j].at # "enter",
             task.name[stack'[q][i].sym] = task.name[stack'[s][j].sym]
      PROVE  q = s /\ i = j
  <2>1. CASE q = r /\ s = r
    <3>1. stack[r][from[i]].at # "enter" /\ stack[r][from[j]].at # "enter" => from[i] = from[j]
      BY <1>1, <1>2, <1>4, <2>1 DEF Walk!AskedOnce
    <3>2. from[i] = from[j]
      BY <1>1, <1>2, <1>4, <2>1, <3>1 DEF Walk!Marked, Walk!Seen
    <3> QED
      BY <2>1, <3>2, <1>1
  <2>2. CASE q = r /\ s # r
    BY <1>1, <1>2, <1>4, <2>2 DEF Walk!AskedOnce, Walk!Marked, Walk!Seen
  <2>3. CASE q # r /\ s = r
    BY <1>1, <1>2, <1>4, <2>3 DEF Walk!AskedOnce, Walk!Marked, Walk!Seen
  <2>4. CASE q # r /\ s # r
    BY <1>1, <1>2, <1>4, <2>4 DEF Walk!AskedOnce
  <2> QED
    BY <2>1, <2>2, <2>3, <2>4
<1>5. Walk!AskedOnce'
  BY <1>4 DEF Walk!AskedOnce
<1> QED
  BY <1>3, <1>5

(* What is known stays known, and what is followed stays so, if the frame on *)
(* top of the one goroutine that moves does not enter for nothing and its    *)
(* frames still follow what they did.                                        *)
LEMMA KnownKept ==
    ASSUME Walk!TypeOK, NEW r \in Symbols, NEW new, task' = task, visited \subseteq visited',
           edges \subseteq edges', stack' = [stack EXCEPT ![r] = new],
           Walk!TopAt(r, "enter") => task.name[Walk!Top(r).sym] \in visited',
           \A i \in DOMAIN stack[r] : \A s \in Symbols : Walk!Follows(stack[r][i], s) =>
             Walk!Followed(s)' \/ \E j \in DOMAIN new : Walk!Follows(new[j], s)'
    PROVE  /\ \A s \in Symbols : Walk!Known(s) => Walk!Known(s)'
           /\ \A s \in Symbols : Walk!Going(s) \/ Walk!Followed(s) =>
                                   Walk!Going(s)' \/ Walk!Followed(s)'
<1>1. \A q \in Symbols : stack'[q] = IF q = r THEN new ELSE stack[q]
  BY DEF Walk!TypeOK
<1>2. ASSUME NEW s \in Symbols, Walk!Known(s) PROVE Walk!Known(s)'
  <2>1. CASE Walk!Seen(s)
    BY <2>1 DEF Walk!Seen, Walk!Known
  <2>2. ASSUME NEW q \in Symbols, Walk!TopAt(q, "enter"), Walk!Top(q).sym = s PROVE Walk!Known(s)'
    <3>1. CASE q = r
      BY <2>2, <3>1 DEF Walk!Known, Walk!Seen
    <3>2. CASE q # r
      <4>1. stack'[q] = stack[q]
        BY <1>1, <3>2
      <4>2. Walk!TopAt(q, "enter")' /\ Walk!Top(q)'.sym = s
        BY <2>2, <4>1 DEF Walk!TopAt, Walk!Top, Walk!Walking
      <4> QED
        BY <4>2 DEF Walk!Known
    <3> QED
      BY <3>1, <3>2
  <2> QED
    BY <1>2, <2>1, <2>2 DEF Walk!Known
<1>3. ASSUME NEW s \in Symbols, Walk!Followed(s) PROVE Walk!Followed(s)'
  BY <1>3 DEF Walk!Followed
<1>4. ASSUME NEW s \in Symbols, Walk!Going(s) PROVE Walk!Going(s)' \/ Walk!Followed(s)'
  <2>1. PICK q \in Symbols : \E i \in DOMAIN stack[q] : Walk!Follows(stack[q][i], s)
    BY <1>4 DEF Walk!Going
  <2>2. CASE q = r
    BY <2>1, <2>2, <1>1 DEF Walk!Going
  <2>3. CASE q # r
    <3>1. \A x : Walk!Follows(x, s) => Walk!Follows(x, s)'
      BY DEF Walk!Follows
    <3> QED
      BY <2>1, <2>3, <3>1, <1>1 DEF Walk!Going
  <2> QED
    BY <2>2, <2>3
<1> QED
  BY <1>2, <1>3, <1>4

LEMMA StacksInOrder ==
    ASSUME Walk!WalkInv, NEW r \in Symbols, NEW new, task' = task,
           stack' = [stack EXCEPT ![r] = new], Walk!StackInOrder(task.calls, new)
    PROVE  \A q \in Symbols : Walk!StackInOrder(task.calls, stack[q])'
<1>1. \A q \in Symbols : stack'[q] = IF q = r THEN new ELSE stack[q]
  BY DEF Walk!WalkInv, Walk!TypeOK
<1>2. \A q \in Symbols : Walk!StackInOrder(task'.calls, stack'[q])
  BY <1>1 DEF Walk!WalkInv
<1> QED
  BY <1>2 DEF Walk!StackInOrder

(* A walk in which nothing fails and that nobody ends stays so.              *)
LEMMA ThoroughBefore ==
    ASSUME task' = task, cut' = cut, Walk!Thorough' PROVE Walk!Thorough
  BY DEF Walk!Thorough, Walk!DistinctNames

(* The invariant holds while no task is in progress.                         *)
LEMMA RestingFits ==
    ASSUME Walk!Init PROVE Walk!WalkInv
<1>1. Walk!NoTask \in Walk!Task /\ Walk!NoTask.roots = {}
  BY DEF Walk!NoTask, Walk!Task
<1>2. Walk!TypeOK
  BY <1>1 DEF Walk!Init, Walk!TypeOK, Walk!Whole
<1>3. \A r \in Symbols : stack[r] = <<>>
  BY DEF Walk!Init
<1> QED
  BY <1>2, <1>3 DEF Walk!WalkInv, Walk!Init, Walk!Resting, Walk!StackInOrder, Walk!Marked,
    Walk!AskedOnce, Walk!Thorough

LEMMA BeginFits ==
    ASSUME Walk!WalkInv, NEW t \in Tasks, Walk!Begin(t) PROVE Walk!WalkInv'
<1>1. /\ Walk!Resting /\ task' = t /\ waiting' = t.roots /\ t.roots # {} /\ t \in Walk!Task
      /\ UNCHANGED <<stack, visited, nodes, edges, cut>>
  BY WalkConstants DEF SensibleTasks, Walk!Begin, Walk!WalkInv, Walk!graph
<1>2. task' # Walk!NoTask
  BY <1>1 DEF Walk!NoTask
<1>3. \A r \in Symbols : stack'[r] = <<>>
  BY <1>1 DEF Walk!Resting
<1>4. t.roots \subseteq Symbols
  BY <1>1 DEF Walk!Task
<1>5. Walk!TypeOK'
  BY <1>1, <1>3 DEF Walk!WalkInv, Walk!TypeOK, Walk!Resting
<1>6. (\A r \in Symbols : Walk!StackInOrder(task.calls, stack[r]))' /\ Walk!Marked' /\ Walk!AskedOnce'
  BY <1>3 DEF Walk!StackInOrder, Walk!Marked, Walk!AskedOnce
<1>7. Walk!NothingMissed'
  <2>1. visited' = {} /\ nodes' = {} /\ edges' = {}
    BY <1>1 DEF Walk!Resting
  <2> QED
    BY <1>1, <1>3, <2>1 DEF Walk!NothingMissed, Walk!Seen
<1>8. \A r \in waiting' : stack'[r] = <<>>
  BY <1>1, <1>3, <1>4
<1> QED
  BY <1>2, <1>5, <1>6, <1>7, <1>8 DEF Walk!WalkInv

(* What a step of one goroutine of a walk that is to find everything has to  *)
(* show.                                                                     *)
LEMMA Missed ==
    ASSUME Walk!WalkInv, Walk!Thorough, NEW r \in Symbols, NEW new, task' = task,
           visited \subseteq visited', nodes \subseteq nodes', nodes' \subseteq Symbols,
           edges \subseteq edges', edges' \subseteq task.calls, waiting' \subseteq waiting,
           stack' = [stack EXCEPT ![r] = new],
           Walk!TopAt(r, "enter") => task.name[Walk!Top(r).sym] \in visited',
           \A i \in DOMAIN stack[r] : \A s \in Symbols : Walk!Follows(stack[r][i], s) =>
             Walk!Followed(s)' \/ \E j \in DOMAIN new : Walk!Follows(new[j], s)',
           \A j \in DOMAIN new : new[j].sym \in Walk!Reached(task.calls, task.roots) \ External,
           \A s \in nodes' \ nodes :
             s \in Walk!Reached(task.calls, task.roots) \ External /\ Walk!Known(s)',
           \A s \in waiting \ waiting' : Walk!Known(s)',
           \A c \in edges' \ edges : Walk!Seen(c[1])' /\ (c[2] \in External \/ Walk!Known(c[2])'),
           \A s \in Symbols : Walk!Seen(s)' /\ ~Walk!Seen(s) =>
             s \in nodes' /\ (Walk!Going(s)' \/ Walk!Followed(s)')
    PROVE  Walk!NothingMissed'
<1> DEFINE R == Walk!Reached(task.calls, task.roots)
<1>1. Walk!TypeOK /\ Walk!NothingMissed
  BY DEF Walk!WalkInv
<1>2. /\ \A s \in Symbols : Walk!Known(s) => Walk!Known(s)'
      /\ \A s \in Symbols : Walk!Going(s) \/ Walk!Followed(s) =>
                              Walk!Going(s)' \/ Walk!Followed(s)'
  BY <1>1, KnownKept
<1>3. \A q \in Symbols : stack'[q] = IF q = r THEN new ELSE stack[q]
  BY <1>1 DEF Walk!TypeOK
<1>4. Walk!Reached(task.calls, task.roots)' = R
  BY DEF Walk!Reached, Walk!Closed
<1>5. task.calls \subseteq Symbols \X Symbols /\ task.roots \subseteq Symbols /\ nodes \subseteq Symbols
  BY <1>1 DEF Walk!TypeOK, Walk!Task
<1>6. \A c \in edges : c[1] \in Symbols /\ c[2] \in Symbols
  BY <1>1, <1>5 DEF Walk!TypeOK
<1> HIDE DEF R
<1>7. \A q \in Symbols : \A i \in DOMAIN stack'[q] : stack'[q][i].sym \in R \ External
  BY <1>1, <1>3 DEF Walk!NothingMissed, R
<1>8. \A s \in nodes' : s \in R \ External /\ Walk!Known(s)'
  BY <1>1, <1>2, <1>5 DEF Walk!NothingMissed, R
<1>9. \A s \in task'.roots : s \in waiting' \/ Walk!Known(s)'
  BY <1>1, <1>2, <1>5 DEF Walk!NothingMissed
<1>10. \A c \in edges' : Walk!Seen(c[1])' /\ (c[2] \in External \/ Walk!Known(c[2])')
  <2>1. \A c \in edges : Walk!Seen(c[1])'
    BY <1>1 DEF Walk!NothingMissed, Walk!Seen
  <2>2. \A c \in edges : c[2] \in External \/ Walk!Known(c[2])'
    BY <1>1, <1>2, <1>6 DEF Walk!NothingMissed
  <2> QED
    BY <2>1, <2>2
<1>11. \A s \in Symbols : Walk!Seen(s)' => s \in nodes' /\ (Walk!Going(s)' \/ Walk!Followed(s)')
  BY <1>1, <1>2 DEF Walk!NothingMissed
<1>12. (\A q \in Symbols : \A i \in DOMAIN stack[q] :
          stack[q][i].sym \in Walk!Reached(task.calls, task.roots) \ External)'
  BY <1>4, <1>7
<1>13. (\A s \in nodes : s \in Walk!Reached(task.calls, task.roots) \ External /\ Walk!Known(s))'
  BY <1>4, <1>8
<1> QED
  BY <1>9, <1>10, <1>11, <1>12, <1>13 DEF Walk!NothingMissed

(* The steps that pop the top frame.                                         *)
LEMMA Popped ==
    ASSUME Walk!WalkInv, NEW r \in Symbols, NEW at, Walk!TopAt(r, at), task' = task,
           visited \subseteq visited', waiting' = waiting, Walk!Pop(r)
    PROVE  /\ stack' \in [Symbols -> Seq(Walk!Frame)]
           /\ stack' = [stack EXCEPT ![r] = Tail(stack[r])]
           /\ \A q \in Symbols : Walk!StackInOrder(task.calls, stack[q])'
           /\ Walk!Marked' /\ Walk!AskedOnce'
           /\ \A q \in waiting' : stack'[q] = <<>>
<1> DEFINE new == Tail(stack[r])
<1>1. Walk!TypeOK
  BY DEF Walk!WalkInv
<1>2. /\ stack[r] \in Seq(Walk!Frame) /\ stack[r] # <<>> /\ Walk!Top(r) \in Walk!Frame
      /\ Walk!Under(r) = new
  BY <1>1, TopFrame
<1>3. /\ new \in Seq(Walk!Frame) /\ Len(new) = Len(stack[r]) - 1
      /\ Len(stack[r]) \in Nat /\ DOMAIN stack[r] = 1 .. Len(stack[r])
      /\ \A i \in DOMAIN new : i + 1 \in DOMAIN stack[r] /\ new[i] = stack[r][i + 1]
  BY <1>2, Frames
<1>4. DOMAIN new = 1 .. Len(new)
  <2> DEFINE F == Walk!Frame
  <2> HIDE DEF F, new
  <2>1. new \in Seq(F)
    BY <1>3 DEF F
  <2> QED
    BY <2>1
<1>5. stack' = [stack EXCEPT ![r] = new]
  BY <1>2 DEF Walk!Pop, Walk!Push
<1>6. stack' \in [Symbols -> Seq(Walk!Frame)]
  BY <1>1, <1>3, <1>5 DEF Walk!TypeOK
<1> HIDE DEF new
<1> DEFINE from == [i \in DOMAIN new |-> i + 1]
<1>0. \A i, j \in DOMAIN new : from[i] = from[j] => i = j
  BY <1>3, <1>4
<1>7. Walk!StackInOrder(task.calls, new)
  BY <1>3, <1>4 DEF Walk!WalkInv, Walk!StackInOrder
<1>8. \A i \in DOMAIN new : new[i].at # "enter" =>
        /\ from[i] \in DOMAIN stack[r] /\ stack[r][from[i]].sym = new[i].sym
        /\ task.name[new[i].sym] \in visited'
        /\ stack[r][from[i]].at # "enter" \/ (from[i] = 1 /\ ~Walk!Seen(new[i].sym))
  BY <1>3 DEF Walk!WalkInv, Walk!Marked, Walk!Seen
<1>9. Walk!Marked' /\ Walk!AskedOnce'
  <2> HIDE DEF from
  <2> QED
    BY <1>5, <1>8, <1>0, OnceKept
<1>10. \A q \in waiting' : stack'[q] = <<>>
  BY <1>1, <1>2, <1>5 DEF Walk!WalkInv, Walk!TypeOK, Walk!Task
<1>11. \A q \in Symbols : Walk!StackInOrder(task.calls, stack[q])'
  BY <1>5, <1>7, StacksInOrder
<1> QED
  BY <1>5, <1>6, <1>9, <1>10, <1>11 DEF new

(* The steps that take the top frame further.                                *)
LEMMA Replaced ==
    ASSUME Walk!WalkInv, NEW r \in Symbols, NEW at, Walk!TopAt(r, at), task' = task,
           visited \subseteq visited', waiting' = waiting,
           NEW x \in Walk!Frame, Walk!Push(r, <<x>> \o Walk!Under(r)),
           x.sym = Walk!Top(r).sym, x.d = Walk!Top(r).d, x.at # "enter",
           \A t \in x.todo : <<x.sym, t>> \in task.calls,
           task.name[x.sym] \in visited', at # "enter" \/ ~Walk!Seen(x.sym)
    PROVE  /\ stack' \in [Symbols -> Seq(Walk!Frame)]
           /\ stack' = [stack EXCEPT ![r] = <<x>> \o Tail(stack[r])]
           /\ \A q \in Symbols : Walk!StackInOrder(task.calls, stack[q])'
           /\ Walk!Marked' /\ Walk!AskedOnce'
           /\ \A q \in waiting' : stack'[q] = <<>>
<1> DEFINE new == <<x>> \o Tail(stack[r])
<1>1. Walk!TypeOK
  BY DEF Walk!WalkInv
<1>2. /\ stack[r] \in Seq(Walk!Frame) /\ stack[r] # <<>> /\ Walk!Top(r) = stack[r][1]
      /\ Walk!Under(r) = Tail(stack[r]) /\ Walk!Top(r).at = at
  BY <1>1, TopFrame
<1>3. /\ new \in Seq(Walk!Frame) /\ Len(new) = Len(stack[r]) /\ new[1] = x
      /\ Len(stack[r]) \in Nat /\ DOMAIN stack[r] = 1 .. Len(stack[r]) /\ 1 \in DOMAIN stack[r]
      /\ \A i \in DOMAIN stack[r] : i # 1 => new[i] = stack[r][i]
  BY <1>2, Frames
<1>4. DOMAIN new = DOMAIN stack[r]
  <2> DEFINE F == Walk!Frame
  <2> HIDE DEF F, new
  <2>1. new \in Seq(F)
    BY <1>3 DEF F
  <2> QED
    BY <2>1, <1>3
<1>5. stack' = [stack EXCEPT ![r] = new]
  BY <1>2 DEF Walk!Push
<1>6. stack' \in [Symbols -> Seq(Walk!Frame)]
  BY <1>1, <1>3, <1>5 DEF Walk!TypeOK
<1> HIDE DEF new
<1> DEFINE from == [i \in DOMAIN new |-> i]
<1>0. \A i, j \in DOMAIN new : from[i] = from[j] => i = j
  BY <1>3, <1>4
<1>7. Walk!StackInOrder(task.calls, new)
  <2>1. Walk!StackInOrder(task.calls, stack[r])
    BY DEF Walk!WalkInv
  <2> QED
    BY <2>1, <1>2, <1>3, <1>4 DEF Walk!StackInOrder
<1>8. \A i \in DOMAIN new : new[i].at # "enter" =>
        /\ from[i] \in DOMAIN stack[r] /\ stack[r][from[i]].sym = new[i].sym
        /\ task.name[new[i].sym] \in visited'
        /\ stack[r][from[i]].at # "enter" \/ (from[i] = 1 /\ ~Walk!Seen(new[i].sym))
  BY <1>2, <1>3, <1>4 DEF Walk!WalkInv, Walk!Marked, Walk!Seen
<1>9. Walk!Marked' /\ Walk!AskedOnce'
  <2> HIDE DEF from
  <2> QED
    BY <1>5, <1>8, <1>0, OnceKept
<1>10. \A q \in waiting' : stack'[q] = <<>>
  BY <1>1, <1>2, <1>5 DEF Walk!WalkInv, Walk!TypeOK, Walk!Task
<1>11. \A q \in Symbols : Walk!StackInOrder(task.calls, stack[q])'
  BY <1>5, <1>7, StacksInOrder
<1> QED
  BY <1>5, <1>6, <1>9, <1>10, <1>11 DEF new

(* The step that takes the top frame further and pushes another.             *)
LEMMA Pushed ==
    ASSUME Walk!WalkInv, NEW r \in Symbols, Walk!TopAt(r, "loop"), task' = task,
           visited' = visited, waiting' = waiting,
           NEW x \in Walk!Frame, NEW y \in Walk!Frame, NEW new,
           Pushes(new, y, x, stack[r]), Walk!Push(r, new),
           x.sym = Walk!Top(r).sym, x.d = Walk!Top(r).d, x.at = "loop",
           \A t \in x.todo : <<x.sym, t>> \in task.calls,
           y.d = x.d + 1, y.at = "enter", y.todo = {}
    PROVE  /\ stack' \in [Symbols -> Seq(Walk!Frame)]
           /\ stack' = [stack EXCEPT ![r] = new]
           /\ \A q \in Symbols : Walk!StackInOrder(task.calls, stack[q])'
           /\ Walk!Marked' /\ Walk!AskedOnce'
           /\ \A q \in waiting' : stack'[q] = <<>>
<1>1. Walk!TypeOK
  BY DEF Walk!WalkInv
<1>2. /\ stack[r] \in Seq(Walk!Frame) /\ stack[r] # <<>> /\ Walk!Top(r) = stack[r][1]
      /\ Walk!Under(r) = Tail(stack[r]) /\ Walk!Top(r).at = "loop"
  BY <1>1, TopFrame
<1>3. /\ new \in Seq(Walk!Frame) /\ Len(new) = Len(stack[r]) + 1 /\ new[1] = y /\ new[2] = x
      /\ Len(stack[r]) \in Nat /\ DOMAIN stack[r] = 1 .. Len(stack[r]) /\ 1 \in DOMAIN stack[r]
      /\ \A i \in DOMAIN stack[r] : i # 1 => new[i + 1] = stack[r][i]
  <2>1. new \in Seq(Walk!Frame) /\ Len(new) = Len(stack[r]) + 1 /\ new[1] = y /\ new[2] = x
    BY <1>2, Frames DEF Pushes
  <2>2. Len(stack[r]) \in Nat /\ DOMAIN stack[r] = 1 .. Len(stack[r]) /\ 1 \in DOMAIN stack[r]
    BY <1>2, Frames
  <2>3. \A i \in DOMAIN stack[r] : i # 1 => new[i + 1] = stack[r][i]
    BY Pushing
  <2> QED
    BY <2>1, <2>2, <2>3
<1>4. DOMAIN new = 1 .. Len(stack[r]) + 1
  <2> DEFINE F == Walk!Frame
  <2> HIDE DEF F
  <2>1. new \in Seq(F)
    BY <1>3 DEF F
  <2> QED
    BY <2>1, <1>3
<1>5. stack' = [stack EXCEPT ![r] = new]
  BY <1>2 DEF Walk!Push
<1>6. stack' \in [Symbols -> Seq(Walk!Frame)]
  BY <1>1, <1>3, <1>5 DEF Walk!TypeOK
<1> DEFINE from == [i \in DOMAIN new |-> i - 1]
<1>0. \A i, j \in DOMAIN new : from[i] = from[j] => i = j
  BY <1>3, <1>4
<1>7. \A i \in DOMAIN new : i = 1 \/ i = 2 \/ (i - 1 \in DOMAIN stack[r] /\ i - 1 # 1
                                             /\ new[i] = stack[r][i - 1])
  <2> SUFFICES ASSUME NEW i \in DOMAIN new, i # 1, i # 2
               PROVE  i - 1 \in DOMAIN stack[r] /\ i - 1 # 1 /\ new[i] = stack[r][i - 1]
    OBVIOUS
  <2>1. i - 1 \in DOMAIN stack[r] /\ i - 1 # 1 /\ (i - 1) + 1 = i
    BY <1>3, <1>4
  <2> QED
    BY <2>1, <1>3
<1>8. Walk!StackInOrder(task.calls, new)
  <2>1. Walk!StackInOrder(task.calls, stack[r])
    BY DEF Walk!WalkInv
  <2>2. x.d = Len(stack[r]) - 1
    BY <2>1, <1>2, <1>3 DEF Walk!StackInOrder
  <2> HIDE DEF Walk!Frame
  <2>4. y.d = Len(new) - 1 /\ x.d = Len(new) - 2
    BY <2>2, <1>3
  <2>3. ASSUME NEW i \in DOMAIN new
        PROVE  /\ new[i].d = Len(new) - i
               /\ i # 1 => new[i].at = "loop"
               /\ \A t \in new[i].todo : <<new[i].sym, t>> \in task.calls
    <3>1. CASE i = 1
      BY <3>1, <2>4, <1>3
    <3>2. CASE i = 2
      BY <3>2, <2>4, <1>3
    <3>3. CASE i - 1 \in DOMAIN stack[r] /\ i - 1 # 1 /\ new[i] = stack[r][i - 1]
      BY <3>3, <2>1, <1>3, <1>4 DEF Walk!StackInOrder
    <3> QED
      BY <3>1, <3>2, <3>3, <1>7
  <2> QED
    BY <2>3 DEF Walk!StackInOrder
<1>9. \A i \in DOMAIN new : new[i].at # "enter" =>
        /\ from[i] \in DOMAIN stack[r] /\ stack[r][from[i]].sym = new[i].sym
        /\ task.name[new[i].sym] \in visited'
        /\ stack[r][from[i]].at # "enter" \/ (from[i] = 1 /\ ~Walk!Seen(new[i].sym))
  <2> SUFFICES ASSUME NEW i \in DOMAIN new, new[i].at # "enter"
               PROVE  /\ i - 1 \in DOMAIN stack[r] /\ stack[r][i - 1].sym = new[i].sym
                      /\ task.name[new[i].sym] \in visited'
                      /\ stack[r][i - 1].at # "enter"
    OBVIOUS
  <2>1. CASE i = 2
    BY <2>1, <1>2, <1>3 DEF Walk!WalkInv, Walk!Marked, Walk!Seen
  <2>2. CASE i - 1 \in DOMAIN stack[r] /\ new[i] = stack[r][i - 1]
    BY <2>2 DEF Walk!WalkInv, Walk!Marked, Walk!Seen
  <2> QED
    BY <2>1, <2>2, <1>3, <1>7
<1>10. Walk!Marked' /\ Walk!AskedOnce'
  <2> HIDE DEF from
  <2> QED
    BY <1>5, <1>9, <1>0, OnceKept
<1>11. \A q \in waiting' : stack'[q] = <<>>
  BY <1>1, <1>2, <1>5 DEF Walk!WalkInv, Walk!TypeOK, Walk!Task
<1>12. \A q \in Symbols : Walk!StackInOrder(task.calls, stack[q])'
  BY <1>5, <1>8, StacksInOrder
<1> QED
  BY <1>5, <1>6, <1>10, <1>11, <1>12

(* A goroutine walks, and roots wait, only while a task is in progress.      *)
LEMMA InWalk ==
    ASSUME Walk!WalkInv,
           (\E r \in Symbols : \E at : Walk!TopAt(r, at)) \/ waiting # {}
    PROVE  task # Walk!NoTask
<1> SUFFICES ASSUME task = Walk!NoTask PROVE FALSE
  OBVIOUS
<1>1. waiting = {} /\ \A r \in Symbols : stack[r] = <<>>
  BY DEF Walk!WalkInv, Walk!Resting
<1> QED
  BY <1>1 DEF Walk!TopAt, Walk!Walking

(* What the invariant asks of a step of one goroutine, put together.         *)
LEMMA Together ==
    ASSUME Walk!WalkInv, task' = task, task # Walk!NoTask, waiting' \subseteq waiting,
           visited' \subseteq Symbols, nodes' \subseteq Symbols, edges' \subseteq task.calls,
           cut' \in [ended : BOOLEAN, failed : BOOLEAN],
           stack' \in [Symbols -> Seq(Walk!Frame)],
           \A q \in Symbols : Walk!StackInOrder(task.calls, stack[q])',
           Walk!Marked', Walk!AskedOnce', \A q \in waiting' : stack'[q] = <<>>,
           Walk!Thorough' => Walk!NothingMissed'
    PROVE  Walk!WalkInv'
<1>1. Walk!TypeOK'
  BY DEF Walk!WalkInv, Walk!TypeOK
<1>2. task' # Walk!NoTask'
  BY DEF Walk!NoTask
<1> QED
  BY <1>1, <1>2 DEF Walk!WalkInv

LEMMA LaunchFits ==
    ASSUME Walk!WalkInv, NEW r \in Symbols, Walk!Launch(r) PROVE Walk!WalkInv'
<1> DEFINE new == <<Walk!Call(r, 0)>>
<1>1. /\ r \in waiting /\ waiting' = waiting \ {r} /\ stack' = [stack EXCEPT ![r] = new]
      /\ task' = task /\ visited' = visited /\ nodes' = nodes /\ edges' = edges /\ cut' = cut
  BY DEF Walk!Launch, Walk!Push, Walk!graph
<1>2. stack[r] = <<>> /\ Walk!TypeOK
  BY <1>1 DEF Walk!WalkInv
<1>3. task # Walk!NoTask
  BY <1>1, InWalk
<1>4. Walk!Call(r, 0) \in Walk!Frame
  BY DEF Walk!Call, Walk!Frame
<1>5. new \in Seq(Walk!Frame) /\ DOMAIN new = {1} /\ Len(new) = 1
      /\ new[1].sym = r /\ new[1].d = 0 /\ new[1].at = "enter" /\ new[1].todo = {}
  <2> DEFINE F == Walk!Frame
             x == Walk!Call(r, 0)
  <2>1. x \in F /\ x.sym = r /\ x.d = 0 /\ x.at = "enter" /\ x.todo = {}
    BY <1>4 DEF Walk!Call
  <2> HIDE DEF F, x
  <2>2. <<x>> \in Seq(F) /\ DOMAIN <<x>> = {1} /\ Len(<<x>>) = 1 /\ <<x>>[1] = x
    BY <2>1
  <2> QED
    BY <2>1, <2>2 DEF F, x
<1> HIDE DEF new
<1>6. stack' \in [Symbols -> Seq(Walk!Frame)] /\ \A q \in Symbols : stack'[q] = IF q = r THEN new ELSE stack[q]
  BY <1>1, <1>2, <1>5 DEF Walk!TypeOK
<1>7. \A q \in waiting' : stack'[q] = <<>>
  BY <1>1, <1>2, <1>6 DEF Walk!WalkInv, Walk!TypeOK, Walk!Task
<1>8. \A q \in Symbols : Walk!StackInOrder(task.calls, stack[q])'
  <2>1. Walk!StackInOrder(task.calls, new)
    BY <1>5 DEF Walk!StackInOrder
  <2> QED
    BY <1>1, <2>1, StacksInOrder
<1>9. Walk!Marked' /\ Walk!AskedOnce'
  <2> DEFINE from == [i \in DOMAIN new |-> i]
  <2>1. \A i, j \in DOMAIN new : from[i] = from[j] => i = j
    OBVIOUS
  <2>2. \A i \in DOMAIN new : new[i].at = "enter"
    BY <1>5
  <2> HIDE DEF from
  <2> QED
    BY <1>1, <2>1, <2>2, OnceKept
<1>10. ASSUME Walk!Thorough' PROVE Walk!NothingMissed'
  <2>1. Walk!Thorough
    BY <1>1, <1>10, ThoroughBefore
  <2>2. r \in task.roots
    BY <1>1, <1>2 DEF Walk!TypeOK
  <2>3. r \in Walk!Reached(task.calls, task.roots) \ External
    BY <2>1, <2>2 DEF Walk!Thorough, Walk!Reached
  <2>4. Walk!Known(r)'
    <3>1. stack'[r] = <<Walk!Call(r, 0)>>
      BY <1>6 DEF new
    <3>2. Walk!Top(r)'.at = "enter" /\ Walk!Top(r)'.sym = r /\ stack'[r] # <<>>
      BY <3>1 DEF Walk!Top, Walk!Call
    <3> QED
      BY <3>2 DEF Walk!Known, Walk!TopAt, Walk!Walking
  <2>5. ~Walk!TopAt(r, "enter")
    BY <1>2 DEF Walk!TopAt, Walk!Walking
  <2>6. \A i \in DOMAIN stack[r] : FALSE
    BY <1>2
  <2>7. nodes \subseteq Symbols /\ edges \subseteq task.calls
    BY <1>2 DEF Walk!TypeOK
  <2>8. \A s \in Symbols : Walk!Seen(s)' => Walk!Seen(s)
    BY <1>1 DEF Walk!Seen
  <2>9. \A j \in DOMAIN new : new[j].sym \in Walk!Reached(task.calls, task.roots) \ External
    BY <1>5, <2>3
  <2>10. \A s \in waiting \ waiting' : Walk!Known(s)'
    BY <1>1, <2>4
  <2> QED
    BY <1>1, <2>1, <2>5, <2>6, <2>7, <2>8, <2>9, <2>10, Missed
<1> QED
  BY <1>1, <1>2, <1>3, <1>6, <1>7, <1>8, <1>9, <1>10, Together DEF Walk!TypeOK

(* The steps after which a walk need not find everything.                    *)
LEMMA CutShort ==
    ASSUME Walk!WalkInv,
           \/ \E r \in Symbols : Walk!SkipRoot(r)
           \/ Walk!StopLaunching
           \/ Walk!Cancel
    PROVE  Walk!WalkInv'
<1>1. /\ task' = task /\ stack' = stack /\ visited' = visited /\ nodes' = nodes
      /\ edges' = edges /\ waiting' \subseteq waiting
  BY DEF Walk!SkipRoot, Walk!StopLaunching, Walk!Cancel, Walk!graph
<1>2. cut' \in [ended : BOOLEAN, failed : BOOLEAN] /\ (cut'.ended \/ cut'.failed)
  BY DEF Walk!WalkInv, Walk!TypeOK, Walk!SkipRoot, Walk!StopLaunching, Walk!Cancel
<1>3. ~Walk!Thorough'
  BY <1>2 DEF Walk!Thorough, Walk!Whole
<1>4. Walk!TypeOK
  BY DEF Walk!WalkInv
<1>5. task # Walk!NoTask
  BY InWalk DEF Walk!SkipRoot, Walk!StopLaunching, Walk!Cancel
<1>6. Walk!Marked' /\ Walk!AskedOnce'
  BY <1>1 DEF Walk!WalkInv, Walk!Marked, Walk!AskedOnce, Walk!Seen
<1>7. \A q \in Symbols : Walk!StackInOrder(task.calls, stack[q])'
  BY <1>1 DEF Walk!WalkInv, Walk!StackInOrder
<1>8. \A q \in waiting' : stack'[q] = <<>>
  BY <1>1 DEF Walk!WalkInv
<1> QED
  BY <1>1, <1>2, <1>3, <1>4, <1>5, <1>6, <1>7, <1>8, Together DEF Walk!TypeOK

(* A frame that has nothing left to do is popped without loss.               *)
LEMMA PoppedWhole ==
    ASSUME Walk!WalkInv, Walk!Thorough, NEW r \in Symbols, NEW at, Walk!TopAt(r, at),
           task' = task, waiting' = waiting, visited' = visited, nodes' = nodes,
           edges' = edges, Walk!Pop(r),
           \/ at = "enter" /\ Walk!Seen(Walk!Top(r).sym)
           \/ at = "loop" /\ Walk!Top(r).todo = {}
    PROVE  Walk!NothingMissed'
<1> SUFFICES ASSUME NEW new, new = Tail(stack[r]) PROVE Walk!NothingMissed'
  OBVIOUS
<1>1. Walk!TypeOK /\ Walk!NothingMissed
  BY DEF Walk!WalkInv
<1>2. /\ stack[r] \in Seq(Walk!Frame) /\ stack[r] # <<>> /\ Walk!Top(r) = stack[r][1]
      /\ Walk!Top(r) \in Walk!Frame /\ Walk!Top(r).at = at
  BY <1>1, TopFrame
<1>3. /\ \A i \in DOMAIN new : i + 1 \in DOMAIN stack[r] /\ new[i] = stack[r][i + 1]
      /\ \A i \in DOMAIN stack[r] : i # 1 => i - 1 \in DOMAIN new /\ new[i - 1] = stack[r][i]
  BY <1>2, Frames
<1>4. stack' = [stack EXCEPT ![r] = new]
  BY Popped
<1>5. Walk!TopAt(r, "enter") => task.name[Walk!Top(r).sym] \in visited'
  BY <1>2 DEF Walk!TopAt, Walk!Seen
<1>6. ASSUME NEW i \in DOMAIN stack[r], NEW s \in Symbols, Walk!Follows(stack[r][i], s)
      PROVE  Walk!Followed(s)' \/ \E j \in DOMAIN new : Walk!Follows(new[j], s)'
  <2>1. CASE i = 1
    <3>1. at = "loop" /\ Walk!Top(r).todo = {}
      BY <1>2, <1>6, <2>1 DEF Walk!Follows
    <3> QED
      BY <1>2, <1>6, <2>1, <3>1 DEF Walk!Follows, Walk!Followed
  <2>2. CASE i # 1
    <3>1. i - 1 \in DOMAIN new /\ Walk!Follows(new[i - 1], s)
      BY <1>3, <1>6, <2>2
    <3>2. \A x : Walk!Follows(x, s) => Walk!Follows(x, s)'
      BY DEF Walk!Follows
    <3> QED
      BY <3>1, <3>2
  <2> QED
    BY <2>1, <2>2
<1>7. \A j \in DOMAIN new : new[j].sym \in Walk!Reached(task.calls, task.roots) \ External
  BY <1>1, <1>3 DEF Walk!NothingMissed
<1>8. nodes \subseteq Symbols /\ edges \subseteq task.calls
  BY <1>1 DEF Walk!TypeOK
<1>9. \A s \in Symbols : Walk!Seen(s)' => Walk!Seen(s)
  BY DEF Walk!Seen
<1> QED
  BY <1>4, <1>5, <1>6, <1>7, <1>8, <1>9, Missed

LEMMA TurnBackFits ==
    ASSUME Walk!WalkInv, NEW r \in Symbols, Walk!TurnBack(r) PROVE Walk!WalkInv'
<1>1. /\ Walk!TopAt(r, "enter") /\ Walk!Pop(r) /\ task' = task /\ waiting' = waiting
      /\ visited' = visited /\ nodes' = nodes /\ edges' = edges /\ cut' = cut
  BY DEF Walk!TurnBack, Walk!graph
<1>2. Walk!TypeOK /\ task # Walk!NoTask
  BY <1>1, InWalk DEF Walk!WalkInv
<1>3. ASSUME Walk!Thorough' PROVE Walk!NothingMissed'
  <2>1. Walk!Thorough
    BY <1>1, <1>3, ThoroughBefore
  <2>2. Walk!Seen(Walk!Top(r).sym)
    <3>1. ~cut.ended
      BY <2>1 DEF Walk!Thorough, Walk!Whole
    <3>2. CASE Walk!Top(r).d > task.depth
      <4>1. Walk!Top(r).d \in Nat /\ task.depth \in Nat
        BY <1>1, <1>2, TopFrame DEF Walk!Frame, Walk!TypeOK, Walk!Task
      <4> QED
        BY <1>1, <2>1, <3>2, <4>1, DeepEnough
    <3>3. CASE task.name[Walk!Top(r).sym] \in visited
      BY <3>3 DEF Walk!Seen
    <3> QED
      BY <3>1, <3>2, <3>3 DEF Walk!TurnBack
  <2> QED
    BY <1>1, <2>1, <2>2, PoppedWhole
<1>4. /\ stack' \in [Symbols -> Seq(Walk!Frame)]
      /\ \A q \in Symbols : Walk!StackInOrder(task.calls, stack[q])'
      /\ Walk!Marked' /\ Walk!AskedOnce'
      /\ \A q \in waiting' : stack'[q] = <<>>
  BY <1>1, Popped
<1> QED
  BY <1>1, <1>2, <1>3, <1>4, Together DEF Walk!TypeOK

LEMMA ReturnFits ==
    ASSUME Walk!WalkInv, NEW r \in Symbols, Walk!Return(r) PROVE Walk!WalkInv'
<1>1. /\ Walk!TopAt(r, "loop") /\ Walk!Pop(r) /\ task' = task /\ waiting' = waiting
      /\ visited' = visited /\ nodes' = nodes /\ edges' = edges /\ cut' = cut
      /\ Walk!Top(r).todo = {}
  BY DEF Walk!Return, Walk!graph
<1>2. Walk!TypeOK /\ task # Walk!NoTask
  BY <1>1, InWalk DEF Walk!WalkInv
<1>3. ASSUME Walk!Thorough' PROVE Walk!NothingMissed'
  BY <1>1, <1>3, ThoroughBefore, PoppedWhole
<1>4. /\ stack' \in [Symbols -> Seq(Walk!Frame)]
      /\ \A q \in Symbols : Walk!StackInOrder(task.calls, stack[q])'
      /\ Walk!Marked' /\ Walk!AskedOnce'
      /\ \A q \in waiting' : stack'[q] = <<>>
  BY <1>1, Popped
<1> QED
  BY <1>1, <1>2, <1>3, <1>4, Together DEF Walk!TypeOK

LEMMA ChildrenFailFits ==
    ASSUME Walk!WalkInv, NEW r \in Symbols, Walk!ChildrenFail(r) PROVE Walk!WalkInv'
<1>1. /\ Walk!TopAt(r, "ask") /\ Walk!Pop(r) /\ task' = task /\ waiting' = waiting
      /\ visited' = visited /\ nodes' = nodes /\ edges' = edges
      /\ cut' = [cut EXCEPT !.failed = TRUE]
  BY DEF Walk!ChildrenFail, Walk!graph
<1>2. Walk!TypeOK /\ task # Walk!NoTask
  BY <1>1, InWalk DEF Walk!WalkInv
<1>3. cut' \in [ended : BOOLEAN, failed : BOOLEAN] /\ cut'.failed
  BY <1>1, <1>2 DEF Walk!TypeOK
<1>4. ~Walk!Thorough'
  BY <1>3 DEF Walk!Thorough, Walk!Whole
<1>5. /\ stack' \in [Symbols -> Seq(Walk!Frame)]
      /\ \A q \in Symbols : Walk!StackInOrder(task.calls, stack[q])'
      /\ Walk!Marked' /\ Walk!AskedOnce'
      /\ \A q \in waiting' : stack'[q] = <<>>
  BY <1>1, Popped
<1> QED
  BY <1>1, <1>2, <1>3, <1>4, <1>5, Together DEF Walk!TypeOK

LEMMA EnterFits ==
    ASSUME Walk!WalkInv, NEW r \in Symbols, Walk!Enter(r) PROVE Walk!WalkInv'
<1> DEFINE sym == Walk!Top(r).sym
<1>1. /\ Walk!TopAt(r, "enter") /\ task' = task /\ waiting' = waiting /\ edges' = edges
      /\ cut' = cut /\ visited' = visited \cup {task.name[sym]} /\ nodes' = nodes \cup {sym}
      /\ task.name[sym] \notin visited
  BY DEF Walk!Enter, Walk!Mark
<1>2. Walk!TypeOK /\ task # Walk!NoTask
  BY <1>1, InWalk DEF Walk!WalkInv
<1>3. /\ stack[r] \in Seq(Walk!Frame) /\ stack[r] # <<>> /\ Walk!Top(r) = stack[r][1]
      /\ Walk!Top(r) \in Walk!Frame /\ Walk!Top(r).at = "enter" /\ sym \in Symbols
      /\ 1 \in DOMAIN stack[r] /\ Walk!Under(r) = Tail(stack[r])
  BY <1>1, <1>2, TopFrame
<1>4. task.name \in [Symbols -> Symbols] /\ task.name[sym] \in Symbols
  BY <1>2, <1>3 DEF Walk!TypeOK, Walk!Task
<1>5. visited' \subseteq Symbols /\ nodes' \subseteq Symbols /\ edges' \subseteq task.calls
      /\ cut' \in [ended : BOOLEAN, failed : BOOLEAN]
  BY <1>1, <1>2, <1>3, <1>4 DEF Walk!TypeOK
<1>6. CASE task.frugal /\ Walk!Top(r).d = task.depth
  <2>1. Walk!Pop(r)
    BY <1>6 DEF Walk!Enter
  <2>2. ~Walk!Thorough'
    <3>1. ASSUME Walk!Thorough' PROVE FALSE
      <4>1. Walk!Thorough
        BY <1>1, <3>1, ThoroughBefore
      <4>2. Walk!Top(r).d >= task.depth
        BY <1>2, <1>6 DEF Walk!TypeOK, Walk!Task
      <4> QED
        BY <1>1, <4>1, <4>2, DeepEnough DEF Walk!Seen
    <3> QED
      BY <3>1
  <2>3. /\ stack' \in [Symbols -> Seq(Walk!Frame)]
        /\ \A q \in Symbols : Walk!StackInOrder(task.calls, stack[q])'
        /\ Walk!Marked' /\ Walk!AskedOnce'
        /\ \A q \in waiting' : stack'[q] = <<>>
    BY <1>1, <2>1, Popped
  <2> QED
    BY <1>1, <1>2, <1>5, <2>2, <2>3, Together
<1>7. CASE ~(task.frugal /\ Walk!Top(r).d = task.depth)
  <2> SUFFICES ASSUME NEW x, x = [Walk!Top(r) EXCEPT !.at = "ask"],
                      NEW new, new = <<x>> \o Tail(stack[r])
               PROVE  Walk!WalkInv'
    OBVIOUS
  <2>1. Walk!Push(r, <<x>> \o Walk!Under(r))
    BY <1>7 DEF Walk!Enter
  <2>2. /\ x \in Walk!Frame /\ x.sym = sym /\ x.d = Walk!Top(r).d /\ x.at = "ask"
        /\ x.todo = Walk!Top(r).todo
    BY <1>3 DEF Walk!Frame
  <2>3. \A t \in x.todo : <<x.sym, t>> \in task.calls
    BY <1>3, <2>2 DEF Walk!WalkInv, Walk!StackInOrder
  <2>4. /\ stack' \in [Symbols -> Seq(Walk!Frame)]
        /\ stack' = [stack EXCEPT ![r] = new]
        /\ \A q \in Symbols : Walk!StackInOrder(task.calls, stack[q])'
        /\ Walk!Marked' /\ Walk!AskedOnce'
        /\ \A q \in waiting' : stack'[q] = <<>>
    <3>1. task.name[x.sym] \in visited' /\ ~Walk!Seen(x.sym) /\ x.at # "enter"
          /\ visited \subseteq visited'
      BY <1>1, <2>2 DEF Walk!Seen
    <3> QED
      BY <1>1, <2>1, <2>2, <2>3, <3>1, Replaced
  <2>5. /\ new[1] = x /\ DOMAIN new = DOMAIN stack[r]
        /\ \A i \in DOMAIN stack[r] : i # 1 => new[i] = stack[r][i]
    BY <1>3, <2>2, Replacing
  <2>6. ASSUME Walk!Thorough' PROVE Walk!NothingMissed'
    <3>1. Walk!Thorough /\ Walk!NothingMissed
      BY <1>1, <2>6, ThoroughBefore DEF Walk!WalkInv
    <3>2. ASSUME NEW i \in DOMAIN stack[r], NEW s \in Symbols, Walk!Follows(stack[r][i], s)
          PROVE  \E j \in DOMAIN new : Walk!Follows(new[j], s)'
      <4>1. i # 1
        BY <1>3, <3>2 DEF Walk!Follows
      <4>2. Walk!Follows(new[i], s)
        BY <2>5, <3>2, <4>1
      <4>3. \A y : Walk!Follows(y, s) => Walk!Follows(y, s)'
        BY <1>1 DEF Walk!Follows
      <4> QED
        BY <2>5, <4>2, <4>3
    <3>3. \A j \in DOMAIN new : new[j].sym \in Walk!Reached(task.calls, task.roots) \ External
      <4>1. ASSUME NEW j \in DOMAIN new PROVE new[j].sym = stack[r][j].sym /\ j \in DOMAIN stack[r]
        BY <1>3, <2>2, <2>5, <4>1
      <4> QED
        BY <3>1, <4>1 DEF Walk!NothingMissed
    <3>4. sym \in Walk!Reached(task.calls, task.roots) \ External
      BY <1>3, <3>1 DEF Walk!NothingMissed
    <3>5. \A s \in nodes' \ nodes : s \in Walk!Reached(task.calls, task.roots) \ External
                                    /\ Walk!Known(s)'
      BY <1>1, <3>4 DEF Walk!Known, Walk!Seen
    <3>6. ASSUME NEW s \in Symbols, Walk!Seen(s)', ~Walk!Seen(s)
          PROVE  s \in nodes' /\ Walk!Going(s)'
      <4>1. s = sym
        BY <1>1, <1>3, <3>1, <3>6 DEF Walk!Seen, Walk!Thorough, Walk!DistinctNames
      <4>2. stack'[r] = new
        BY <2>4, <1>2 DEF Walk!TypeOK
      <4>3. Walk!Follows(x, s)'
        BY <2>2, <4>1 DEF Walk!Follows
      <4>4. \E i \in DOMAIN stack'[r] : Walk!Follows(stack[r][i], s)'
        <5>1. 1 \in DOMAIN stack'[r] /\ stack'[r][1] = x
          BY <2>5, <4>2
        <5> QED
          BY <4>3, <5>1 DEF Walk!Follows
      <4> QED
        BY <1>1, <4>1, <4>4 DEF Walk!Going
    <3>7. Walk!TopAt(r, "enter") => task.name[Walk!Top(r).sym] \in visited'
      BY <1>1
    <3>8. visited \subseteq visited' /\ nodes \subseteq nodes'
      BY <1>1
    <3> QED
      BY <1>1, <1>5, <2>4, <3>1, <3>2, <3>3, <3>5, <3>6, <3>7, <3>8, Missed
  <2> QED
    BY <1>1, <1>2, <1>5, <2>4, <2>6, Together
<1> QED
  BY <1>6, <1>7

LEMMA ChildrenFits ==
    ASSUME Walk!WalkInv, NEW r \in Symbols, Walk!Children(r) PROVE Walk!WalkInv'
<1>0. SUFFICES ASSUME NEW x, x = [Walk!Top(r) EXCEPT !.at = "loop",
                      !.todo = {e[2] : e \in {c \in task.calls : c[1] = Walk!Top(r).sym}}],
                    NEW new, new = <<x>> \o Tail(stack[r])
             PROVE  Walk!WalkInv'
  OBVIOUS
<1>1. /\ Walk!TopAt(r, "ask") /\ task' = task /\ waiting' = waiting /\ edges' = edges
      /\ cut' = cut /\ visited' = visited /\ nodes' = nodes /\ Walk!Push(r, <<x>> \o Walk!Under(r))
  BY <1>0 DEF Walk!Children, Walk!graph
<1>2. Walk!TypeOK /\ task # Walk!NoTask
  BY <1>1, InWalk DEF Walk!WalkInv
<1>3. /\ stack[r] \in Seq(Walk!Frame) /\ stack[r] # <<>> /\ Walk!Top(r) = stack[r][1]
      /\ Walk!Top(r) \in Walk!Frame /\ Walk!Top(r).at = "ask" /\ Walk!Top(r).sym \in Symbols
      /\ 1 \in DOMAIN stack[r] /\ Walk!Under(r) = Tail(stack[r])
  BY <1>1, <1>2, TopFrame
<1>4. task.calls \subseteq Symbols \X Symbols
  BY <1>2 DEF Walk!TypeOK, Walk!Task
<1>5. /\ x \in Walk!Frame /\ x.sym = Walk!Top(r).sym /\ x.d = Walk!Top(r).d /\ x.at = "loop"
      /\ x.todo = {e[2] : e \in {c \in task.calls : c[1] = Walk!Top(r).sym}}
  BY <1>0, <1>3, <1>4 DEF Walk!Frame
<1>10. new = <<x>> \o Tail(stack[r]) /\ x \in Walk!Frame /\ x.sym = Walk!Top(r).sym
       /\ x.d = Walk!Top(r).d /\ x.at # "enter"
  BY <1>0, <1>5
<1>6. \A t \in x.todo : <<x.sym, t>> \in task.calls
  <2> SUFFICES ASSUME NEW t \in x.todo PROVE <<x.sym, t>> \in task.calls
    OBVIOUS
  <2>1. PICK c \in task.calls : c[1] = x.sym /\ c[2] = t
    BY <1>5
  <2> QED
    BY <1>4, <2>1
<1>7. /\ stack' \in [Symbols -> Seq(Walk!Frame)]
      /\ stack' = [stack EXCEPT ![r] = new]
      /\ \A q \in Symbols : Walk!StackInOrder(task.calls, stack[q])'
      /\ Walk!Marked' /\ Walk!AskedOnce'
      /\ \A q \in waiting' : stack'[q] = <<>>
  <2>1. task.name[x.sym] \in visited' /\ x.at # "enter" /\ visited \subseteq visited'
    <3>1. Walk!Seen(stack[r][1].sym)
      BY <1>3 DEF Walk!WalkInv, Walk!Marked
    <3> QED
      BY <1>1, <1>3, <1>5, <3>1 DEF Walk!Seen
  <2> QED
    BY <1>1, <1>10, <1>6, <2>1, Replaced
<1>8. /\ new[1] = x /\ DOMAIN new = DOMAIN stack[r]
      /\ \A i \in DOMAIN stack[r] : i # 1 => new[i] = stack[r][i]
  BY <1>3, <1>10, Replacing
<1>9. ASSUME Walk!Thorough' PROVE Walk!NothingMissed'
  <2>1. Walk!Thorough /\ Walk!NothingMissed
    BY <1>1, <1>9, ThoroughBefore DEF Walk!WalkInv
  <2>2. ASSUME NEW i \in DOMAIN stack[r], NEW s \in Symbols, Walk!Follows(stack[r][i], s)
        PROVE  \E j \in DOMAIN new : Walk!Follows(new[j], s)'
    <3>1. \A y : Walk!Follows(y, s) => Walk!Follows(y, s)'
      BY <1>1 DEF Walk!Follows
    <3>2. CASE i = 1
      <4>1. x.sym = s
        BY <1>3, <1>5, <2>2, <3>2 DEF Walk!Follows
      <4>2. Walk!Follows(x, s)
        BY <4>1, <1>5 DEF Walk!Follows
      <4> QED
        BY <1>3, <1>8, <3>1, <4>2
    <3>3. CASE i # 1
      BY <1>8, <2>2, <3>1, <3>3
    <3> QED
      BY <3>2, <3>3
  <2>3. \A j \in DOMAIN new : new[j].sym \in Walk!Reached(task.calls, task.roots) \ External
    <3>1. ASSUME NEW j \in DOMAIN new PROVE new[j].sym = stack[r][j].sym /\ j \in DOMAIN stack[r]
      BY <1>3, <1>5, <1>8, <3>1
    <3> QED
      BY <2>1, <3>1 DEF Walk!NothingMissed
  <2>4. nodes \subseteq Symbols /\ edges \subseteq task.calls
    BY <1>2 DEF Walk!TypeOK
  <2>5. \A s \in Symbols : Walk!Seen(s)' => Walk!Seen(s)
    BY <1>1 DEF Walk!Seen
  <2>6. ~Walk!TopAt(r, "enter")
    BY <1>3 DEF Walk!TopAt
  <2> QED
    BY <1>1, <1>7, <2>1, <2>2, <2>3, <2>4, <2>5, <2>6, Missed
<1> QED
  BY <1>1, <1>2, <1>7, <1>9, Together DEF Walk!TypeOK

(* What is called from within the workspace is reached from it.              *)
LEMMA ReachedOn ==
    ASSUME NEW calls \in SUBSET (Symbols \X Symbols), NEW S, NEW s, NEW t,
           s \in Walk!Reached(calls, S) \ External, <<s, t>> \in calls
    PROVE  t \in Walk!Reached(calls, S)
<1>1. t \in Symbols
  OBVIOUS
<1>2. ASSUME NEW C \in SUBSET Symbols, S \subseteq C, Walk!Closed(calls, C) PROVE t \in C
  <2>1. s \in C
    BY <1>2 DEF Walk!Reached
  <2>2. \A c \in calls : c[1] \in C \ External => c[2] \in C
    BY <1>2 DEF Walk!Closed
  <2> QED
    BY <2>1, <2>2
<1> QED
  BY <1>1, <1>2 DEF Walk!Reached

LEMMA FollowOutFits ==
    ASSUME Walk!WalkInv, NEW r \in Symbols, NEW s \in Symbols, Walk!Follow(r, s), s \in External
    PROVE  Walk!WalkInv'
<1>0. SUFFICES ASSUME NEW sym, sym = Walk!Top(r).sym, NEW x, x = [Walk!Top(r) EXCEPT !.todo = Walk!Top(r).todo \ {s}],
                      NEW new, new = <<x>> \o Tail(stack[r])
               PROVE  Walk!WalkInv'
  OBVIOUS
<1>1. /\ Walk!TopAt(r, "loop") /\ task' = task /\ waiting' = waiting /\ cut' = cut
      /\ visited' = visited /\ nodes' = nodes /\ edges' = edges \cup {<<sym, s>>}
      /\ s \in Walk!Top(r).todo /\ Walk!Push(r, <<x>> \o Walk!Under(r))
  BY <1>0 DEF Walk!Follow
<1>2. Walk!TypeOK /\ task # Walk!NoTask
  BY <1>1, InWalk DEF Walk!WalkInv
<1>3. /\ stack[r] \in Seq(Walk!Frame) /\ stack[r] # <<>> /\ Walk!Top(r) = stack[r][1]
      /\ Walk!Top(r) \in Walk!Frame /\ Walk!Top(r).at = "loop" /\ sym \in Symbols
      /\ 1 \in DOMAIN stack[r] /\ Walk!Under(r) = Tail(stack[r])
  BY <1>0, <1>1, <1>2, TopFrame
<1>4. \A t \in Walk!Top(r).todo : <<sym, t>> \in task.calls
  BY <1>0, <1>3 DEF Walk!WalkInv, Walk!StackInOrder
<1>5. edges' \subseteq task.calls
  BY <1>1, <1>2, <1>4 DEF Walk!TypeOK
<1>6. /\ x \in Walk!Frame /\ x.sym = sym /\ x.d = Walk!Top(r).d /\ x.at = "loop"
      /\ x.todo = Walk!Top(r).todo \ {s}
  BY <1>0, <1>3 DEF Walk!Frame
<1>7. Walk!Seen(sym)
  BY <1>0, <1>3 DEF Walk!WalkInv, Walk!Marked
<1>8. /\ stack' \in [Symbols -> Seq(Walk!Frame)]
      /\ stack' = [stack EXCEPT ![r] = new]
      /\ \A q \in Symbols : Walk!StackInOrder(task.calls, stack[q])'
      /\ Walk!Marked' /\ Walk!AskedOnce'
      /\ \A q \in waiting' : stack'[q] = <<>>
  <2>1. task.name[x.sym] \in visited' /\ x.at # "enter" /\ visited \subseteq visited'
    BY <1>1, <1>6, <1>7 DEF Walk!Seen
  <2>2. \A t \in x.todo : <<x.sym, t>> \in task.calls
    BY <1>4, <1>6
  <2>3. new = <<x>> \o Tail(stack[r])
    BY <1>0
  <2>4. x.sym = Walk!Top(r).sym
    BY <1>0, <1>6
  <2> QED
    BY <1>1, <1>6, <2>1, <2>2, <2>3, <2>4, Replaced
<1>9. /\ new[1] = x /\ DOMAIN new = DOMAIN stack[r]
      /\ \A i \in DOMAIN stack[r] : i # 1 => new[i] = stack[r][i]
  <2>1. new = <<x>> \o Tail(stack[r]) /\ x \in Walk!Frame
    BY <1>0, <1>6
  <2> QED
    BY <1>3, <2>1, Replacing
<1>10. ASSUME Walk!Thorough' PROVE Walk!NothingMissed'
  <2>1. Walk!Thorough /\ Walk!NothingMissed
    BY <1>1, <1>10, ThoroughBefore DEF Walk!WalkInv
  <2>2. ASSUME NEW i \in DOMAIN stack[r], NEW t \in Symbols, Walk!Follows(stack[r][i], t)
        PROVE  \E j \in DOMAIN new : Walk!Follows(new[j], t)'
    <3>1. \A y : Walk!Follows(y, t) => Walk!Follows(y, t)'
      BY <1>1 DEF Walk!Follows
    <3>2. CASE i = 1
      <4>0. sym = Walk!Top(r).sym
        BY <1>0
      <4>1. sym = t /\ \A c \in task.calls : c[1] = t => c \in edges \/ c[2] \in Walk!Top(r).todo
        BY <1>3, <2>2, <3>2, <4>0 DEF Walk!Follows
      <4>2. ASSUME NEW c \in task.calls, c[1] = t PROVE c \in edges' \/ c[2] \in x.todo
        <5>1. c = <<c[1], c[2]>>
          BY <1>2 DEF Walk!TypeOK, Walk!Task
        <5> QED
          BY <1>1, <1>6, <4>1, <4>2, <5>1
      <4>3. Walk!Follows(x, t)'
        BY <1>1, <1>6, <4>1, <4>2 DEF Walk!Follows
      <4> QED
        BY <1>3, <1>9, <4>3
    <3>3. CASE i # 1
      BY <1>9, <2>2, <3>1, <3>3
    <3> QED
      BY <3>2, <3>3
  <2>3. \A j \in DOMAIN new : new[j].sym \in Walk!Reached(task.calls, task.roots) \ External
    <3>1. ASSUME NEW j \in DOMAIN new PROVE new[j].sym = stack[r][j].sym /\ j \in DOMAIN stack[r]
      BY <1>0, <1>3, <1>6, <1>9, <3>1
    <3> QED
      BY <2>1, <3>1 DEF Walk!NothingMissed
  <2>4. nodes \subseteq Symbols /\ edges \subseteq edges'
    BY <1>1, <1>2 DEF Walk!TypeOK
  <2>5. \A t \in Symbols : Walk!Seen(t)' => Walk!Seen(t)
    BY <1>1 DEF Walk!Seen
  <2>6. ~Walk!TopAt(r, "enter")
    BY <1>3 DEF Walk!TopAt
  <2>7. \A c \in edges' \ edges : Walk!Seen(c[1])' /\ c[2] \in External
    <3>1. \A c \in edges' \ edges : c = <<sym, s>>
      BY <1>1
    <3>2. Walk!Seen(sym)' /\ \A c \in edges' \ edges : c[1] = sym /\ c[2] = s
      BY <1>1, <1>7, <3>1 DEF Walk!Seen
    <3>3. \A c \in edges' \ edges : task'.name[c[1]] \in visited'
      BY <1>1, <1>7, <3>2 DEF Walk!Seen
    <3> QED
      BY <3>2, <3>3 DEF Walk!Seen
  <2> QED
    BY <1>1, <1>5, <1>8, <2>1, <2>2, <2>3, <2>4, <2>5, <2>6, <2>7, Missed
<1> QED
  BY <1>1, <1>2, <1>5, <1>8, <1>10, Together DEF Walk!TypeOK

LEMMA FollowInFits ==
    ASSUME Walk!WalkInv, NEW r \in Symbols, NEW s \in Symbols, Walk!Follow(r, s), s \notin External
    PROVE  Walk!WalkInv'
<1>0. SUFFICES ASSUME NEW sym, sym = Walk!Top(r).sym, NEW x, x = [Walk!Top(r) EXCEPT !.todo = Walk!Top(r).todo \ {s}],
                      NEW y, y = Walk!Call(s, Walk!Top(r).d + 1),
                      NEW new, new = <<y>> \o (<<x>> \o Tail(stack[r]))
               PROVE  Walk!WalkInv'
  OBVIOUS
<1>1. /\ Walk!TopAt(r, "loop") /\ task' = task /\ waiting' = waiting /\ cut' = cut
      /\ visited' = visited /\ nodes' = nodes \cup {s} /\ edges' = edges \cup {<<sym, s>>}
      /\ s \in Walk!Top(r).todo /\ Walk!Push(r, <<y>> \o (<<x>> \o Walk!Under(r)))
  BY <1>0 DEF Walk!Follow
<1>2. Walk!TypeOK /\ task # Walk!NoTask
  BY <1>1, InWalk DEF Walk!WalkInv
<1>3. /\ stack[r] \in Seq(Walk!Frame) /\ stack[r] # <<>> /\ Walk!Top(r) = stack[r][1]
      /\ Walk!Top(r) \in Walk!Frame /\ Walk!Top(r).at = "loop" /\ sym \in Symbols
      /\ 1 \in DOMAIN stack[r] /\ Walk!Under(r) = Tail(stack[r])
  BY <1>0, <1>1, <1>2, TopFrame
<1>4. \A t \in Walk!Top(r).todo : <<sym, t>> \in task.calls
  BY <1>0, <1>3 DEF Walk!WalkInv, Walk!StackInOrder
<1>5. edges' \subseteq task.calls /\ nodes' \subseteq Symbols
  BY <1>1, <1>2, <1>4 DEF Walk!TypeOK
<1>6. /\ x \in Walk!Frame /\ x.sym = sym /\ x.d = Walk!Top(r).d /\ x.at = "loop"
      /\ x.todo = Walk!Top(r).todo \ {s}
  BY <1>0, <1>3 DEF Walk!Frame
<1>7. /\ y \in Walk!Frame /\ y.sym = s /\ y.d = x.d + 1 /\ y.at = "enter" /\ y.todo = {}
  <2>1. Walk!Top(r).d \in Nat
    BY <1>3 DEF Walk!Frame
  <2> QED
    BY <1>0, <1>6, <2>1 DEF Walk!Frame, Walk!Call
<1>8. Walk!Seen(sym)
  BY <1>0, <1>3 DEF Walk!WalkInv, Walk!Marked
<1>9. /\ stack' \in [Symbols -> Seq(Walk!Frame)]
      /\ stack' = [stack EXCEPT ![r] = new]
      /\ \A q \in Symbols : Walk!StackInOrder(task.calls, stack[q])'
      /\ Walk!Marked' /\ Walk!AskedOnce'
      /\ \A q \in waiting' : stack'[q] = <<>>
  <2>1. \A t \in x.todo : <<x.sym, t>> \in task.calls
    BY <1>4, <1>6
  <2>2. Pushes(new, y, x, stack[r]) /\ Walk!Push(r, new)
    BY <1>0, <1>1, <1>3, <1>6, <1>7 DEF Pushes
  <2>3. x.sym = Walk!Top(r).sym
    BY <1>0, <1>6
  <2> QED
    BY <1>1, <1>6, <1>7, <2>1, <2>2, <2>3, Pushed
<1>10. /\ new[1] = y /\ new[2] = x /\ 1 \in DOMAIN new /\ 2 \in DOMAIN new /\ new # <<>>
       /\ Head(new) = y
       /\ \A i \in DOMAIN stack[r] : i # 1 => i + 1 \in DOMAIN new /\ new[i + 1] = stack[r][i]
       /\ \A j \in DOMAIN new : j # 1 /\ j # 2 =>
            j - 1 \in DOMAIN stack[r] /\ new[j] = stack[r][j - 1]
  <2>1. Pushes(new, y, x, stack[r])
    BY <1>0, <1>3, <1>6, <1>7 DEF Pushes
  <2> QED
    BY <2>1, PushedFrames
<1>11. ASSUME Walk!Thorough' PROVE Walk!NothingMissed'
  <2>1. Walk!Thorough /\ Walk!NothingMissed
    BY <1>1, <1>11, ThoroughBefore DEF Walk!WalkInv
  <2>2. ASSUME NEW i \in DOMAIN stack[r], NEW t \in Symbols, Walk!Follows(stack[r][i], t)
        PROVE  \E j \in DOMAIN new : Walk!Follows(new[j], t)'
    <3>1. \A f : Walk!Follows(f, t) => Walk!Follows(f, t)'
      BY <1>1 DEF Walk!Follows
    <3>2. CASE i = 1
      <4>0. sym = Walk!Top(r).sym
        BY <1>0
      <4>1. sym = t /\ \A c \in task.calls : c[1] = t => c \in edges \/ c[2] \in Walk!Top(r).todo
        BY <1>3, <2>2, <3>2, <4>0 DEF Walk!Follows
      <4>2. ASSUME NEW c \in task.calls, c[1] = t PROVE c \in edges' \/ c[2] \in x.todo
        <5>1. c = <<c[1], c[2]>>
          BY <1>2 DEF Walk!TypeOK, Walk!Task
        <5> QED
          BY <1>1, <1>6, <4>1, <4>2, <5>1
      <4>3. Walk!Follows(x, t)'
        BY <1>1, <1>6, <4>1, <4>2 DEF Walk!Follows
      <4> QED
        BY <1>10, <4>3
    <3>3. CASE i # 1
      BY <1>10, <2>2, <3>1, <3>3
    <3> QED
      BY <3>2, <3>3
  <2>3. sym \in Walk!Reached(task.calls, task.roots) \ External
    BY <1>0, <1>3, <2>1 DEF Walk!NothingMissed
  <2>4. s \in Walk!Reached(task.calls, task.roots) \ External
    <3>1. task.calls \in SUBSET (Symbols \X Symbols) /\ <<sym, s>> \in task.calls
      BY <1>1, <1>2, <1>4 DEF Walk!TypeOK, Walk!Task
    <3> QED
      BY <2>3, <3>1, ReachedOn
  <2>5. \A j \in DOMAIN new : new[j].sym \in Walk!Reached(task.calls, task.roots) \ External
    <3> SUFFICES ASSUME NEW j \in DOMAIN new
                 PROVE  new[j].sym \in Walk!Reached(task.calls, task.roots) \ External
      OBVIOUS
    <3>1. CASE j = 1
      BY <1>7, <1>10, <2>4, <3>1
    <3>2. CASE j = 2
      BY <1>6, <1>10, <2>3, <3>2
    <3>3. CASE j # 1 /\ j # 2
      BY <1>10, <2>1, <3>3 DEF Walk!NothingMissed
    <3> QED
      BY <3>1, <3>2, <3>3
  <2>6. nodes \subseteq nodes' /\ edges \subseteq edges'
    BY <1>1
  <2>7. \A t \in Symbols : Walk!Seen(t)' => Walk!Seen(t)
    BY <1>1 DEF Walk!Seen
  <2>8. ~Walk!TopAt(r, "enter")
    BY <1>3 DEF Walk!TopAt
  <2>9. Walk!Known(s)'
    <3>1. stack'[r] = new
      BY <1>2, <1>9 DEF Walk!TypeOK
    <3>2. Walk!TopAt(r, "enter")' /\ Walk!Top(r)'.sym = s
      BY <1>7, <1>10, <3>1 DEF Walk!TopAt, Walk!Top, Walk!Walking
    <3> QED
      BY <3>2 DEF Walk!Known
  <2>10. \A c \in edges' \ edges : Walk!Seen(c[1])' /\ Walk!Known(c[2])'
    <3>1. \A c \in edges' \ edges : c = <<sym, s>>
      BY <1>1
    <3>2. Walk!Seen(sym)'
      BY <1>1, <1>8 DEF Walk!Seen
    <3>3. Walk!Seen(<<sym, s>>[1])' /\ Walk!Known(<<sym, s>>[2])'
      BY <2>9, <3>2, <1>1, <1>8 DEF Walk!Seen
    <3> QED
      BY <3>1, <3>3
  <2>11. \A t \in nodes' \ nodes :
           t \in Walk!Reached(task.calls, task.roots) \ External /\ Walk!Known(t)'
    BY <1>1, <2>4, <2>9
  <2> QED
    BY <1>1, <1>5, <1>9, <2>1, <2>2, <2>5, <2>6, <2>7, <2>8, <2>10, <2>11, Missed
<1> QED
  BY <1>1, <1>2, <1>5, <1>9, <1>11, Together DEF Walk!TypeOK

LEMMA FinishFits ==
    ASSUME Walk!WalkInv, Walk!Finish PROVE Walk!WalkInv'
<1>1. /\ task' = Walk!NoTask /\ waiting' = {} /\ stack' = [s \in Symbols |-> <<>>]
      /\ visited' = {} /\ nodes' = {} /\ edges' = {} /\ cut' = Walk!Whole
  BY DEF Walk!Finish
<1>2. Walk!NoTask \in Walk!Task /\ Walk!NoTask.roots = {}
  BY DEF Walk!NoTask, Walk!Task
<1>3. Walk!TypeOK'
  BY <1>1, <1>2 DEF Walk!TypeOK, Walk!Whole
<1>4. \A r \in Symbols : stack'[r] = <<>>
  BY <1>1
<1>5. Walk!Resting' /\ ~Walk!Thorough'
  BY <1>1 DEF Walk!Resting, Walk!Thorough, Walk!NoTask, Walk!Whole
<1>6. (\A r \in Symbols : Walk!StackInOrder(task.calls, stack[r]))' /\ Walk!Marked' /\ Walk!AskedOnce'
  BY <1>4 DEF Walk!StackInOrder, Walk!Marked, Walk!AskedOnce
<1> QED
  BY <1>1, <1>3, <1>5, <1>6 DEF Walk!WalkInv

LEMMA StillFits ==
    ASSUME Walk!WalkInv, UNCHANGED Walk!vars PROVE Walk!WalkInv'
<1>1. /\ task' = task /\ waiting' = waiting /\ stack' = stack /\ visited' = visited
      /\ nodes' = nodes /\ edges' = edges /\ cut' = cut
  BY DEF Walk!vars
<1>2. Walk!TypeOK' /\ (task = Walk!NoTask => Walk!Resting)'
  BY <1>1 DEF Walk!WalkInv, Walk!TypeOK, Walk!Resting, Walk!NoTask
<1>3. (\A r \in Symbols : Walk!StackInOrder(task.calls, stack[r]))' /\ Walk!Marked' /\ Walk!AskedOnce'
  BY <1>1 DEF Walk!WalkInv, Walk!StackInOrder, Walk!Marked, Walk!AskedOnce, Walk!Seen
<1>4. Walk!Thorough' => Walk!NothingMissed
  BY <1>1, ThoroughBefore DEF Walk!WalkInv
<1>5. \A s : Walk!Known(s) => Walk!Known(s)'
  BY <1>1 DEF Walk!Known, Walk!Seen, Walk!TopAt, Walk!Top, Walk!Walking
<1>6. \A s : (Walk!Going(s) => Walk!Going(s)') /\ (Walk!Followed(s) => Walk!Followed(s)')
  BY <1>1 DEF Walk!Going, Walk!Follows, Walk!Followed
<1>7. Walk!Reached(task.calls, task.roots)' = Walk!Reached(task.calls, task.roots)
  BY <1>1 DEF Walk!Reached, Walk!Closed
<1>8. Walk!NothingMissed => Walk!NothingMissed'
  <2> SUFFICES ASSUME Walk!NothingMissed PROVE Walk!NothingMissed'
    OBVIOUS
  <2>1. (\A r \in Symbols : \A i \in DOMAIN stack[r] :
           stack[r][i].sym \in Walk!Reached(task.calls, task.roots) \ External)'
    BY <1>1, <1>7 DEF Walk!NothingMissed
  <2>2. (\A s \in nodes : s \in Walk!Reached(task.calls, task.roots) \ External /\ Walk!Known(s))'
    BY <1>1, <1>5, <1>7 DEF Walk!NothingMissed
  <2>3. (\A s \in task.roots : s \in waiting \/ Walk!Known(s))'
    BY <1>1, <1>5 DEF Walk!NothingMissed
  <2>4. (\A c \in edges : Walk!Seen(c[1]) /\ (c[2] \in External \/ Walk!Known(c[2])))'
    BY <1>1, <1>5 DEF Walk!NothingMissed, Walk!Seen
  <2>5. (\A s \in Symbols : Walk!Seen(s) => s \in nodes /\ (Walk!Going(s) \/ Walk!Followed(s)))'
    BY <1>1, <1>6 DEF Walk!NothingMissed, Walk!Seen
  <2> QED
    BY <2>1, <2>2, <2>3, <2>4, <2>5 DEF Walk!NothingMissed
<1> QED
  BY <1>1, <1>2, <1>3, <1>4, <1>8 DEF Walk!WalkInv

(* However many goroutines share a walk, and whatever ends it early, their   *)
(* frames are in order, what they ask for is marked first, and a walk that   *)
(* is to find everything has neither lost nor invented anything.             *)
THEOREM WalkInvariant == Walk!Spec => []Walk!WalkInv
<1>1. Walk!Init => Walk!WalkInv
  BY RestingFits
<1>2. Walk!WalkInv /\ [Walk!Next]_(Walk!vars) => Walk!WalkInv'
  <2> SUFFICES ASSUME Walk!WalkInv, [Walk!Next]_(Walk!vars) PROVE Walk!WalkInv'
    OBVIOUS
  <2>1. ASSUME NEW t \in Tasks, Walk!Begin(t) PROVE Walk!WalkInv'
    BY <2>1, BeginFits
  <2>2. ASSUME NEW r \in Symbols, Walk!Step(r) PROVE Walk!WalkInv'
    <3>1. CASE Walk!Launch(r)
      BY <3>1, LaunchFits
    <3>2. CASE Walk!SkipRoot(r)
      BY <3>2, CutShort
    <3>3. CASE Walk!TurnBack(r)
      BY <3>3, TurnBackFits
    <3>4. CASE Walk!Enter(r)
      BY <3>4, EnterFits
    <3>5. CASE Walk!Children(r)
      BY <3>5, ChildrenFits
    <3>6. CASE Walk!ChildrenFail(r)
      BY <3>6, ChildrenFailFits
    <3>7. ASSUME NEW s \in Symbols, Walk!Follow(r, s) PROVE Walk!WalkInv'
      BY <3>7, FollowOutFits, FollowInFits
    <3>8. CASE Walk!Return(r)
      BY <3>8, ReturnFits
    <3> QED
      BY <2>2, <3>1, <3>2, <3>3, <3>4, <3>5, <3>6, <3>7, <3>8 DEF Walk!Step
  <2>3. CASE Walk!StopLaunching \/ Walk!Cancel
    BY <2>3, CutShort
  <2>4. CASE Walk!Finish
    BY <2>4, FinishFits
  <2>5. CASE UNCHANGED Walk!vars
    BY <2>5, StillFits
  <2> QED
    BY <2>1, <2>2, <2>3, <2>4, <2>5 DEF Walk!Next
<1> QED
  BY <1>1, <1>2, PTL DEF Walk!Spec

(* While the callees of a name are asked for and walked, no goroutine does   *)
(* so a second time, for any number of them, of roots and of symbols.        *)
THEOREM CalleesAskedOnce == Walk!Spec => []AskedOnce
<1>1. Walk!WalkInv => AskedOnce
  BY DEF Walk!WalkInv, AskedOnce
<1> QED
  BY <1>1, WalkInvariant, PTL

(* A walk that is to find everything, and is over, has.                      *)
LEMMA OverAndWhole ==
    ASSUME Walk!WalkInv, Walk!Thorough, Walk!Done PROVE Walk!FoundAll
<1> DEFINE R == Walk!Reached(task.calls, task.roots)
           C == nodes \cup (Symbols \cap External)
<1>1. Walk!TypeOK /\ Walk!NothingMissed
  BY DEF Walk!WalkInv
<1>2. waiting = {} /\ \A r \in Symbols : stack[r] = <<>>
  BY DEF Walk!Done, Walk!Walking
<1>3. \A s : Walk!Known(s) => Walk!Seen(s)
  BY <1>2 DEF Walk!Known, Walk!TopAt, Walk!Walking
<1>4. \A s : ~Walk!Going(s)
  BY <1>2 DEF Walk!Going
<1>5. \A s \in Symbols : Walk!Seen(s) => s \in nodes /\ Walk!Followed(s)
  BY <1>1, <1>4 DEF Walk!NothingMissed
<1>6. nodes \subseteq R \ External /\ \A s \in nodes : Walk!Seen(s)
  BY <1>1, <1>3 DEF Walk!NothingMissed
<1>7. task.calls \subseteq Symbols \X Symbols /\ task.roots \subseteq Symbols
      /\ nodes \subseteq Symbols /\ edges \subseteq task.calls
  BY <1>1 DEF Walk!TypeOK, Walk!Task
<1>8. task.roots \subseteq nodes
  BY <1>1, <1>2, <1>3, <1>5, <1>7 DEF Walk!NothingMissed
<1>9. \A c \in task.calls : c[1] \in nodes <=> c \in edges
  <2>1. \A c \in task.calls : c[1] \in nodes => c \in edges
    BY <1>5, <1>6, <1>7 DEF Walk!Followed
  <2>2. \A c \in edges : c[1] \in Symbols /\ Walk!Seen(c[1])
    BY <1>1, <1>7 DEF Walk!NothingMissed
  <2> QED
    BY <1>5, <2>1, <2>2
<1>10. \A c \in edges : c[2] \in C
  <2>1. \A c \in edges : c[2] \in Symbols /\ (c[2] \in External \/ Walk!Known(c[2]))
    BY <1>1, <1>7 DEF Walk!NothingMissed
  <2> QED
    BY <1>3, <1>5, <2>1
<1>11. Walk!Closed(task.calls, C)
  BY <1>9, <1>10 DEF Walk!Closed
<1>12. R \subseteq C
  BY <1>7, <1>8, <1>11 DEF Walk!Reached
<1> HIDE DEF R
<1>13. nodes \ External = R \ External
  BY <1>6, <1>12
<1>14. edges = {c \in task.calls : c[1] \in nodes \ External}
  BY <1>6, <1>7, <1>9
<1> QED
  BY <1>13, <1>14 DEF Walk!FoundAll, R

(* A walk that ends in time, with a source that does not fail and a depth no *)
(* chain of calls exceeds, finds exactly the calls there are from its roots. *)
THEOREM WalksAreComplete == Walk!Spec => WalkComplete
<1> DEFINE Over == /\ Walk!Finish /\ cut = Walk!Whole
                   /\ task.depth >= Walk!Cardinality(Symbols)
                   /\ Walk!DistinctNames /\ task.roots \cap External = {}
<1>1. ASSUME Walk!WalkInv, Over PROVE Walk!FoundAll
  <2>1. Walk!Thorough /\ Walk!Done
    BY <1>1 DEF Walk!Thorough, Walk!Finish
  <2> QED
    BY <1>1, <2>1, OverAndWhole
<1>2. Walk!WalkInv /\ [Walk!Next]_(Walk!vars) => [Over => Walk!FoundAll]_(Walk!vars)
  BY <1>1
<1> QED
  BY <1>2, WalkInvariant, PTL DEF Walk!Spec, WalkComplete, Walk!WalkComplete
================================================================================
