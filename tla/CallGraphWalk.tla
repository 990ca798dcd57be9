---------------------------- MODULE CallGraphWalk ----------------------------
(***************************************************************************)
(* The parallel walk of calls from a set of roots that builds a call       *)
(* graph: SymbolPipeline.CallGraph (symbol_pipeline.go) and its twin       *)
(* LSPDeepAnalyzer.CallGraph (analyzer/deep_lsp.go).                       *)
(*                                                                         *)
(* Each root is walked by a goroutine of its own, depth first, so many at  *)
(* a time; they share the set of visited names.  What the source knows of  *)
(* a callee (types, lines) is no part of the model.                        *)
(***************************************************************************)
EXTENDS Integers, Sequences, FiniteSets

CONSTANTS
    Symbols,       \* the symbols of the program and of its libraries, finitely many
    External,      \* those that lie outside the workspace
    Tasks,         \* what may be asked, see Task
    Concurrency    \* g.SetLimit, at least 1

(* calls: pairs <<caller, callee>>; name: a symbol that stands for all those *)
(* with its name; frugal: the pipeline, which does not ask for the callees   *)
(* of a symbol at the limit, as its twin does.                               *)
Task == [calls : SUBSET (Symbols \X Symbols), name : [Symbols -> Symbols],
         roots : SUBSET Symbols, depth : Nat, frugal : BOOLEAN]

VARIABLES
    task,       \* the call in progress, or NoTask
    waiting,    \* roots not handed to a goroutine yet
    stack,      \* the frames of walk in the goroutine of each root
    visited, nodes, edges,    \* as in the code
    cut         \* the context is done, or the source has failed

vars == <<task, waiting, stack, visited, nodes, edges, cut>>
graph == <<visited, nodes, edges>>

NoTask == [calls |-> {}, name |-> [s \in Symbols |-> s], roots |-> {}, depth |-> 0,
           frugal |-> FALSE]

(* A call of walk: its parameters, and the relations it has not followed     *)
(* yet.                                                                      *)
Frame == [sym : Symbols, d : Nat, at : {"enter", "ask", "loop"}, todo : SUBSET Symbols]
Call(s, d) == [sym |-> s, d |-> d, at |-> "enter", todo |-> {}]

TypeOK ==
    /\ task \in Task
    /\ waiting \subseteq task.roots
    /\ stack \in [Symbols -> Seq(Frame)]
    /\ visited \subseteq Symbols
    /\ nodes \subseteq Symbols /\ edges \subseteq task.calls
    /\ cut \in [ended : BOOLEAN, failed : BOOLEAN]

Whole == [ended |-> FALSE, failed |-> FALSE]

Init ==
    /\ task = NoTask /\ waiting = {}
    /\ stack = [s \in Symbols |-> <<>>]
    /\ visited = {} /\ nodes = {} /\ edges = {}
    /\ cut = Whole

Walking == {r \in Symbols : stack[r] # <<>>}
Top(r) == Head(stack[r])
Under(r) == Tail(stack[r])
TopAt(r, place) == r \in Walking /\ Top(r).at = place

Push(r, frames) == stack' = [stack EXCEPT ![r] = frames]
Pop(r) == Push(r, Under(r))

------------------------------------------------------------------------------

Begin(t) ==
    /\ task = NoTask /\ t.roots # {}
    /\ task' = t /\ waiting' = t.roots
    /\ UNCHANGED <<stack, graph, cut>>

(* g.Go waits until a goroutine is free.                                     *)
Launch(r) ==
    /\ r \in waiting /\ ~cut.ended
    /\ Cardinality(Walking) < Concurrency
    /\ waiting' = waiting \ {r}
    /\ Push(r, <<Call(r, 0)>>)
    /\ UNCHANGED <<task, graph, cut>>

(* The server does not find a root of the twin, which goes on without it.    *)
SkipRoot(r) ==
    /\ r \in waiting /\ ~cut.ended /\ ~task.frugal
    /\ waiting' = waiting \ {r}
    /\ cut' = [cut EXCEPT !.failed = TRUE]
    /\ UNCHANGED <<task, stack, graph>>

StopLaunching ==
    /\ waiting # {} /\ cut.ended
    /\ waiting' = {}
    /\ UNCHANGED <<task, stack, graph, cut>>

(* The caller leaves, or its time is over.                                   *)
Cancel ==
    /\ task # NoTask /\ ~cut.ended
    /\ cut' = [cut EXCEPT !.ended = TRUE]
    /\ UNCHANGED <<task, waiting, stack, graph>>

TurnBack(r) ==
    /\ TopAt(r, "enter")
    /\ \/ cut.ended
       \/ Top(r).d > task.depth
       \/ task.name[Top(r).sym] \in visited
    /\ Pop(r)
    /\ UNCHANGED <<task, waiting, graph, cut>>

(* Mutation: a symbol is marked when its callees are known.                  *)
MarkLate(s) == UNCHANGED visited
Mark(s) == visited' = visited \cup {task.name[s]}

Enter(r) ==
    /\ TopAt(r, "enter") /\ ~cut.ended /\ Top(r).d <= task.depth
    /\ task.name[Top(r).sym] \notin visited
    /\ Mark(Top(r).sym)
    /\ nodes' = nodes \cup {Top(r).sym}
    /\ IF task.frugal /\ Top(r).d = task.depth THEN Pop(r)
       ELSE Push(r, <<[Top(r) EXCEPT !.at = "ask"]>> \o Under(r))
    /\ UNCHANGED <<task, waiting, edges, cut>>

(* The context may have ended between the test of walk and here.             *)
Children(r) ==
    /\ TopAt(r, "ask")
    /\ Push(r, <<[Top(r) EXCEPT !.at = "loop",
                    !.todo = {e[2] : e \in {c \in task.calls : c[1] = Top(r).sym}}]>>
                \o Under(r))
    /\ UNCHANGED <<task, waiting, graph, cut>>

ChildrenFail(r) ==
    /\ TopAt(r, "ask")
    /\ Pop(r)
    /\ cut' = [cut EXCEPT !.failed = TRUE]
    /\ UNCHANGED <<task, waiting, graph>>

(* One relation: its edge is recorded, and its target walked.                *)
Follow(r, s) ==
    /\ TopAt(r, "loop") /\ s \in Top(r).todo
    /\ edges' = edges \cup {<<Top(r).sym, s>>}
    /\ nodes' = IF s \in External THEN nodes ELSE nodes \cup {s}
    /\ LET rest == <<[Top(r) EXCEPT !.todo = @ \ {s}]>> \o Under(r)
       IN  Push(r, IF s \in External THEN rest ELSE <<Call(s, Top(r).d + 1)>> \o rest)
    /\ UNCHANGED <<task, waiting, visited, cut>>

Return(r) ==
    /\ TopAt(r, "loop") /\ Top(r).todo = {}
    /\ Pop(r)
    /\ UNCHANGED <<task, waiting, graph, cut>>

(* Mutation: the graph is returned when all roots have been handed out.      *)
DoneEarly == waiting = {}
Done == waiting = {} /\ Walking = {}

(* g.Wait is over: the graph is returned, whole or not, without an error.    *)
Finish ==
    /\ task # NoTask /\ Done
    /\ task' = NoTask /\ stack' = [s \in Symbols |-> <<>>] /\ waiting' = {}
    /\ visited' = {} /\ nodes' = {} /\ edges' = {} /\ cut' = Whole

Step(r) ==
    \/ Launch(r) \/ SkipRoot(r)
    \/ TurnBack(r) \/ Enter(r) \/ Children(r) \/ ChildrenFail(r)
    \/ (\E s \in Symbols : Follow(r, s)) \/ Return(r)

Next ==
    \/ \E t \in Tasks : Begin(t)
    \/ \E r \in Symbols : Step(r)
    \/ StopLaunching \/ Cancel \/ Finish

Spec == Init /\ [][Next]_vars

------------------------------------------------------------------------------

(* What calls lead to from S, not through symbols outside the workspace: the *)
(* least set that holds S and the callees of what it holds.                  *)
Closed(calls, C) == \A c \in calls : c[1] \in C \ External => c[2] \in C

Reached(calls, S) ==
    {s \in Symbols : \A C \in SUBSET Symbols : S \subseteq C /\ Closed(calls, C) => s \in C}

DistinctNames == \A s, t \in Symbols : task.name[s] = task.name[t] => s = t

(* A walk that ends in time, with a source that does not fail and a depth no *)
(* chain of calls exceeds, finds all calls there are from the roots, however *)
(* the goroutines share the work, if no two symbols have one name.           *)
FoundAll ==
    /\ nodes \ External = Reached(task.calls, task.roots) \ External
    /\ edges = {c \in task.calls : c[1] \in nodes \ External}

WalkComplete ==
    [][Finish /\ cut = Whole /\ task.depth >= Cardinality(Symbols)
         /\ DistinctNames /\ task.roots \cap External = {} => FoundAll]_vars

(* While the callees of a name are asked for and walked, no goroutine does   *)
(* so a second time, however deep in a cycle.                                *)
AskedOnce ==
    \A r, q \in Symbols : \A i \in DOMAIN stack[r], j \in DOMAIN stack[q] :
        stack[r][i].at # "enter" /\ stack[q][j].at # "enter"
          /\ task.name[stack[r][i].sym] = task.name[stack[q][j].sym]
            => r = q /\ i = j

------------------------------------------------------------------------------
(* The inductive invariant behind both.                                    *)

Seen(s) == task.name[s] \in visited
Known(s) == Seen(s) \/ \E r \in Symbols : TopAt(r, "enter") /\ Top(r).sym = s

(* Only the top frame of a goroutine is not in its loop; a frame is as deep  *)
(* as there are frames under it, and has callees yet to follow.              *)
StackInOrder(calls, frames) ==
    \A i \in DOMAIN frames :
        /\ frames[i].d = Len(frames) - i
        /\ i # 1 => frames[i].at = "loop"
        /\ \A t \in frames[i].todo : <<frames[i].sym, t>> \in calls

Marked == \A r \in Symbols : \A i \in DOMAIN stack[r] :
            stack[r][i].at # "enter" => Seen(stack[r][i].sym)

Resting == waiting = {} /\ stack = [s \in Symbols |-> <<>>] /\ visited = {} /\ nodes = {}
             /\ edges = {} /\ cut = Whole

(* A frame that still has to follow what has not been followed of s.         *)
Follows(frame, s) ==
    /\ frame.sym = s
    /\ \/ frame.at = "ask"
       \/ /\ frame.at = "loop"
          /\ \A c \in task.calls : c[1] = s => c \in edges \/ c[2] \in frame.todo
Going(s) == \E r \in Symbols : \E i \in DOMAIN stack[r] : Follows(stack[r][i], s)
Followed(s) == \A c \in task.calls : c[1] = s => c \in edges

(* What WalkComplete asks of a walk.                                         *)
Thorough ==
    /\ task # NoTask /\ cut = Whole /\ task.depth >= Cardinality(Symbols)
    /\ DistinctNames /\ task.roots \cap External = {}

(* Such a walk meets only what the calls lead to, and all it has met was     *)
(* followed or is going to be.                                               *)
NothingMissed ==
    /\ \A r \in Symbols : \A i \in DOMAIN stack[r] :
         stack[r][i].sym \in Reached(task.calls, task.roots) \ External
    /\ \A s \in nodes : s \in Reached(task.calls, task.roots) \ External /\ Known(s)
    /\ \A s \in task.roots : s \in waiting \/ Known(s)
    /\ \A c \in edges : Seen(c[1]) /\ (c[2] \in External \/ Known(c[2]))
    /\ \A s \in Symbols : Seen(s) => s \in nodes /\ (Going(s) \/ Followed(s))

WalkInv ==
    /\ TypeOK
    /\ task = NoTask => Resting
    /\ \A r \in waiting : stack[r] = <<>>
    /\ \A r \in Symbols : StackInOrder(task.calls, stack[r])
    /\ Marked /\ AskedOnce
    /\ Thorough => NothingMissed
==============================================================================
