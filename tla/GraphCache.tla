------------------------------ MODULE GraphCache ------------------------------
(***************************************************************************)
(* What the symbol graph cache holds (engine/protocol.go), beside edits    *)
(* of the tree, file watchers and renames that write to it                 *)
(* (engine/nav_rename.go), for one project at one HEAD.                    *)
(*                                                                         *)
(* GetSymbolGraph returns the cached graph or joins the build in progress. *)
(* A build reads the tree twice, for the calls and for the types, then     *)
(* stores.  MarkDirty empties the cache and knows nothing of builds.  A    *)
(* call with a focus works on a copy of the graph and lays the calls the   *)
(* language server knows over it.  How callers leave a build and cancel it *)
(* is the matter of SymbolGraphFlight.                                     *)
(***************************************************************************)
EXTENDS Integers, FiniteSetsExt, Functions

CONSTANTS Calls,      \* calls of GetSymbolGraph in progress at a time
          Files,      \* files of the project: numbers, in the order of their names
          MaxEdits,   \* bound: the tree is edited only until it has seen so many writes
          NoGraph

VARIABLES tree,       \* how often each file has been written
          flushed,    \* the tree when the cache was last flushed
          cache,      \* sgEntries under the key of this HEAD
          build,      \* the build in the singleflight group
          call,
          rename      \* the call of GetRename

vars == <<tree, flushed, cache, build, call, rename>>

Tree == [Files -> Int]
Unread == -1
Passes == {"calls", "types"}
NotRead == [pass \in Passes |-> [f \in Files |-> Unread]]

(* A graph: the tree as each pass read it, whether calls of the language     *)
(* server are laid over it, and whether the cache was flushed while it was   *)
(* being built.                                                              *)
Graphs == [of : [Passes -> [Files -> Int]], overlaid : BOOLEAN, late : BOOLEAN]

ASSUME GraphCacheAssumption == NoGraph \notin Graphs /\ Files \subseteq Nat

NoBuild == [at |-> "none", of |-> NotRead, late |-> FALSE]
Unwritten == [f \in Files |-> 0]
NoCall == [at |-> "idle", focus |-> FALSE, own |-> FALSE, graph |-> NoGraph, floor |-> Unwritten]
NoRename == [at |-> "idle", todo |-> {}, wrote |-> {}]

Init ==
    /\ tree = Unwritten
    /\ flushed = Unwritten
    /\ cache = NoGraph
    /\ build = NoBuild
    /\ call = [c \in Calls |-> NoCall]
    /\ rename = NoRename

Set(c, local) == call' = [call EXCEPT ![c] = local]

------------------------------------------------------------------------------
(* The tree, and what empties the cache.                                   *)

Written(f) == [tree EXCEPT ![f] = @ + 1]

Edit(f) ==
    /\ SumFunction(tree) < MaxEdits
    /\ tree' = Written(f)
    /\ UNCHANGED <<flushed, cache, build, call, rename>>

(* Mutation: only entries that have lived too long go.                       *)
KeepYoung == cache' = cache

(* A build in progress goes on.                                              *)
SGCacheFlush == cache' = NoGraph

Flushes ==
    /\ SGCacheFlush
    /\ flushed' = tree
    /\ build' = [build EXCEPT !.late = build.at # "none"]

MarkDirty ==
    /\ flushed # tree \/ cache # NoGraph
    /\ Flushes
    /\ UNCHANGED <<tree, call, rename>>

(* sgLoad drops an entry that has lived too long.                            *)
Expire ==
    /\ cache # NoGraph
    /\ cache' = NoGraph
    /\ UNCHANGED <<tree, flushed, build, call, rename>>

------------------------------------------------------------------------------
(* GetSymbolGraph.                                                         *)

Hit(c, focus) ==
    /\ call[c].at \in {"idle", "return"}
    /\ cache # NoGraph
    /\ Set(c, [NoCall EXCEPT !.at = "enrich", !.focus = focus, !.graph = cache, !.floor = flushed])
    /\ UNCHANGED <<tree, flushed, cache, build, rename>>

(* A miss joins the build in progress, or starts one.                        *)
Join(c, focus) ==
    /\ call[c].at \in {"idle", "return"}
    /\ cache = NoGraph
    /\ Set(c, [NoCall EXCEPT !.at = "wait", !.focus = focus, !.floor = flushed])
    /\ build' = IF build.at = "none" THEN [NoBuild EXCEPT !.at = "start"] ELSE build
    /\ UNCHANGED <<tree, flushed, cache, rename>>

Deliver(graph) ==
    /\ call' = [c \in Calls |-> IF call[c].at # "wait" THEN call[c]
                                ELSE IF graph = NoGraph THEN NoCall
                                ELSE [call[c] EXCEPT !.at = "enrich", !.graph = graph]]
    /\ build' = NoBuild

(* The function of the build looks for a graph stored meanwhile.             *)
Recheck ==
    /\ build.at = "start"
    /\ IF cache # NoGraph
       THEN Deliver(cache)
       ELSE build' = [build EXCEPT !.at = "calls"] /\ UNCHANGED call
    /\ UNCHANGED <<tree, flushed, cache, rename>>

(* buildSymbolGraph: the call graph is read first, then the types.           *)
ReadFile(pass, f) ==
    /\ build.at = pass
    /\ build.of[pass][f] = Unread
    /\ LET of == [build.of EXCEPT ![pass][f] = tree[f]]
           through == \A g \in Files : of[pass][g] # Unread
       IN  build' = [build EXCEPT
                       !.of = of,
                       !.at = IF ~through THEN pass
                              ELSE IF pass = "calls" THEN "types" ELSE "store"]
    /\ UNCHANGED <<tree, flushed, cache, call, rename>>

BuildFails ==
    /\ build.at = "calls"
    /\ Deliver(NoGraph)
    /\ UNCHANGED <<tree, flushed, cache, rename>>

Built == [of |-> build.of, overlaid |-> FALSE, late |-> build.late]

Store ==
    /\ build.at = "store"
    /\ cache' = Built
    /\ build' = [build EXCEPT !.at = "deliver"]
    /\ UNCHANGED <<tree, flushed, call, rename>>

EndBuild ==
    /\ build.at = "deliver"
    /\ Deliver(Built)
    /\ UNCHANGED <<tree, flushed, cache, rename>>

------------------------------------------------------------------------------
(* enrichScopedLSP.                                                        *)

(* Mutation: the focus is stamped on the graph itself.                       *)
StampInPlace(local) == local

(* stampFocus: a call with a focus goes on with a copy.                      *)
StampFocus(local) == [local EXCEPT !.own = TRUE]

(* With a focus the language server may be asked.                            *)
Enrich(c) ==
    /\ call[c].at = "enrich"
    /\ \E at \in IF call[c].focus THEN {"overlay", "return"} ELSE {"return"} :
         Set(c, [(IF call[c].focus THEN StampFocus(call[c]) ELSE call[c]) EXCEPT !.at = at])
    /\ UNCHANGED <<tree, flushed, cache, build, rename>>

OverlayFails(c) ==
    /\ call[c].at = "overlay"
    /\ Set(c, [call[c] EXCEPT !.at = "return"])
    /\ UNCHANGED <<tree, flushed, cache, build, rename>>

(* Without a copy of its own a call has the graph that is cached.            *)
OverlayCallGraph(c) ==
    /\ call[c].at = "overlay"
    /\ Set(c, [call[c] EXCEPT !.at = "return", !.graph.overlaid = TRUE])
    /\ cache' = IF call[c].own \/ cache = NoGraph THEN cache
                ELSE [cache EXCEPT !.overlaid = TRUE]
    /\ UNCHANGED <<tree, flushed, build, rename>>

------------------------------------------------------------------------------
(* GetRename.                                                              *)

(* The language server's plan passed the coverage gate.                      *)
PlanRename(files) ==
    /\ rename.at = "idle"
    /\ rename' = [NoRename EXCEPT !.at = "apply", !.todo = files]
    /\ UNCHANGED <<tree, flushed, cache, build, call>>

(* ApplyWorkspaceEdit: file by file in the order of the names.               *)
ApplyFile ==
    /\ rename.at = "apply" /\ rename.todo # {}
    /\ LET f == Min(rename.todo)
       IN  /\ tree' = Written(f)
           /\ rename' = [rename EXCEPT !.todo = @ \ {f}, !.wrote = @ \cup {f}]
    /\ UNCHANGED <<flushed, cache, build, call>>

(* It fails at a file: those before it stay written, and nothing is marked.  *)
ApplyFails ==
    /\ rename.at = "apply" /\ rename.todo # {}
    /\ rename' = [rename EXCEPT !.at = "failed"]
    /\ UNCHANGED <<tree, flushed, cache, build, call>>

RebindAfterMutation ==
    /\ rename.at = "apply" /\ rename.todo = {}
    /\ rename' = [rename EXCEPT !.at = "rebound"]
    /\ Flushes
    /\ UNCHANGED <<tree, call>>

Next ==
    \/ \E f \in Files : Edit(f) \/ \E pass \in Passes : ReadFile(pass, f)
    \/ \E files \in SUBSET Files \ {{}} : PlanRename(files)
    \/ \E c \in Calls : \/ \E focus \in BOOLEAN : Hit(c, focus) \/ Join(c, focus)
                        \/ Enrich(c) \/ OverlayFails(c) \/ OverlayCallGraph(c)
    \/ MarkDirty \/ Expire \/ Recheck \/ BuildFails \/ Store \/ EndBuild
    \/ ApplyFile \/ ApplyFails \/ RebindAfterMutation

Spec == Init /\ [][Next]_vars

------------------------------------------------------------------------------

TypeOK ==
    /\ tree \in Tree /\ flushed \in Tree
    /\ cache \in Graphs \cup {NoGraph}
    /\ build.at \in {"none", "start", "store", "deliver"} \cup Passes
    /\ \A c \in Calls : call[c].graph \in Graphs \cup {NoGraph}

(* A graph returned shows of each file at least what the last flush before   *)
(* the call left there, a rename that was rebound among what it left, unless *)
(* its build was already reading when the cache was flushed: MarkDirty does  *)
(* not end a build, whose old graph is then stored after the flush.          *)
GraphsFresh ==
    /\ \A c \in Calls : call[c].at = "return" /\ ~call[c].graph.late =>
         \A pass \in Passes, f \in Files : call[c].graph.of[pass][f] >= call[c].floor[f]
    /\ rename.at = "rebound" => \A f \in rename.wrote : flushed[f] > 0

(* The cached graph stays as it was built, whatever is laid over the graphs  *)
(* of calls with a focus; no call without one is given such a graph.         *)
CachePristine ==
    /\ cache # NoGraph => ~cache.overlaid
    /\ \A c \in Calls : call[c].at = "return" /\ ~call[c].focus => ~call[c].graph.overlaid
==============================================================================
