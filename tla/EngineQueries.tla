---------------------------- MODULE EngineQueries ----------------------------
(***************************************************************************)
(* The queries of the engine in progress (engine/protocol.go).  An answer  *)
(* is put together from pieces read at different moments (QueryPlans), of  *)
(* caches that MarkDirty, ScanProject and FlushCache renew.                *)
(*                                                                         *)
(* The shared scans and builds are those of ScanEngine, GraphCache and     *)
(* SymbolGraphFlight; here each query reads for itself.                    *)
(***************************************************************************)
EXTENDS Naturals, Sequences

CONSTANTS
    Calls,       \* queries in progress at a time
    Projects,
    Workspace,   \* the first workspace, which the empty path stands for
    Cwd,         \* the working directory of the process
    Empty,       \* the empty path
    Asked,       \* the queries each call may be of
    WorkedOn,    \* the projects that are edited
    MaxEdits,    \* bound: edits of each tree
    NoVersion

VARIABLES
    tree,        \* how often each working tree has been edited
    dirty,       \* Engine.dirty
    slot,        \* the report cache: the key of a default scan, and the plain HEAD
    graph,       \* Engine.sgCache, by project
    phase,       \* for the properties: "edited", "marked", "settled"
    query        \* the queries in progress, with what their answers show so far
vars == <<tree, dirty, slot, graph, phase, query>>

Paths == Projects \cup {Empty}
Slots == {"auto", "plain"}

------------------------------------------------------------------------------

ResolvePath(path) == IF path = Empty THEN Workspace ELSE path

(* Where a path leads that is not resolved.                                  *)
Lies(path) == IF path = Empty THEN Cwd ELSE path

Idle == [at |-> "idle", plan |-> <<>>, paths |-> <<>>, draft |-> NoVersion, got |-> {},
         settled |-> FALSE, scanned |-> NoVersion, shares |-> FALSE]

Init ==
    /\ tree = [p \in Projects |-> 0]
    /\ dirty = {}
    /\ slot = [p \in Paths |-> [s \in Slots |-> NoVersion]]
    /\ graph = [p \in Projects |-> NoVersion]
    /\ phase = [p \in Projects |-> "edited"]
    /\ query = [c \in Calls |-> Idle]

Becomes(c, q) == query' = [query EXCEPT ![c] = q]
Reading(q) == q.at = "reading" /\ q.plan # <<>>
Step(q) == Head(q.plan)
Path(q) == q.paths[Step(q).path]
IsRaw(step) == step.piece \in {"raw report", "raw live"}

(* The key of what is read, and the project whose tree it is.                *)
KeyOf(q) == IF IsRaw(Step(q)) THEN Path(q) ELSE ResolvePath(Path(q))
Source(q) == IF IsRaw(Step(q)) THEN Lies(Path(q)) ELSE ResolvePath(Path(q))

Touches(q, p) == \E i \in DOMAIN q.paths : ResolvePath(q.paths[i]) = p
MayBuild(q) == Reading(q) /\ q.draft # NoVersion
Unread(q) == Reading(q) /\ q.draft = NoVersion

Ask(c, plan, paths) ==
    /\ query[c].at = "idle"
    /\ Becomes(c, [Idle EXCEPT !.at = "reading", !.plan = plan, !.paths = paths,
         !.settled = \A i \in DOMAIN paths : phase[ResolvePath(paths[i])] = "settled"])
    /\ UNCHANGED <<tree, dirty, slot, graph, phase>>

(* What is shown is kept for as long as a property speaks of it.             *)
Kept(q) == IF q.settled \/ q.shares THEN q ELSE [q EXCEPT !.got = {}]

(* The piece is read: it joins the answer, and the next one is due.          *)
Got(q, version) ==
    [q EXCEPT !.plan = Tail(@), !.draft = NoVersion, !.got = @ \cup
       {[piece |-> Step(q).piece, project |-> Source(q), version |-> version]}]

(* What is asked of the caller and of the store shows no tree.               *)
ReadOther(c) ==
    /\ Unread(query[c]) /\ Step(query[c]).piece \in {"argument", "state"}
    /\ Becomes(c, [query[c] EXCEPT !.plan = Tail(@)])
    /\ UNCHANGED <<tree, dirty, slot, graph, phase>>

(* getOrScan: the plain HEAD, then the key of a default scan; with a key     *)
(* that one alone.                                                           *)
CachedReport(q) ==
    LET s == slot[KeyOf(q)]
    IN  CASE Step(q).piece = "keyed" -> s["auto"]
          [] Step(q).piece \in {"report", "raw report"} ->
               IF s["plain"] # NoVersion THEN s["plain"] ELSE s["auto"]
          [] Step(q).piece = "scan" ->
               IF KeyOf(q) \notin dirty /\ s["auto"] = tree[Source(q)] THEN s["auto"] ELSE NoVersion
          [] Step(q).piece = "graph" -> graph[KeyOf(q)]
          [] OTHER -> NoVersion

(* What a batch has scanned is what its actions are to share.                *)
Scanned(step, q, version, stored) ==
    Kept(IF step.piece = "scan" THEN [q EXCEPT !.scanned = version, !.shares = stored] ELSE q)

(* A hit of ScanProject also fills the plain slot if it is empty.            *)
ReadCached(c) ==
    /\ Unread(query[c])
    /\ LET q == query[c]
           step == Step(q)
           k == KeyOf(q)
           cached == CachedReport(q)
       IN  /\ cached # NoVersion
           /\ \/ slot' = slot
              \/ /\ step.piece = "scan" /\ slot[k]["plain"] = NoVersion
                 /\ slot' = [slot EXCEPT ![k]["plain"] = cached]
           /\ Becomes(c, Scanned(step, Got(q, cached), cached, TRUE))
    /\ UNCHANGED <<tree, dirty, graph, phase>>

(* No cached piece: the tree as it is now is what will be shown.  A scan     *)
(* that finds its report outdated drops all symbol graphs.                   *)
ReadTree(c) ==
    /\ Unread(query[c])
    /\ LET q == query[c]
       IN  /\ CachedReport(q) = NoVersion
           /\ Step(q).piece \notin {"argument", "state", "keyed"}
           /\ Becomes(c, [q EXCEPT !.draft = tree[Source(q)]])
           /\ graph' = IF Step(q).piece = "scan" /\ slot[KeyOf(q)]["auto"] # NoVersion
                       THEN [p \in Projects |-> NoVersion] ELSE graph
    /\ UNCHANGED <<tree, dirty, slot, phase>>

Written(piece) == CASE piece = "scan" -> {"auto", "plain"}
                    [] piece \in {"report", "raw report"} -> {"plain"}
                    [] OTHER -> {}

(* The piece is there; what it wrote may not have reached the store.  Other  *)
(* batches no longer share the report that a scan writes over.               *)
Finish(c) ==
    /\ MayBuild(query[c])
    /\ LET q == query[c]
           step == Step(q)
           k == KeyOf(q)
           version == q.draft
       IN  /\ \E stored \in SUBSET Written(step.piece) :
                /\ slot' = [slot EXCEPT ![k] = [s \in Slots |-> IF s \in stored THEN version ELSE @[s]]]
                /\ phase' = IF step.piece = "scan" /\ phase[k] = "marked" /\ stored = Slots
                            THEN [phase EXCEPT ![k] = "settled"] ELSE phase
                /\ query' = [d \in Calls |->
                     IF d = c THEN Scanned(step, Got(q, version), version, "auto" \in stored)
                     ELSE IF "auto" \in stored /\ Touches(query[d], k)
                          THEN Kept([query[d] EXCEPT !.shares = FALSE])
                     ELSE query[d]]
           /\ dirty' = IF step.piece = "scan" THEN dirty \ {k} ELSE dirty
           /\ graph' = IF step.piece = "graph" THEN [graph EXCEPT ![k] = version] ELSE graph
    /\ UNCHANGED tree

(* A read that may not fail ends the query, or its action of the batch,      *)
(* whose steps follow each other.                                            *)
Fails(c) ==
    /\ Reading(query[c])
    /\ LET q == query[c]
           step == Step(q)
       IN  \/ /\ FALSE \in step.fatal
              /\ Becomes(c, [q EXCEPT !.plan = Tail(@), !.draft = NoVersion])
           \/ TRUE \in step.fatal /\ step.of = 0 /\ Becomes(c, Idle)
           \/ /\ TRUE \in step.fatal /\ step.of # 0
              /\ \E n \in DOMAIN q.plan :
                   /\ \A i \in 1 .. n : q.plan[i].of = step.of
                   /\ n < Len(q.plan) => q.plan[n + 1].of # step.of
                   /\ Becomes(c, [q EXCEPT !.draft = NoVersion,
                                           !.plan = SubSeq(@, n + 1, Len(@))])
    /\ UNCHANGED <<tree, dirty, slot, graph, phase>>

Answer(c) ==
    /\ query[c].at = "reading" /\ query[c].plan = <<>>
    /\ Becomes(c, Idle)
    /\ UNCHANGED <<tree, dirty, slot, graph, phase>>

------------------------------------------------------------------------------

Edit(p) ==
    /\ tree[p] < MaxEdits
    /\ tree' = [tree EXCEPT ![p] = @ + 1]
    /\ phase' = [phase EXCEPT ![p] = "edited"]
    /\ query' = [c \in Calls |-> IF Touches(query[c], p) THEN Kept([query[c] EXCEPT !.settled = FALSE])
                                 ELSE query[c]]
    /\ UNCHANGED <<dirty, slot, graph>>

Flushed == [p \in Projects |-> NoVersion]

(* Mutation: the symbol graphs stay.                                         *)
Unflushed == graph
SGCacheFlush == Flushed

MarkDirty(p) ==
    /\ dirty' = dirty \cup {p}
    /\ graph' = SGCacheFlush
    /\ phase' = IF phase[p] = "edited" /\ \A c \in Calls : MayBuild(query[c]) => Source(query[c]) # p
                THEN [phase EXCEPT ![p] = "marked"] ELSE phase
    /\ UNCHANGED <<tree, slot, query>>

(* FlushCache drops the reports of a project, or of all.                     *)
FlushCache(ps) ==
    /\ slot' = [p \in Paths |-> IF p \in ps THEN [s \in Slots |-> NoVersion] ELSE slot[p]]
    /\ query' = [c \in Calls |-> IF \E p \in ps : Touches(query[c], p)
                                 THEN Kept([query[c] EXCEPT !.shares = FALSE]) ELSE query[c]]
    /\ UNCHANGED <<tree, dirty, graph, phase>>

Restart ==
    /\ dirty' = {}
    /\ graph' = Flushed
    /\ query' = [c \in Calls |-> Idle]
    /\ UNCHANGED <<tree, slot, phase>>

(* A path that is resolved may as well be the project it leads to.           *)
PathsOf(plan) == IF \E i \in DOMAIN plan : plan[i].path = 2 THEN WorkedOn \X Projects
                 ELSE IF \E i \in DOMAIN plan : IsRaw(plan[i]) THEN {<<p>> : p \in WorkedOn \cup {Empty}}
                 ELSE {<<p>> : p \in WorkedOn}

Next ==
    \/ \E c \in Calls :
         \/ \E plan \in Asked[c] : \E paths \in PathsOf(plan) : Ask(c, plan, paths)
         \/ ReadOther(c) \/ ReadCached(c) \/ ReadTree(c) \/ Finish(c) \/ Fails(c) \/ Answer(c)
    \/ \E p \in WorkedOn : Edit(p) \/ MarkDirty(p) \/ FlushCache({p})
    \/ FlushCache(Projects) \/ Restart

Spec == Init /\ [][Next]_vars

------------------------------------------------------------------------------

(* A project is settled when, after its last edit, MarkDirty was called with *)
(* no read of it under way, and a default scan after that reached the store. *)
(* Every piece of an answer to a query asked then shows that tree, whatever  *)
(* other queries, scans and flushes do meanwhile.  The exception is a path   *)
(* that GetMesh and the navigation do not resolve: beside a piece of the     *)
(* workspace they show one of the working directory, as old as it may be.    *)
AnswersCurrent ==
    \A c \in Calls : query[c].settled => \A g \in query[c].got :
      \/ \E i \in DOMAIN query[c].paths :
           g.project = ResolvePath(query[c].paths[i]) /\ g.version = tree[g.project]
      \/ g.piece \in {"raw report", "raw live"} /\ query[c].paths[1] = Empty /\ g.project = Cwd

(* The actions of a batch that use its key see the report its scan returned, *)
(* unless that was not stored, another scan of the project has since written *)
(* over it, or it was flushed.                                               *)
BatchShares ==
    \A c \in Calls : query[c].shares => \A g \in query[c].got :
      g.piece = "keyed" => g.version = query[c].scanned

------------------------------------------------------------------------------
(* The inductive invariant behind both.                                    *)

Versions == Nat \cup {NoVersion}

Pieces == {"argument", "state", "report", "raw report", "live", "raw live", "keyed", "scan", "graph"}
Steps == [piece : Pieces, fatal : SUBSET BOOLEAN, path : {1, 2}, of : Nat]
Read == [piece : Pieces, project : Projects, version : Nat]

(* What is asked: a batch begins with its scan, which like the key that it   *)
(* hands to its actions is of the first path.                                *)
PlanInOrder(plan) ==
    \A i \in DOMAIN plan :
        /\ plan[i].piece = "scan" => i = 1
        /\ plan[i].piece \in {"scan", "keyed"} => plan[i].path = 1

Queries == [at : {"idle", "reading"}, plan : Seq(Steps), paths : Seq(Paths),
            draft : Versions, got : SUBSET Read, settled : BOOLEAN,
            scanned : Versions, shares : BOOLEAN]

Plans == {plan \in Seq(Steps) : PlanInOrder(plan)}

TypeOK ==
    /\ tree \in [Projects -> Nat]
    /\ slot \in [Paths -> [Slots -> Versions]]
    /\ graph \in [Projects -> Versions]
    /\ phase \in [Projects -> {"edited", "marked", "settled"}]
    /\ query \in [Calls -> Queries]

(* Every step of a query has a path, and only the first may be empty.        *)
PathsFit(q) ==
    /\ q.at = "reading" => 1 \in DOMAIN q.paths
    /\ \A i \in DOMAIN q.plan : q.plan[i].path \in DOMAIN q.paths
    /\ \A i \in DOMAIN q.paths : q.paths[i] = Empty => i = 1

NothingKeyed(q) == \A g \in q.got : g.piece # "keyed"

(* A scan that is still to come comes before everything that uses its key,   *)
(* and only a piece that can be built has a draft.                           *)
InOrder(q) ==
    /\ PlanInOrder(q.plan)
    /\ (\E i \in DOMAIN q.plan : q.plan[i].piece = "scan") => NothingKeyed(q)
    /\ MayBuild(q) => Step(q).piece \notin {"argument", "state", "keyed"}

(* From the mark on, what is being read of a project shows its tree.         *)
DraftCurrent(q, trees, phases) ==
    MayBuild(q) /\ phases[Source(q)] # "edited" => q.draft = trees[Source(q)]

ShowsTree(q, g, trees) ==
    \/ \E i \in DOMAIN q.paths :
         g.project = ResolvePath(q.paths[i]) /\ g.version = trees[g.project]
    \/ g.piece \in {"raw report", "raw live"} /\ q.paths[1] = Empty /\ g.project = Cwd

SettledOK(q, trees, phases) ==
    q.settled =>
        /\ \A i \in DOMAIN q.paths : phases[ResolvePath(q.paths[i])] = "settled"
        /\ \A g \in q.got : ShowsTree(q, g, trees)

SharesOK(q, slots) ==
    q.shares =>
        /\ 1 \in DOMAIN q.paths /\ slots[ResolvePath(q.paths[1])]["auto"] = q.scanned
        /\ \A g \in q.got : g.piece = "keyed" => g.version = q.scanned

QueryOK(q, trees, slots, phases) ==
    /\ PathsFit(q) /\ InOrder(q)
    /\ DraftCurrent(q, trees, phases) /\ SettledOK(q, trees, phases) /\ SharesOK(q, slots)

(* From the mark on a symbol graph shows the tree, and from the scan on the  *)
(* reports do.                                                               *)
CachesCurrent ==
    \A p \in Projects :
        /\ phase[p] # "edited" => graph[p] \in {NoVersion, tree[p]}
        /\ phase[p] = "settled" => \A s \in Slots : slot[p][s] \in {NoVersion, tree[p]}

QueryInv ==
    /\ TypeOK
    /\ CachesCurrent
    /\ \A c \in Calls : QueryOK(query[c], tree, slot, phase)
==============================================================================
