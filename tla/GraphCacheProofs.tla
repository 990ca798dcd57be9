--------------------------- MODULE GraphCacheProofs ---------------------------
(***************************************************************************)
(* Proofs about GraphCache: for any calls, files and edits.                *)
(***************************************************************************)
EXTENDS GraphCache, WellFoundedInduction, TLAPS

Versions == [Files -> Nat]
Readings == [Passes -> [Files -> Int]]
Builds == [at : {"none", "start", "store", "deliver"} \cup Passes, of : Readings, late : BOOLEAN]
Locals == [at : {"idle", "wait", "enrich", "overlay", "return"}, focus : BOOLEAN, own : BOOLEAN,
           graph : Graphs \cup {NoGraph}, floor : Versions]
Renames == [at : {"idle", "apply", "failed", "rebound"}, todo : SUBSET Files, wrote : SUBSET Files]

Typed ==
    /\ tree \in Versions /\ flushed \in Versions
    /\ cache \in Graphs \cup {NoGraph}
    /\ build \in Builds
    /\ call \in [Calls -> Locals]
    /\ rename \in Renames

(* A graph, or what a build has read so far, shows what a version left.      *)
AtLeast(of, version) ==
    \A pass \in Passes, f \in Files : of[pass][f] # Unread => of[pass][f] >= version[f]
Whole(of) == \A pass \in Passes, f \in Files : of[pass][f] # Unread

FlushedBefore == \A f \in Files : flushed[f] <= tree[f]

BuildOK ==
    /\ build.at # "none" /\ ~build.late => AtLeast(build.of, flushed)
    /\ build.at = "start" => build.of = NotRead
    /\ build.at \in {"types", "store", "deliver"} => \A f \in Files : build.of["calls"][f] # Unread
    /\ build.at \in {"store", "deliver"} => Whole(build.of)

CacheOK ==
    cache # NoGraph => /\ Whole(cache.of) /\ ~cache.overlaid
                       /\ ~cache.late => AtLeast(cache.of, flushed)

CallOK(local) ==
    /\ \A f \in Files : local.floor[f] <= flushed[f]
    /\ local.own => local.focus
    /\ local.at = "overlay" => local.own
    /\ local.at \in {"enrich", "overlay", "return"} =>
         /\ local.graph # NoGraph
         /\ Whole(local.graph.of)
         /\ ~local.graph.late => AtLeast(local.graph.of, local.floor)
    /\ local.at \in {"enrich", "overlay"} => ~local.graph.overlaid
    /\ local.at = "return" /\ ~local.focus => ~local.graph.overlaid

RenameOK ==
    /\ \A f \in rename.wrote : tree[f] > 0
    /\ rename.at = "rebound" => \A f \in rename.wrote : flushed[f] > 0

CacheInv == Typed /\ FlushedBefore /\ BuildOK /\ CacheOK /\ RenameOK /\ \A c \in Calls : CallOK(call[c])

LEMMA InitCacheInv == ASSUME Init PROVE CacheInv
<1>1. NotRead \in Readings /\ Unwritten \in Versions /\ \A f \in Files : Unwritten[f] = 0
  BY DEF NotRead, Readings, Unread, Unwritten, Versions
<1>2. NoCall \in Locals /\ CallOK(NoCall)
  BY <1>1 DEF Init, NoCall, Locals, CallOK
<1>3. Typed
  BY <1>1, <1>2 DEF Init, Typed, NoBuild, Builds, NoRename, Renames
<1>4. QED
  BY <1>2, <1>3 DEF Init, CacheInv, FlushedBefore, BuildOK, CacheOK, RenameOK, NoBuild,
     NoRename,
     Unwritten

(* What holds of a call depends on the last flush alone, and later flushes   *)
(* only help.                                                                *)
LEMMA CallStays ==
  ASSUME NEW local, CallOK(local), local.floor \in Versions, Typed, Typed',
         \A f \in Files : flushed[f] <= flushed'[f]
  PROVE  CallOK(local)'
  BY DEF CallOK, Typed, Versions, Whole, AtLeast

LEMMA FloorsTyped == Typed => \A c \in Calls : call[c] \in Locals /\ call[c].floor \in Versions
  BY DEF Typed, Locals

(* A step of one call, with the rest as it was.                              *)
LEMMA CallOnly ==
  ASSUME CacheInv, NEW c \in Calls, NEW w \in Locals, CallOK(w), Set(c, w),
         UNCHANGED <<tree, flushed, cache, build, rename>>
  PROVE  CacheInv'
<1>1. Typed'
  BY DEF CacheInv, Typed, Set
<1>2. FlushedBefore' /\ BuildOK' /\ CacheOK' /\ RenameOK'
  BY DEF CacheInv, FlushedBefore, BuildOK, CacheOK, RenameOK, Whole, AtLeast
<1>3. \A d \in Calls : CallOK(call'[d])
  BY DEF CacheInv, Typed, Set
<1>4. (\A d \in Calls : CallOK(call[d]))'
  BY <1>3 DEF CallOK, Whole, AtLeast
<1>5. QED
  BY <1>1, <1>2, <1>4 DEF CacheInv

(* A step that leaves the calls alone, and may flush.                        *)
LEMMA OthersOnly ==
  ASSUME CacheInv, Typed', UNCHANGED call, \A f \in Files : flushed[f] <= flushed'[f],
         FlushedBefore', BuildOK', CacheOK', RenameOK'
  PROVE  CacheInv'
<1>1. \A c \in Calls : CallOK(call[c])'
  BY CallStays, FloorsTyped DEF CacheInv
<1>2. QED
  BY <1>1 DEF CacheInv

LEMMA WritingOK ==
  ASSUME CacheInv, NEW f \in Files, tree' = Written(f), UNCHANGED <<flushed, cache, build, call>>,
         rename' \in Renames, rename'.wrote \subseteq rename.wrote \cup {f},
         rename'.at = "rebound" => rename' = rename
  PROVE  CacheInv'
<1>1. Typed' /\ \A g \in Files : tree'[g] = IF g = f THEN tree[g] + 1 ELSE tree[g]
  BY DEF CacheInv, Typed, Versions, Written
<1>2. FlushedBefore'
  BY <1>1 DEF CacheInv, FlushedBefore, Typed, Versions
<1>3. BuildOK' /\ CacheOK'
  BY DEF CacheInv, BuildOK, CacheOK, Whole, AtLeast
<1>4. RenameOK'
  BY <1>1 DEF CacheInv, RenameOK, Typed, Versions, Renames
<1>5. \A g \in Files : flushed[g] <= flushed'[g]
  BY DEF CacheInv, Typed, Versions
<1>6. QED
  BY <1>1, <1>2, <1>3, <1>4, <1>5, OthersOnly

(* A flush empties the cache, and a build that is in progress is late.       *)
LEMMA FlushingOK ==
  ASSUME CacheInv, Flushes, UNCHANGED <<tree, call>>,
         rename' \in Renames, rename'.wrote = rename.wrote
  PROVE  CacheInv'
<1>1. /\ cache' = NoGraph /\ flushed' = tree
      /\ build' = [build EXCEPT !.late = build.at # "none"]
  BY DEF Flushes, SGCacheFlush
<1>2. Typed'
  BY <1>1 DEF CacheInv, Typed, Builds
<1>3. \A f \in Files : flushed[f] <= flushed'[f]
  BY <1>1 DEF CacheInv, FlushedBefore
<1>4. FlushedBefore'
  BY <1>1 DEF CacheInv, Typed, Versions, FlushedBefore
<1>5. BuildOK' /\ CacheOK'
  BY <1>1 DEF CacheInv, Typed, Builds, BuildOK, CacheOK, Whole
<1>6. RenameOK'
  BY <1>1 DEF CacheInv, RenameOK
<1>7. QED
  BY <1>2, <1>3, <1>4, <1>5, <1>6, OthersOnly

LEMMA ExpireOK == ASSUME CacheInv, Expire PROVE CacheInv'
<1>1. Typed' /\ FlushedBefore' /\ BuildOK' /\ CacheOK' /\ RenameOK'
  BY DEF Expire, CacheInv, Typed, FlushedBefore, BuildOK, CacheOK, RenameOK, Whole, AtLeast
<1>2. \A f \in Files : flushed[f] <= flushed'[f]
  BY DEF Expire, CacheInv, Typed, Versions
<1>3. QED
  BY <1>1, <1>2, OthersOnly DEF Expire

LEMMA HitOK ==
  ASSUME NoGraph \notin Graphs, CacheInv, NEW c \in Calls, NEW focus \in BOOLEAN, Hit(c, focus)
  PROVE  CacheInv'
<1> DEFINE w == [NoCall EXCEPT !.at = "enrich", !.focus = focus, !.graph = cache, !.floor = flushed]
<1>1. /\ w.at = "enrich" /\ w.focus = focus /\ w.own = FALSE /\ w.graph = cache
      /\ w.floor = flushed /\ w \in Locals
  BY DEF NoCall, Locals, Hit, CacheInv, Typed
<1>2. CallOK(w)
  BY <1>1 DEF Hit, CacheInv, CacheOK, CallOK, Typed, Versions
<1>3. Set(c, w) /\ UNCHANGED <<tree, flushed, cache, build, rename>>
  BY DEF Hit
<1> HIDE DEF w
<1>4. QED
  BY <1>1, <1>2, <1>3, CallOnly

LEMMA JoinOK ==
  ASSUME CacheInv, NEW c \in Calls, NEW focus \in BOOLEAN, Join(c, focus)
  PROVE  CacheInv'
<1> DEFINE w == [NoCall EXCEPT !.at = "wait", !.focus = focus, !.floor = flushed]
<1>1. /\ w.at = "wait" /\ w.own = FALSE /\ w.floor = flushed /\ w \in Locals
  BY DEF NoCall, Locals, CacheInv, Typed
<1>2. CallOK(w)
  BY <1>1 DEF CallOK, CacheInv, Typed, Versions
<1>3. /\ call' = [call EXCEPT ![c] = w] /\ UNCHANGED <<tree, flushed, cache, rename>>
      /\ build' = IF build.at = "none" THEN [NoBuild EXCEPT !.at = "start"] ELSE build
  BY DEF Join, Set
<1> HIDE DEF w
<1>4. NotRead \in Readings /\ \A pass \in Passes, f \in Files : NotRead[pass][f] = Unread
  BY DEF NotRead, Readings, Unread
<1>5. Typed'
  BY <1>1, <1>3, <1>4 DEF CacheInv, Typed, NoBuild, Builds
<1>6. BuildOK'
  <2>1. CASE build.at = "none"
    BY <2>1, <1>3, <1>4 DEF BuildOK, NoBuild, AtLeast
  <2>2. CASE build.at # "none"
    BY <2>2, <1>3 DEF CacheInv, BuildOK, AtLeast, Whole
  <2>3. QED
    BY <2>1, <2>2
<1>7. FlushedBefore' /\ CacheOK' /\ RenameOK'
  BY <1>3 DEF CacheInv, FlushedBefore, CacheOK, RenameOK, Whole, AtLeast
<1>8. (\A d \in Calls : CallOK(call[d]))'
  <2>1. \A d \in Calls : CallOK(call'[d])
    BY <1>2, <1>3 DEF CacheInv, Typed
  <2>2. QED
    BY <2>1, <1>3 DEF CallOK, Whole, AtLeast
<1>9. QED
  BY <1>5, <1>6, <1>7, <1>8 DEF CacheInv

(* A graph that is delivered is whole, and no older than the last flush if   *)
(* its build was not late: whoever waits asked before that.                  *)
LEMMA DeliverOK ==
  ASSUME NoGraph \notin Graphs, CacheInv, NEW graph \in Graphs \cup {NoGraph}, Deliver(graph),
         graph # NoGraph => /\ Whole(graph.of) /\ ~graph.overlaid
                            /\ ~graph.late => AtLeast(graph.of, flushed),
         UNCHANGED <<tree, flushed, cache, rename>>
  PROVE  CacheInv'
<1>1. build' = NoBuild /\ NotRead \in Readings
  <2>1. build' = NoBuild
    BY DEF Deliver
  <2>2. QED
    BY <2>1 DEF NotRead, Readings, Unread
<1>2. ASSUME NEW c \in Calls
      PROVE  call'[c] \in Locals /\ CallOK(call'[c])
  <2> DEFINE w == [call[c] EXCEPT !.at = "enrich", !.graph = graph]
  <2>1. call[c] \in Locals /\ CallOK(call[c])
    BY DEF CacheInv, Typed
  <2>2. CASE call[c].at # "wait"
    BY <2>1, <2>2 DEF Deliver
  <2>3. CASE call[c].at = "wait" /\ graph = NoGraph
    <3>1. NoCall \in Locals
      BY DEF NoCall, Locals, Unwritten, Versions
    <3>2. CallOK(NoCall)
      BY DEF NoCall, CallOK, Unwritten, CacheInv, Typed, Versions
    <3>3. QED
      BY <2>3, <3>1, <3>2 DEF Deliver
  <2>4. CASE call[c].at = "wait" /\ graph # NoGraph
    <3>1. /\ w.at = "enrich" /\ w.graph = graph /\ w.floor = call[c].floor
          /\ w.own = call[c].own /\ w.focus = call[c].focus /\ w \in Locals
      BY <2>1 DEF Locals
    <3>2. call'[c] = w
      BY <2>4 DEF Deliver
    <3> HIDE DEF w
    <3>3. graph \in Graphs /\ w.floor \in Versions
      BY <2>4, <3>1 DEF Locals
    <3>4. ~graph.late => AtLeast(graph.of, w.floor)
      BY <2>1, <2>4, <3>1, <3>3 DEF AtLeast, CallOK, CacheInv, Typed, Versions, Graphs
    <3>5. QED
      BY <2>1, <2>4, <3>1, <3>2, <3>4 DEF CallOK
  <2>5. QED
    BY <2>2, <2>3, <2>4
<1>3. Typed'
  <2>1. call' \in [Calls -> Locals]
    BY <1>2 DEF Deliver
  <2>2. QED
    BY <1>1, <2>1 DEF CacheInv, Typed, NoBuild, Builds
<1>4. BuildOK'
  BY <1>1 DEF BuildOK, NoBuild
<1>5. FlushedBefore' /\ CacheOK' /\ RenameOK'
  BY DEF CacheInv, FlushedBefore, CacheOK, RenameOK, Whole, AtLeast
<1>6. (\A c \in Calls : CallOK(call[c]))'
  BY <1>2 DEF CallOK, Whole, AtLeast
<1>7. QED
  BY <1>3, <1>4, <1>5, <1>6 DEF CacheInv

LEMMA RecheckOK == ASSUME NoGraph \notin Graphs, CacheInv, Recheck PROVE CacheInv'
<1>1. CASE cache # NoGraph
  BY <1>1, DeliverOK DEF Recheck, CacheInv, Typed, CacheOK
<1>2. CASE cache = NoGraph
  <2>1. /\ build.at = "start" /\ build' = [build EXCEPT !.at = "calls"]
        /\ UNCHANGED <<tree, flushed, cache, rename, call>>
    BY <1>2 DEF Recheck
  <2>2. /\ build'.at = "calls" /\ build'.of = build.of /\ build'.late = build.late
        /\ build' \in Builds
    BY <2>1 DEF CacheInv, Typed, Builds, Passes
  <2>3. Typed' /\ FlushedBefore' /\ BuildOK' /\ CacheOK' /\ RenameOK'
    BY <2>1, <2>2 DEF CacheInv, Typed, FlushedBefore, BuildOK, CacheOK, RenameOK, Whole,
       AtLeast
  <2>4. \A f \in Files : flushed[f] <= flushed'[f]
    BY <2>1 DEF CacheInv, Typed, Versions
  <2>5. QED
    BY <2>1, <2>3, <2>4, OthersOnly
<1>3. QED
  BY <1>1, <1>2

(* A file is read as it is now, so no older than it was when the cache was   *)
(* flushed.                                                                  *)
LEMMA ReadFileOK ==
  ASSUME CacheInv, NEW pass \in Passes, NEW f \in Files, ReadFile(pass, f)
  PROVE  CacheInv'
<1> DEFINE of == [build.of EXCEPT ![pass][f] = tree[f]]
           through == \A g \in Files : of[pass][g] # Unread
           at == IF ~through THEN pass ELSE IF pass = "calls" THEN "types" ELSE "store"
<1>1. build \in Builds /\ build.of \in Readings /\ tree[f] \in Nat /\ build.at = pass
  BY DEF CacheInv, Typed, Builds, Versions, ReadFile
<1>2. /\ of \in Readings
      /\ \A p \in Passes, g \in Files :
           of[p][g] = IF p = pass /\ g = f THEN tree[f] ELSE build.of[p][g]
  BY <1>1 DEF Readings
<1>3. build' = [build EXCEPT !.of = of, !.at = at] /\ UNCHANGED <<tree, flushed, cache, call, rename>>
  BY DEF ReadFile
<1>4. build'.of = of /\ build'.at = at /\ build'.late = build.late /\ build' \in Builds
  BY <1>1, <1>2, <1>3 DEF Builds, Passes
<1> HIDE DEF of, through
<1>5. \/ at = pass
      \/ through /\ pass = "calls" /\ at = "types"
      \/ through /\ pass = "types" /\ at = "store"
  BY DEF Passes
<1> HIDE DEF at
<1>6. AtLeast(of, flushed) \/ build.late
  <2> SUFFICES ASSUME ~build.late, NEW p \in Passes, NEW g \in Files, of[p][g] # Unread
               PROVE  of[p][g] >= flushed[g]
    BY DEF AtLeast
  <2>1. AtLeast(build.of, flushed)
    BY <1>1 DEF CacheInv, BuildOK, Passes
  <2>2. flushed[g] <= tree[g]
    BY DEF CacheInv, FlushedBefore
  <2>3. QED
    BY <1>2, <2>1, <2>2 DEF CacheInv, Typed, Versions, AtLeast
<1>7. at # "start" /\ at # "none" /\ at # "deliver"
  BY <1>5 DEF Passes
<1>8. at \in {"types", "store"} => \A g \in Files : of["calls"][g] # Unread
  BY <1>1, <1>2, <1>5 DEF CacheInv, BuildOK, Passes, through, Unread
<1>9. at = "store" => Whole(of)
  BY <1>1, <1>5, <1>8 DEF Whole, Passes, through
<1>10. BuildOK'
  <2>1. ~build'.late => AtLeast(build'.of, flushed')
    BY <1>3, <1>4, <1>6
  <2>2. QED
    BY <1>4, <1>7, <1>8, <1>9, <2>1 DEF BuildOK, AtLeast, Whole
<1>11. Typed' /\ FlushedBefore' /\ CacheOK' /\ RenameOK'
  BY <1>3, <1>4 DEF CacheInv, Typed, FlushedBefore, CacheOK, RenameOK, Whole, AtLeast
<1>12. \A g \in Files : flushed[g] <= flushed'[g]
  BY <1>3 DEF CacheInv, Typed, Versions
<1>13. QED
  BY <1>3, <1>10, <1>11, <1>12, OthersOnly

LEMMA BuiltOK ==
  ASSUME CacheInv, build.at \in {"store", "deliver"}
  PROVE  /\ Built \in Graphs /\ Whole(Built.of) /\ ~Built.overlaid
         /\ ~Built.late => AtLeast(Built.of, flushed)
  BY DEF CacheInv, Typed, Builds, Readings, Built, Graphs, BuildOK, Passes

LEMMA StoreOK == ASSUME CacheInv, Store PROVE CacheInv'
<1>1. /\ build' = [build EXCEPT !.at = "deliver"] /\ cache' = Built /\ build.at = "store"
      /\ UNCHANGED <<tree, flushed, call, rename>>
  BY DEF Store
<1>2. /\ build'.at = "deliver" /\ build'.of = build.of /\ build'.late = build.late
      /\ build' \in Builds
  BY <1>1 DEF CacheInv, Typed, Builds
<1>3. Typed' /\ FlushedBefore' /\ RenameOK'
  BY <1>1, <1>2, BuiltOK DEF CacheInv, Typed, FlushedBefore, RenameOK
<1>4. CacheOK'
  BY <1>1, BuiltOK DEF CacheOK, Whole, AtLeast
<1>5. BuildOK'
  BY <1>1, <1>2 DEF CacheInv, BuildOK, Whole, AtLeast
<1>6. \A f \in Files : flushed[f] <= flushed'[f]
  BY <1>1 DEF CacheInv, Typed, Versions
<1>7. QED
  BY <1>1, <1>3, <1>4, <1>5, <1>6, OthersOnly

LEMMA EndBuildOK == ASSUME NoGraph \notin Graphs, CacheInv, EndBuild PROVE CacheInv'
  BY BuiltOK, DeliverOK DEF EndBuild

LEMMA BuildFailsOK == ASSUME NoGraph \notin Graphs, CacheInv, BuildFails PROVE CacheInv'
  BY DeliverOK DEF BuildFails

LEMMA EnrichOK == ASSUME CacheInv, NEW c \in Calls, Enrich(c) PROVE CacheInv'
<1>1. PICK at \in IF call[c].focus THEN {"overlay", "return"} ELSE {"return"} :
        Set(c, [(IF call[c].focus THEN StampFocus(call[c]) ELSE call[c]) EXCEPT !.at = at])
  BY DEF Enrich
<1> DEFINE w == [(IF call[c].focus THEN StampFocus(call[c]) ELSE call[c]) EXCEPT !.at = at]
<1>2. call[c] \in Locals /\ CallOK(call[c]) /\ call[c].at = "enrich"
  BY DEF CacheInv, Typed, Enrich
<1>3. /\ w.at = at /\ w.focus = call[c].focus /\ w.graph = call[c].graph
      /\ w.floor = call[c].floor /\ w.own = (call[c].own \/ call[c].focus) /\ w \in Locals
  BY <1>1, <1>2 DEF StampFocus, Locals, CallOK
<1> HIDE DEF w
<1>4. CallOK(w)
  BY <1>1, <1>2, <1>3 DEF CallOK
<1>5. Set(c, w) /\ UNCHANGED <<tree, flushed, cache, build, rename>>
  BY <1>1 DEF Enrich, w
<1>6. QED
  BY <1>3, <1>4, <1>5, CallOnly

(* A call whose overlay ends has a graph of its own, so the cache stays.     *)
LEMMA OverlayOK ==
  ASSUME NoGraph \notin Graphs, CacheInv, NEW c \in Calls, OverlayFails(c) \/ OverlayCallGraph(c)
  PROVE  CacheInv'
<1>1. /\ call[c] \in Locals /\ CallOK(call[c]) /\ call[c].at = "overlay"
      /\ call[c].graph \in Graphs
  BY DEF CacheInv, Typed, OverlayFails, OverlayCallGraph, Locals, CallOK
<1>2. PICK w : /\ w \in {[call[c] EXCEPT !.at = "return"],
                        [call[c] EXCEPT !.at = "return", !.graph.overlaid = TRUE]}
              /\ Set(c, w)
  BY DEF OverlayFails, OverlayCallGraph
<1>3. /\ w.at = "return" /\ w.focus = call[c].focus /\ w.own = call[c].own
      /\ w.floor = call[c].floor /\ w.graph.of = call[c].graph.of
      /\ w.graph.late = call[c].graph.late /\ w.graph \in Graphs /\ w \in Locals
  <2>1. CASE w = [call[c] EXCEPT !.at = "return"]
    BY <1>1, <2>1 DEF Locals
  <2>2. CASE w = [call[c] EXCEPT !.at = "return", !.graph.overlaid = TRUE]
    <3>1. /\ w.at = "return" /\ w.focus = call[c].focus /\ w.own = call[c].own
          /\ w.floor = call[c].floor /\ w.graph = [call[c].graph EXCEPT !.overlaid = TRUE]
      BY <1>1, <2>2 DEF Locals
    <3>2. /\ w.graph.of = call[c].graph.of /\ w.graph.late = call[c].graph.late
          /\ w.graph \in Graphs
      BY <1>1, <3>1 DEF Graphs
    <3>3. w \in Locals
      BY <1>1, <2>2, <3>1, <3>2 DEF Locals
    <3>4. QED
      BY <3>1, <3>2, <3>3
  <2>3. QED
    BY <1>2, <2>1, <2>2
<1>4. CallOK(w)
  BY <1>1, <1>3 DEF CallOK
<1>5. UNCHANGED <<tree, flushed, cache, build, rename>>
  BY <1>1 DEF OverlayFails, OverlayCallGraph, CallOK
<1>6. QED
  BY <1>2, <1>3, <1>4, <1>5, CallOnly

LEMMA RenameStepsOK ==
  ASSUME CacheInv, \/ \E files \in SUBSET Files \ {{}} : PlanRename(files)
                   \/ ApplyFails
  PROVE  CacheInv'
<1>1. /\ UNCHANGED <<tree, flushed, cache, build, call>> /\ rename' \in Renames
      /\ rename'.wrote \subseteq rename.wrote /\ rename'.at # "rebound"
  BY DEF PlanRename, ApplyFails, NoRename, CacheInv, Typed, Renames
<1>2. Typed' /\ FlushedBefore' /\ BuildOK' /\ CacheOK' /\ RenameOK'
  BY <1>1 DEF CacheInv, Typed, FlushedBefore, BuildOK, CacheOK, RenameOK, Whole, AtLeast
<1>3. \A f \in Files : flushed[f] <= flushed'[f]
  BY <1>1 DEF CacheInv, Typed, Versions
<1>4. QED
  BY <1>1, <1>2, <1>3, OthersOnly

LEMMA LeastNumber ==
  ASSUME NEW S \in SUBSET Nat, S # {}
  PROVE  \E n \in S : \A m \in S : n <= m
<1> DEFINE R == OpToRel(<, Nat)
<1>1. IsWellFoundedOn(R, Nat)
  BY NatLessThanWellFounded
<1>2. \A m, n \in Nat : <<m, n>> \in R <=> m < n
  BY DEF OpToRel
<1> HIDE DEF R
<1>3. PICK n \in S : \A m \in S : <<m, n>> \notin R
  BY <1>1, WFMin
<1>4. \A m \in S : ~(m < n)
  BY <1>2, <1>3
<1>5. QED
  BY <1>4

(* The files of a rename are numbers, of which each set has a least one.     *)
LEMMA ApplyFileOK ==
  ASSUME Files \subseteq Nat, CacheInv, ApplyFile
  PROVE  CacheInv'
<1> DEFINE f == Min(rename.todo)
<1>1. f \in rename.todo /\ rename \in Renames
  <2>1. rename.todo \subseteq Nat /\ rename.todo # {} /\ rename \in Renames
    BY DEF ApplyFile, CacheInv, Typed, Renames
  <2>2. \E n \in rename.todo : \A m \in rename.todo : n <= m
    BY <2>1, LeastNumber
  <2>3. QED
    BY <2>1, <2>2 DEF Min
<1>2. /\ tree' = Written(f) /\ UNCHANGED <<flushed, cache, build, call>> /\ rename.at = "apply"
      /\ rename' = [rename EXCEPT !.todo = @ \ {f}, !.wrote = @ \cup {f}]
  BY DEF ApplyFile
<1> HIDE DEF f
<1>3. f \in Files
  BY <1>1 DEF Renames
<1>4. rename' \in Renames /\ rename'.wrote = rename.wrote \cup {f} /\ rename'.at = "apply"
  BY <1>1, <1>2, <1>3 DEF Renames
<1>5. QED
  BY <1>2, <1>3, <1>4, WritingOK

LEMMA EditOK == ASSUME CacheInv, NEW f \in Files, Edit(f) PROVE CacheInv'
<1>1. rename' \in Renames /\ rename' = rename
  BY DEF Edit, CacheInv, Typed
<1>2. QED
  BY <1>1, WritingOK DEF Edit

LEMMA FlushesOK == ASSUME CacheInv, MarkDirty \/ RebindAfterMutation PROVE CacheInv'
<1>1. /\ Flushes /\ UNCHANGED <<tree, call>> /\ rename' \in Renames
      /\ rename'.wrote = rename.wrote
  BY DEF MarkDirty, RebindAfterMutation, CacheInv, Typed, Renames
<1>2. QED
  BY <1>1, FlushingOK

LEMMA NextOK == ASSUME CacheInv, [Next]_vars PROVE CacheInv'
<1> USE GraphCacheAssumption
<1>1. ASSUME NEW f \in Files, Edit(f) \/ \E pass \in Passes : ReadFile(pass, f)
      PROVE  CacheInv'
  BY <1>1, EditOK, ReadFileOK
<1>2. ASSUME NEW files \in SUBSET Files \ {{}}, PlanRename(files)
      PROVE  CacheInv'
  BY <1>2, RenameStepsOK
<1>3. ASSUME NEW c \in Calls, NEW focus \in BOOLEAN, Hit(c, focus) \/ Join(c, focus)
      PROVE  CacheInv'
  BY <1>3, HitOK, JoinOK
<1>4. ASSUME NEW c \in Calls, Enrich(c) \/ OverlayFails(c) \/ OverlayCallGraph(c)
      PROVE  CacheInv'
  BY <1>4, EnrichOK, OverlayOK
<1>5. CASE MarkDirty \/ Expire \/ Recheck \/ BuildFails \/ Store \/ EndBuild
  BY <1>5, FlushesOK, ExpireOK, RecheckOK, BuildFailsOK, StoreOK, EndBuildOK
<1>6. CASE ApplyFile \/ ApplyFails \/ RebindAfterMutation
  BY <1>6, ApplyFileOK, RenameStepsOK, FlushesOK
<1>7. CASE UNCHANGED vars
  <2>1. \A f \in Files : flushed[f] <= flushed'[f]
    BY <1>7 DEF vars, CacheInv, Typed, Versions
  <2>2. Typed' /\ FlushedBefore' /\ BuildOK' /\ CacheOK' /\ RenameOK'
    BY <1>7 DEF vars, CacheInv, Typed, FlushedBefore, BuildOK, CacheOK, RenameOK, Whole,
       AtLeast
  <2>3. QED
    BY <1>7, <2>1, <2>2, OthersOnly DEF vars
<1>8. QED
  BY <1>1, <1>2, <1>3, <1>4, <1>5, <1>6, <1>7 DEF Next

(* The invariant from which the rest follows: cached graphs and builds in    *)
(* progress are no older than the last flush, unless the build was late      *)
(* (Engine.GetSymbolGraph, SGCacheFlush).                                    *)
THEOREM CacheInvariant == Spec => []CacheInv
<1>1. Init => CacheInv
  BY InitCacheInv
<1>2. CacheInv /\ [Next]_vars => CacheInv'
  BY NextOK
<1>3. QED
  BY <1>1, <1>2, PTL DEF Spec

(* A graph that GetSymbolGraph returns shows every file at least as the last *)
(* MarkDirty or rename before the call left it, unless its build was running *)
(* when the cache was flushed.                                               *)
THEOREM GraphsAreFresh == Spec => []GraphsFresh
<1>1. CacheInv => GraphsFresh
  <2> SUFFICES ASSUME CacheInv PROVE GraphsFresh
    OBVIOUS
  <2>1. \A c \in Calls : CallOK(call[c])
    BY DEF CacheInv
  <2>2. QED
    BY <2>1 DEF CacheInv, GraphsFresh, CallOK, Whole, AtLeast, RenameOK
<1>2. QED
  BY <1>1, CacheInvariant, PTL

(* The overlay of one caller is in no cached graph, nor in the graph of a    *)
(* caller without a focus (stampFocus, enrichScopedLSP).                     *)
THEOREM CacheStaysPristine == Spec => []CachePristine
<1>1. CacheInv => CachePristine
  BY DEF CacheInv, CacheOK, CallOK, CachePristine
<1>2. QED
  BY <1>1, CacheInvariant, PTL
================================================================================
