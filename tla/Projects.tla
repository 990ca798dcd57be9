------------------------------- MODULE Projects -------------------------------
(***************************************************************************)
(* The project a scan yields (model/module.go), the components it becomes  *)
(* (arch/architecture.go), and the merge of changed packages into an       *)
(* earlier report (arch/merge.go, arch/incremental_full.go).               *)
(*                                                                         *)
(* A project is a record of its namespaces, a sequence of paths in which a *)
(* path may come twice, and its graph, a function from pairs of paths to   *)
(* what is known of the edge.  A path is the sequence of its parts, the    *)
(* root the empty one.  uses stands for the call sites and the lines that  *)
(* use the other end.                                                      *)
(***************************************************************************)
EXTENDS GraphAlgorithms, SequencesExt

CONSTANTS MergeLimit,       \* packages that are merged whatever their share, 8
          MaxDepthSearch    \* depths that are tried, 5

Edge(external, protocol) == [external |-> external, protocol |-> protocol, weight |-> 1, uses |-> 0]

NoEdges == [pair \in {} |-> Edge(FALSE, "")]

(* An edge that is there gains weight, and a protocol in the domain of       *)
(* upgraded becomes another.                                                 *)
Add(graph, pair, new, upgraded) ==
    IF pair \notin DOMAIN graph THEN (pair :> new) @@ graph
    ELSE [graph EXCEPT ![pair].weight = @ + 1,
                       ![pair].protocol = IF @ \in DOMAIN upgraded THEN upgraded[@] ELSE @]

AddEdge(graph, pair, external) == Add(graph, pair, Edge(external, ""), "imports-type" :> "import")

(* A runtime import has no protocol until a type is imported too.  Mutation: *)
(* it is marked as one.                                                      *)
AddMarkedEdge(graph, pair, external) == Add(graph, pair, Edge(external, "import"), <<>>)

AddTypeEdge(graph, pair) == Add(graph, pair, Edge(FALSE, "imports-type"), "" :> "imports-type")
AddCallEdge(graph, pair) ==
    Add(graph, pair, Edge(FALSE, "call"), [protocol \in {"", "import"} |-> "call"])

SetEdgeCoupling(graph, pair, uses) ==
    IF pair \in DOMAIN graph THEN [graph EXCEPT ![pair].uses = uses] ELSE graph

------------------------------------------------------------------------------

ShortImportPath(mod, p) == IF IsPrefix(mod, p) THEN SubSeq(p, Len(mod) + 1, Len(p)) ELSE p

InTestkit(p) == Len(p) > 1 /\ Head(p) = "testkit"

(* What is left out of a component model, and the protocol of an edge in it. *)
LeftOut(mod, opts, p) == opts.excludeTests /\ InTestkit(ShortImportPath(mod, p))
Far(mod, edge, p) == IF edge.external THEN p ELSE ShortImportPath(mod, p)
ShownProtocol(edge) ==
    IF edge.external THEN "external" ELSE IF edge.protocol = "" THEN "import" ELSE edge.protocol

ShownEdges(proj, mod, opts) ==
    {e \in DOMAIN proj.graph :
        /\ proj.graph[e].external => opts.includeExternal
        /\ ~LeftOut(mod, opts, e[1])
        /\ ~(opts.excludeTests /\ InTestkit(Far(mod, proj.graph[e], e[2])))}

(* One component per namespace; an edge inside the project needs both ends.  *)
PackageLevel(proj, mod, opts) ==
    LET Whole(e) == proj.graph[e].external \/ {e[1], e[2]} \subseteq Range(proj.ns)
    IN  [services |-> [i \in DOMAIN SelectSeq(proj.ns, LAMBDA p : ~LeftOut(mod, opts, p)) |->
                         ShortImportPath(mod, SelectSeq(proj.ns, LAMBDA p : ~LeftOut(mod, opts, p))[i])],
         edges |-> {[from |-> ShortImportPath(mod, e[1]), to |-> Far(mod, proj.graph[e], e[2]),
                     protocol |-> ShownProtocol(proj.graph[e]), weight |-> proj.graph[e].weight] :
                      e \in {f \in ShownEdges(proj, mod, opts) : Whole(f)}}]

(* Packages that share their first depth parts form a group, one alone none. *)
Stem(p, depth) == SubSeq(p, 1, Min({depth, Len(p)}))

InferDefaultGroups(proj, mod, depth) ==
    LET rel == [i \in DOMAIN proj.ns |-> ShortImportPath(mod, proj.ns[i])]
        Alike(p) == {i \in DOMAIN rel : Stem(rel[i], depth) = Stem(p, depth)}
    IN  [p \in {q \in Range(rel) \ {<<>>} : Cardinality(Alike(q)) > 1} |-> Stem(p, depth)]

(* The depth that leaves fewest components, before one that saves none.      *)
ComputeSuggestedDepth(proj, mod, flat) ==
    LET depths == 1..MaxDepthSearch
        Groups(d) == Range(InferDefaultGroups(proj, mod, d))
        Alone(d) == {i \in DOMAIN proj.ns : Stem(ShortImportPath(mod, proj.ns[i]), d) \notin Groups(d)}
        Count(d) == Cardinality(Groups(d)) + Cardinality(Alone(d))
        tried == {d \in depths : \A k \in 1..d : Count(k) < flat}
    IN  IF flat <= 3 \/ tried = {} THEN 0
        ELSE Min({d \in tried : \A k \in tried : Count(d) <= Count(k)})

(* With groups no edge is left out for an end that is no namespace.          *)
GroupLevel(proj, mod, opts, groups) ==
    LET GroupOf(p) == IF p \in DOMAIN groups THEN groups[p] ELSE p
        From(e) == GroupOf(ShortImportPath(mod, e[1]))
        To(e) == IF proj.graph[e].external THEN e[2] ELSE GroupOf(ShortImportPath(mod, e[2]))
        across == {e \in ShownEdges(proj, mod, opts) : From(e) # To(e)}
        Joined(pair) == {e \in across : <<From(e), To(e)>> = pair}
        protocols(pair) == {ShownProtocol(proj.graph[e]) : e \in Joined(pair)}
        namespaces == {p \in Range(proj.ns) : ~LeftOut(mod, opts, p)}
    IN  [services |-> {GroupOf(ShortImportPath(mod, p)) : p \in namespaces}
                        \cup {To(e) : e \in {f \in ShownEdges(proj, mod, opts) : proj.graph[f].external}},
         edges |-> {[from |-> pair[1], to |-> pair[2],
                     protocol |-> IF protocols(pair) = {"import"} THEN "import"
                                  ELSE CHOOSE p \in protocols(pair) : p # "import",
                     weight |-> MapThenSumSet(LAMBDA e : proj.graph[e].weight, Joined(pair))] :
                      pair \in {<<From(e), To(e)>> : e \in across}}]

------------------------------------------------------------------------------

(* A package counts as changed also when a changed one has its base name.    *)
ChangedKeys(changed) == changed \cup {<<Last(c)>> : c \in changed \ {<<>>}}
IsChanged(mod, p, changed) ==
    LET rel == ShortImportPath(mod, p)
    IN  rel \in ChangedKeys(changed) \/ (rel # <<>> /\ <<Last(rel)>> \in ChangedKeys(changed))

(* What edges keep when they are added to another graph.                     *)
Carried(graph, S) == [e \in S |-> [Edge(graph[e].external, "") EXCEPT !.uses = graph[e].uses]]

(* Mutation: what changed packages imported before is kept.                  *)
MergeKeepingStale(baseline, partial, mod, changed) ==
    LET kept == {e \in DOMAIN baseline.graph : ~IsChanged(mod, e[2], changed)}
    IN  [ns |-> SelectSeq(baseline.ns, LAMBDA p : ~IsChanged(mod, p, changed)) \o partial.ns,
         graph |-> Carried(partial.graph, DOMAIN partial.graph) @@ Carried(baseline.graph, kept)]

MergeProjects(baseline, partial, mod, changed) ==
    LET Fresh(p) == IsChanged(mod, p, changed) \/ p \in Range(partial.ns)
        kept == {e \in DOMAIN baseline.graph : ~Fresh(e[1]) /\ ~Fresh(e[2])}
    IN  [ns |-> SelectSeq(baseline.ns, LAMBDA p : ~IsChanged(mod, p, changed)) \o partial.ns,
         graph |-> Carried(partial.graph, DOMAIN partial.graph) @@ Carried(baseline.graph, kept)]

(* A merge needs known changes, none of a manifest, and few packages.        *)
RequireFullScan(services, changed, manifest) ==
    changed = {} \/ manifest \/ Cardinality(changed) > Max({MergeLimit, services \div 4})

MergeScan(baseline, partial, full, mod, changed, manifest) ==
    IF RequireFullScan(Len(baseline.ns), changed, manifest) THEN full
    ELSE MergeProjects(baseline, partial, mod, changed)

(* Coverage, authors and anchors of a package are fresh where a changed      *)
(* package lies above it or below it, or one has its base name.              *)
PkgKeyMatches(k, changed) ==
    LET allow == ChangedKeys(changed)
        base == IF k = <<>> THEN k ELSE <<Last(k)>>
    IN  \/ {k, base} \cap allow # {}
        \/ k # <<>> /\ \E a \in allow \ {<<>>} : IsPrefix(a, k) \/ IsPrefix(k, a)

(* The packages whose authors are counted again.                             *)
PkgAllowed(p, changed) ==
    LET allow == changed \ {<<>>}
    IN  \/ allow = {}
        \/ \E a \in allow : IsPrefix(a, p) \/ IsPrefix(p, a) \/ <<Last(p)>> = a \/ <<Last(a)>> = p

MergeExtras(baseline, fresh, changed) ==
    fresh @@ [p \in {q \in DOMAIN baseline : ~PkgKeyMatches(q, changed)} |-> baseline[p]]

(* Of the changed packages alone the tests are run; of them and those that   *)
(* match the anchors are extracted.                                          *)
ApplyIncrementalFull(pkgs, changed) ==
    LET before == [p \in pkgs |-> "before"]
        Now(S) == [p \in S |-> "now"]
        named == pkgs \ {<<>>}
    IN  [coverage |-> MergeExtras(before, Now(pkgs \cap changed), changed),
         authors |-> MergeExtras([p \in named |-> "before"],
                                 Now({p \in named : PkgAllowed(p, changed)}), changed),
         anchors |-> MergeExtras(before, Now({p \in pkgs : PkgKeyMatches(p, changed)}), changed)]

==============================================================================
