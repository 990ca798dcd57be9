---------------------------- MODULE CompositeScans ----------------------------
(***************************************************************************)
(* Which scanner a tree is given to (lang/, survey/auto_scanner.go,        *)
(* survey/registry.go), the scan of a tree of several projects             *)
(* (survey/composite_scanner.go) and that of changed packages alone        *)
(* (survey/partial.go).                                                    *)
(*                                                                         *)
(* markers is a sequence of [dir, name], the manifests in a tree in the    *)
(* order of a walk; counts the number of source files of each language.    *)
(***************************************************************************)
EXTENDS Scanners

CONSTANT MinExtensionFiles      \* that make a language without a marker count, 3

LanguageMarkers ==
    <<<<"go.mod", "go">>, <<"Cargo.toml", "rust">>, <<"CMakeLists.txt", "cpp">>,
      <<"pyproject.toml", "python">>, <<"setup.py", "python">>, <<"tsconfig.json", "typescript">>,
      <<"package.json", "typescript">>, <<"pom.xml", "java">>, <<"build.gradle", "java">>,
      <<"build.gradle.kts", "kotlin">>, <<"Package.swift", "swift">>, <<"build.zig", "zig">>,
      <<"Makefile", "c">>, <<"*.csproj", "csharp">>, <<"*.sln", "csharp">>>>

RootProjectMarkers == SelectSeq(LanguageMarkers, LAMBDA m : m[2] \in {"go", "rust", "python"})

SubProjectMarkers ==
    SelectSeq(LanguageMarkers, LAMBDA m : m[2] \in {"typescript", "python", "rust"})

(* By name, those that count as a language of a tree.                        *)
LanguagesByName ==
    <<"c", "cpp", "csharp", "go", "java", "kotlin", "lua", "proto", "python", "rust", "shell",
      "swift", "typescript", "zig">>

Once(seq) == FoldLeft(LAMBDA done, e : IF e \in Range(done) THEN done ELSE Append(done, e), <<>>, seq)
Second(pairs) == [i \in DOMAIN pairs |-> pairs[i][2]]

RootMarkers(markers) == {m.name : m \in {n \in Range(markers) : n.dir = <<>>}}

DetectLanguages(names) == Once(Second(SelectSeq(LanguageMarkers, LAMBDA m : m[1] \in names)))

(* The markers' languages, then others of which there are enough files.      *)
InventoryLanguages(markers, counts) ==
    LET marked == DetectLanguages(RootMarkers(markers) \ {"Makefile"})
        extra == SelectSeq(LanguagesByName, LAMBDA l :
                   /\ l \in DOMAIN counts \ Range(marked)
                   /\ counts[l] >= MinExtensionFiles)
        rank == SetToSortSeq(DOMAIN extra, LAMBDA i, j :
                   \/ counts[extra[i]] > counts[extra[j]]
                   \/ counts[extra[i]] = counts[extra[j]] /\ i < j)
    IN  marked \o [i \in DOMAIN rank |-> extra[rank[i]]]

(* A project for every language a directory has a marker of.                 *)
DiscoverSubProjects(markers) ==
    LET LanguageOf(m, table) == {r[2] : r \in {s \in Range(table) : s[1] = m.name}}
        atRoot == SelectSeq(RootProjectMarkers, LAMBDA r : r[1] \in RootMarkers(markers))
        walked == SelectSeq(markers, LAMBDA m :
                    LanguageOf(m, SubProjectMarkers) # {} /\ "node_modules" \notin Range(m.dir))
    IN  Once([i \in DOMAIN atRoot |-> [dir |-> <<>>, lang |-> atRoot[i][2]]]
               \o [i \in DOMAIN walked |->
                     [dir |-> walked[i].dir,
                      lang |-> CHOOSE l \in LanguageOf(walked[i], SubProjectMarkers) : TRUE]])

IsPolyglot(markers, counts) ==
    Len(InventoryLanguages(markers, counts)) > 1 \/ Len(DiscoverSubProjects(markers)) > 1

(* installed are the language servers there are.                             *)
ScannerFromRegistry(lang, installed) ==
    LET server == [l \in {"c", "cpp", "java"} |-> IF l = "java" THEN "jdtls" ELSE "clangd"]
    IN  CASE lang = "go" -> "packages"
          [] lang \in {"rust", "python", "typescript"} -> lang
          [] lang \in DOMAIN server /\ server[lang] \in installed -> "lsp"
          [] OTHER -> "ctags"

(* Without an inventory a Makefile is enough.                                *)
ResolveScanner(markers, installed) ==
    LET langs == DetectLanguages(RootMarkers(markers))
    IN  IF langs = <<>> THEN "ctags" ELSE ScannerFromRegistry(langs[1], installed)

(* The scanner that is used in the end.  A composite scan that finds no      *)
(* project goes back to the automatic choice.                                *)
AutoScan(markers, counts, installed) ==
    LET langs == InventoryLanguages(markers, counts)
    IN  IF IsPolyglot(markers, counts)
        THEN IF DiscoverSubProjects(markers) = <<>> THEN "never" ELSE "composite"
        ELSE IF langs # <<>> THEN ScannerFromRegistry(langs[1], installed)
        ELSE ResolveScanner(markers, installed)

CompositeOverride(markers, counts, installed) ==
    IF DiscoverSubProjects(markers) = <<>> THEN AutoScan(markers, counts, installed) ELSE "composite"

------------------------------------------------------------------------------
(* The composite scan.  scans has the project each of subs was scanned to.   *)

PrefixImportPath(prefix, p) ==
    IF prefix = <<>> THEN p ELSE prefix \o IF p = <<>> THEN <<"(root)">> ELSE p

RustImportPath(prefix, p) ==
    IF prefix # <<>> /\ p = <<Last(prefix)>> THEN prefix ELSE PrefixImportPath(prefix, p)

ApplyPrefix(sub, p) ==
    IF sub.lang = "rust" THEN RustImportPath(sub.dir, p) ELSE PrefixImportPath(sub.dir, p)

(* An edge counts once for a project, whatever its weight there.             *)
MergeSubProjects(subs, scans) ==
    LET ns == FlattenSeq([i \in DOMAIN subs |->
                [k \in DOMAIN scans[i].ns |-> ApplyPrefix(subs[i], scans[i].ns[k])]])
    IN  [ns |-> Once(ns),
         graph |-> FoldLeft(LAMBDA g, i : FoldSet(LAMBDA e, h :
                       LET pair == <<ApplyPrefix(subs[i], e[1]), ApplyPrefix(subs[i], e[2])>>
                       IN  IF scans[i].graph[e].protocol = "imports-type" THEN AddTypeEdge(h, pair)
                           ELSE AddEdge(h, pair, scans[i].graph[e].external),
                     g, DOMAIN scans[i].graph),
                   NoEdges, [i \in DOMAIN subs |-> i])]

(* The crates of Rust projects, with the members of their workspaces.        *)
CargoCrates(subs, manifests) ==
    LET Members(dir) == [i \in DOMAIN manifests[dir].members |-> dir \o manifests[dir].members[i]]
        rust == SelectSeq(subs, LAMBDA s : s.lang = "rust" /\ s.dir \in DOMAIN manifests)
    IN  SelectSeq(FlattenSeq([i \in DOMAIN rust |-> <<rust[i].dir>> \o Members(rust[i].dir)]),
                  LAMBDA d : d \in DOMAIN manifests /\ manifests[d].name # NoName)

(* A crate's namespace has its name, or the path its own scan gave it.       *)
BuildRustCrateImportPathMap(crates, manifests, ns) ==
    FoldLeft(LAMBDA names, d :
               LET name == manifests[d].name
                   path == IF <<name>> \in ns THEN <<name>> ELSE RustImportPath(d, <<name>>)
               IN  (name :> path) @@ names,
             <<>>, crates)

EmitRustCargoPathEdges(graph, crates, manifests, ns) ==
    LET paths == BuildRustCrateImportPathMap(crates, manifests, ns)
        Emit(g, d) == FoldSet(LAMBDA dep, h :
            LET pair == <<paths[manifests[d].name], IF dep \in DOMAIN paths THEN paths[dep] ELSE <<>>>>
            IN  IF dep \in DOMAIN paths /\ Range(pair) \subseteq ns /\ pair[1] # pair[2]
                THEN AddEdge(h, pair, FALSE) ELSE h,
            g, DOMAIN manifests[d].deps)
    IN  FoldLeft(Emit, graph, crates)

(* A path that is no namespace stands for the nearest one above.             *)
NearestNamespace(ns, p) ==
    LET above == Longest(PrefixesIn(ns \ {<<>>}, p))
    IN  IF p \in ns \/ above = {} THEN p ELSE CHOOSE q \in above : TRUE

(* Mutation: edges that come to be one count once.                           *)
NormalizeOnce(graph, ns) ==
    LET Ends(e) == <<NearestNamespace(ns, e[1]), NearestNamespace(ns, e[2])>>
    IN  [pair \in {Ends(e) : e \in DOMAIN graph} |-> Edge(~(Range(pair) \subseteq ns), "")]

NormalizeMergedEdges(graph, ns) ==
    LET Inner(pair) == Range(pair) \subseteq ns
        Ends(e) == <<NearestNamespace(ns, e[1]), NearestNamespace(ns, e[2])>>
        kept == {e \in DOMAIN graph : Inner(Ends(e)) \/ graph[e].external}
    IN  [pair \in {Ends(e) : e \in kept} |->
           [Edge(~Inner(pair), "") EXCEPT
              !.weight = MapThenSumSet(LAMBDA e : graph[e].weight, {e \in kept : Ends(e) = pair})]]

CompositeScan(subs, scans, manifests) ==
    LET Normalized(graph, ns) == [ns |-> ns, graph |-> NormalizeMergedEdges(graph, Range(ns))]
        WithCrates(merged) ==
            Normalized(EmitRustCargoPathEdges(merged.graph, CargoCrates(subs, manifests), manifests,
                                              Range(merged.ns)), merged.ns)
    IN  WithCrates(MergeSubProjects(subs, scans))

------------------------------------------------------------------------------

(* Of changed files in several languages each is scanned for by itself.      *)
MergePartialProjects(a, b) ==
    [ns |-> a.ns \o b.ns,
     graph |-> FoldSet(LAMBDA e, g :
                  LET added == AddEdge(g, e, b.graph[e].external)
                  IN  IF b.graph[e].uses > 0 THEN SetEdgeCoupling(added, e, b.graph[e].uses) ELSE added,
                  a.graph, DOMAIN b.graph)]

(* scan gives the scan of the directories of a language.                     *)
PartialScan(scan) ==
    LET langs == SetToSeq(DOMAIN scan)
    IN  FoldLeft(LAMBDA proj, l : MergePartialProjects(proj, scan[l]), scan[langs[1]], Tail(langs))

==============================================================================
