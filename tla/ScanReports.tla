----------------------------- MODULE ScanReports -----------------------------
(***************************************************************************)
(* What the scanners see of source files, which are the nodes of the graph *)
(* of GraphReports, and what a merge and a composite scan make of it.      *)
(*                                                                         *)
(* An edge is an import of one file by another, and one of a file by       *)
(* itself stands for the import of a library.  Scans see imports one by    *)
(* one, so graphs of up to MaxImports edges are enough.                    *)
(***************************************************************************)
EXTENDS GraphReports, CompositeScans

CONSTANTS Trees,        \* where the files are: a sequence of [dir, stem, test] each
          Crates,       \* the dir and the name of each Rust crate of a workspace
          MaxImports    \* bound on the imports of a tree

ASSUME ScanReportsAssumption ==
    /\ MaxImports \in Nat
    /\ \A files \in Trees : DOMAIN files = Names
    /\ DOMAIN Crates = Names

Everything == [includeExternal |-> TRUE, excludeTests |-> FALSE]

(* The model of components, as the pairs its edges link and their weights.   *)
Shown(proj, mod) ==
    LET arch == PackageLevel(proj, mod, Everything)
    IN  [services |-> arch.services,
         links |-> {[pair |-> <<e.from, e.to>>, weight |-> e.weight] : e \in arch.edges}]

(* What is expected: of each of S the pair P gives it, weighed by how many    *)
(* there are.                                                                *)
Links(S, P(_)) ==
    {[pair |-> pair, weight |-> Cardinality({e \in S : P(e) = pair})] : pair \in {P(e) : e \in S}}

Line(kind, from, ups, path) ==
    [kind |-> kind, from |-> from, ups |-> ups, path |-> path,
     typeOnly |-> FALSE, scoped |-> FALSE, names |-> {path}]

(* A path as it is written in a file of dir: up to what both share, and down.*)
Relative(from, dir, path) ==
    LET share == Max({k \in 0..Min({Len(dir), Len(path) - 1}) :
                        SubSeq(dir, 1, k) = SubSeq(path, 1, k)})
    IN  Line("relative", from, Len(dir) - share, SubSeq(path, share + 1, Len(path)))

(* An index is imported as its directory, if that is not above and no file.  *)
Written(files, e) ==
    LET to == files[e[2]]
        plain == ~IsPrefix(to.dir, files[e[1]].dir) /\ to.dir \notin {PathOf(f) : f \in Range(files)}
    IN  IF to.stem = "index" /\ plain THEN to.dir ELSE PathOf(to)

Listed(S, L(_)) == FoldSet(LAMBDA e, seq : Append(seq, L(e)), <<>>, S)

------------------------------------------------------------------------------

(* A directory in TypeScript imports the directory of each file its files    *)
(* import, but: the index of a directory inside another counts for the       *)
(* other, a file of the root for a directory that has its name, and by an    *)
(* alias of a part of the path only indexes are found.  File by file all are.*)
TypeScriptResolves(files) ==
    LET dirs == DirsOf(files)
        aliased(e) == Head(Written(files, e)) = "src" /\ e[1] # e[2]
        AsWritten(e) ==
            IF e[1] = e[2] THEN Line("named", e[1], 0, <<"react", "dom">>)
            ELSE IF aliased(e) THEN Line("named", e[1], 0, <<"@">> \o Tail(Written(files, e)))
            ELSE Relative(e[1], files[e[1]].dir, Written(files, e))
        lines == Listed(edges, AsWritten)
        aliases == {[exact |-> FALSE, prefix |-> <<"@">>, dir |-> <<"src">>, suffix |-> <<>>]}
        From(e) == files[e[1]].dir
        To(e) ==
            IF e[1] = e[2] THEN <<"react">>
            ELSE IF aliased(e) \/ Len(Written(files, e)) < 2 THEN Written(files, e)
            ELSE Front(Written(files, e))
        seen == {e \in edges : e[1] = e[2] \/ To(e) \in dirs \ {From(e)}}
        byFile == TypeScriptScan(files, lines, aliases, TRUE, NoDirs).graph
    IN  /\ Shown(TypeScriptScan(files, lines, aliases, FALSE, NoDirs), <<"app">>).links
             = Links(seen, LAMBDA e : <<From(e), To(e)>>)
        /\ {p \in DOMAIN byFile : ~byFile[p].external}
             = {<<PathOf(files[e[1]]), PathOf(files[e[2]])>> : e \in Imports}

(* A package in Python imports the package of each module its modules        *)
(* import, but: one whose first part is also the name of a package nested    *)
(* where its parent is none counts for that; a module beside a package of    *)
(* its name counts for the package; the modules of the root are not scanned, *)
(* nor known otherwise.                                                      *)
PythonResolves(files) ==
    LET packages == DirsOf(files) \ {<<>>}
        tops == {i \in Names : files[i].dir \in packages /\ Front(files[i].dir) \notin packages}
        Key(e) == IF files[e[2]].stem = "index" THEN files[e[2]].dir ELSE PathOf(files[e[2]])
        written == {e \in edges : Key(e) # <<>>}
        lines == Listed(written, LAMBDA e :
                   Line("named", e[1], 0, IF e[1] = e[2] THEN <<"numpy">> ELSE Key(e)))
        (* The names a package goes by, and what the last one that has it is. *)
        Hiding(p) == {i \in tops : Last(files[i].dir) = Head(p) /\ files[i].dir \o Tail(p) \in packages}
        Hidden(p) == IF Hiding(p) = {} THEN p ELSE files[Max(Hiding(p))].dir \o Tail(p)
        To(e) ==
            IF e[1] = e[2] THEN <<"numpy">>
            ELSE Hidden(IF files[e[2]].dir = <<>> \/ PathOf(files[e[2]]) \in packages
                        THEN PathOf(files[e[2]]) ELSE files[e[2]].dir)
        seen == {<<files[e[1]].dir, To(e)>> : e \in {f \in written : files[f[1]].dir \in packages}}
    IN  packages # {} =>
          {l.pair : l \in Shown(PythonScan(files, lines, NoDirs), <<"app">>).links}
            = {<<Dotted(p[1]), Dotted(p[2])>> : p \in {q \in seen : q[1] # q[2]}}

(* Both scanners of Go show the same imports, but for external tests, which  *)
(* the one by the build leaves out; one weighs by files, one by names.  A    *)
(* library whose path begins as the module's is taken for a part of it, and  *)
(* lost.                                                                     *)
GoResolves(files) ==
    LET mod == <<"m">>
        imported == {e \in edges : e[1] = e[2] \/ files[e[1]].dir # files[e[2]].dir}
        To(e) == IF e[1] # e[2] THEN files[e[2]].dir ELSE IF e[1] = 1 THEN <<"m2">> ELSE <<"fmt">>
        AsWritten(e) == Line("named", e[1], 0, IF e[1] = e[2] THEN To(e) ELSE mod \o To(e))
        lines == Listed(imported, AsWritten)
        From(e) == ShortImportPath(mod, GoPackage(mod, files[e[1]]))
        plain == {files[i].dir : i \in {j \in Names : ~files[j].test}}
        seen == {e \in imported : IF e[1] = e[2] THEN To(e) = <<"fmt">> ELSE To(e) \in plain}
    IN  /\ Shown(GoScan(files, lines, mod), mod).links = Links(seen, LAMBDA e : <<From(e), To(e)>>)
        /\ Shown(PackagesScan(files, lines, mod, TRUE), mod).links
             = {[pair |-> <<From(e), To(e)>>, weight |-> 1] : e \in {f \in seen : ~files[f[1]].test}}
        /\ PackagesScan(files, lines, mod, FALSE) = GoScan(files, lines, mod)

(* Headers are found beside or below the file that includes them, and        *)
(* packages by the last part of their name: where nothing else goes by the   *)
(* same, all imports are shown, whatever the order of the directories; one   *)
(* of the root never is.                                                     *)
CtagsResolves(files) ==
    LET dirs == DirsOf(files)
        there(e) == files[e[2]].dir
        below == {e \in Imports : there(e) # <<>>}
        includes == Listed(below, LAMBDA e :
                      Relative(e[1], files[e[1]].dir, PathOf(files[e[2]])))
        named == Listed(below, LAMBDA e : Line("named", e[1], 0, <<Last(there(e))>>))
        Clear(l) == \A base \in {<<>>, <<"src">>, <<"include">>}, f \in Range(files) :
                      PathOf(f) = Joined(base, l) => f.dir = Front(Joined(files[l.from].dir, l))
        Alone(d) == \A other \in dirs \ {d, <<>>} : Last(other) # Last(d)
        expected == {p \in {<<files[e[1]].dir, there(e)>> : e \in below} : p[1] # p[2]}
        order == SetToSeq(dirs)
    IN  /\ (\A l \in Range(includes) : Clear(l)) =>
             DOMAIN CtagsScan(files, includes, <<>>, "c", order).graph = expected
        /\ (\A e \in below : Alone(there(e))) =>
             \A o \in {order, Reverse(order)}, language \in {"java", "swift"} :
               DOMAIN CtagsScan(files, <<>>, named, language, o).graph = expected

(* A module in Rust is found by its path if all modules above it have files, *)
(* and else what is shown is above it; it is found by mod from its parent;   *)
(* and its parent is found by super, unless it is a directory's and the      *)
(* parent lies beside the directory.                                         *)
RustResolves(files) ==
    LET paths == {PathOf(f) : f \in Range(files)}
        base == SrcRoot(paths)
        TopOf(p) == Last(p) \in {"lib", "main"}
        (* The path of a module is that of the directory its children are in. *)
        Module(p) == RustChildDir(p)
        Here(e) == PathOf(files[e[1]])
        There(e) == PathOf(files[e[2]])
        Crate(e) == SubSeq(Module(There(e)), Len(base) + 1, Len(Module(There(e))))
        RustLine(kind, e, path) == [kind |-> kind, file |-> Here(e), path |-> path]
        Scan(S, kind, Path(_)) ==
            DOMAIN AddFileLevelCrate([ns |-> <<>>, graph |-> NoEdges], <<"crates">>, files,
                     Listed(S, LAMBDA e : RustLine(kind, e, Path(e))), {}).graph
        Pairs(S) == {<<<<"crates">> \o Here(e), <<"crates">> \o There(e)>> : e \in S}
        inner == {e \in Imports : ~TopOf(There(e)) /\ IsPrefix(base, There(e))}
        children == {e \in inner : Front(Module(There(e))) = Module(Here(e))}
        modules == {Module(p) : p \in paths}
        whole == \A p \in paths : ~TopOf(p) => Front(Module(p)) \in modules
        beside(e) == Last(Here(e)) = "mod" /\ ~(Last(There(e)) \in {"mod", "lib", "main"})
        parents == {e \in Imports : ~TopOf(Here(e)) /\ Front(Module(Here(e))) = Module(There(e))}
    IN  /\ whole => Scan(inner, "crate", LAMBDA e : Crate(e) \o <<"Item">>) = Pairs(inner)
        /\ \A pair \in Scan(inner, "crate", Crate) : \E e \in inner :
             /\ pair[1] = <<"crates">> \o Here(e)
             /\ IsPrefix(Module(Tail(pair[2])), Module(There(e)))
        /\ Scan(children, "mod", LAMBDA e : <<Last(Module(There(e)))>>) = Pairs(children)
        /\ whole => Scan(parents, "super", LAMBDA e : <<"Item">>)
                      = Pairs({e \in parents : ~beside(e)})

(* A language server shows each call, also one inside a directory, but none  *)
(* by or to what is nested.  With a budget those that are left out come      *)
(* after as many others; what the server does not answer is missing silently.*)
LspResolves(files) ==
    LET symbols == [i \in Names |-> [file |-> i, entry |-> i = 3, exported |-> i \in Exported,
                                     nested |-> i = Size /\ files[i].dir # <<>>]]
        Scan(answered, budget) == LspScan(files, symbols, edges, answered, budget)
        plain == {i \in Names : ~symbols[i].nested}
        there == {files[i].dir : i \in plain}
        Seen(S) == Links({e \in edges : e[1] \in S /\ files[e[2]].dir \in there},
                         LAMBDA e : <<files[e[1]].dir, files[e[2]].dir>>)
        LinksOf(proj) == Shown([ns |-> proj.ns, graph |-> proj.graph], <<"app">>).links
        Rank(i) == IF symbols[i].entry THEN 1 ELSE IF symbols[i].exported THEN 2 ELSE 3
    IN  /\ \A answered \in {Names, {1, 3}} : LinksOf(Scan(answered, 0)) = Seen(answered \cap plain)
        /\ \E asked \in SUBSET plain :
             /\ Cardinality(asked) = 2 /\ Scan(Names, 2).crawlStats.crawled = 2
             /\ \A i \in asked, j \in plain \ asked : Rank(i) <= Rank(j)
             /\ LinksOf(Scan(Names, 2)) = Seen(asked)

(* What each scanner shows of the imports written in a tree, whole.          *)
ScansResolve ==
    Cardinality(edges) <= MaxImports =>
      \A files \in Trees :
        /\ TypeScriptResolves(files) /\ PythonResolves(files) /\ GoResolves(files)
        /\ CtagsResolves(files) /\ RustResolves(files)
        /\ LspResolves(files)

------------------------------------------------------------------------------

(* After a merge of the changed directories into an earlier report every     *)
(* component is there once, but for those lost, that a changed one shares    *)
(* its base name with, and those doubled, that were scanned again though     *)
(* they count as unchanged; nothing stale is shown, and of the imports those *)
(* of changed components by others are missing.  All weigh 1.                *)
Merged(full, baseline, partial, changed, lost, doubled, mod) ==
    LET now == Shown(full, mod)
        merged == Shown(MergeScan(baseline, partial, full, mod, changed, FALSE), mod)
        times(p) == Cardinality({i \in DOMAIN merged.services : merged.services[i] = p})
        again == {ShortImportPath(mod, p) : p \in Range(partial.ns)}
    IN  /\ \A p \in Range(now.services) :
             times(p) = (IF p \in lost THEN 0 ELSE IF p \in doubled THEN 2 ELSE 1)
        /\ merged.links = {[l EXCEPT !.weight = 1] : l \in {k \in now.links :
              /\ k.pair[1] \notin lost /\ k.pair[2] \notin lost
              /\ k.pair[1] \in again \/ k.pair[2] \notin again}}

(* The files of a directory are scanned with those below it, and with the    *)
(* root all directories directly below, in all languages but Go.  There, or  *)
(* in Python, where no nested package counts as changed, are the doubled.    *)
MergesByDirectory(files, changed) ==
    LET dirs == DirsOf(files)
        Under(d) == \E c \in changed : IF c = <<>> THEN Len(d) = 1 ELSE IsStrictPrefix(c, d)
        Namesake(d) == d # <<>> /\ d \notin changed /\ \E c \in changed \ {<<>>} : Last(c) = Last(d)
        was == {e \in edges : files[e[1]].dir \notin changed}
                 \cup {e \in Names \X Names : files[e[1]].dir \in changed}
        lines(S) == Listed(S, LAMBDA e :
            IF e[1] = e[2] THEN Line("named", e[1], 0, <<"react">>)
            ELSE Relative(e[1], files[e[1]].dir, PathOf(files[e[2]])))
        TypeScript(S, allow) == TypeScriptScan(files, lines(S), {}, FALSE, allow)
        Go(S) == Listed({e \in S : files[e[1]].dir # files[e[2]].dir},
                        LAMBDA e : Line("named", e[1], 0, <<"m">> \o files[e[2]].dir))
        plain == {files[i].dir : i \in {j \in Names : ~files[j].test}}
        nested == {d \in dirs : Len(d) > 1}
        modules(S) == Listed({e \in S : files[e[2]].dir # <<>>},
                             LAMBDA e : Line("named", e[1], 0, files[e[2]].dir))
        packages == dirs \ {<<>>}
    IN  /\ Merged(TypeScript(edges, NoDirs), TypeScript(was, NoDirs), TypeScript(edges, changed), changed,
                  {d \in dirs : Namesake(d) /\ ~Under(d)},
                  {d \in dirs \ changed : Under(d) /\ ~Namesake(d)}, <<"app">>)
        /\ changed \subseteq plain =>
             Merged(PackagesScan(files, Go(edges), <<"m">>, TRUE), PackagesScan(files, Go(was), <<"m">>, TRUE),
                    ScanPatterns(files, Go(edges), <<"m">>, changed, TRUE), changed,
                    {d \in plain : Namesake(d)}, {}, <<"m">>)
        /\ packages # {} =>
             Merged(PythonScan(files, modules(edges), NoDirs), PythonScan(files, modules(was), NoDirs),
                    PythonScan(files, modules(edges), changed), changed,
                    {Dotted(d) : d \in {p \in packages \ nested : Namesake(p) /\ ~Under(p)}},
                    {Dotted(d) : d \in {p \in packages :
                       (p \in changed \/ Under(p)) /\ (p \in nested \/ (p \notin changed /\ ~Namesake(p)))}},
                    <<"app">>)

(* Crates are known by name: a changed one whose directory has another name  *)
(* is doubled, and one is lost that has the name of a changed directory.     *)
(* What a changed crate has from the workspace then counts as outside.  Only *)
(* odd crates depend by path.                                                *)
MergesCrates(touched, inner) ==
    LET Deps(S, n) == [name \in {Crates[m].name : m \in Targets(S, {n}) \ {n}} |-> n % 2 = 1]
                        @@ [name \in {"serde" : e \in S \cap {<<n, n>>}} |-> FALSE]
        NodeAt(d) == CHOOSE n \in Names : Crates[n].dir = d
        Manifests(S) == [d \in {<<>>} \cup {Crates[n].dir : n \in Names} |->
            IF d = <<>> THEN [name |-> NoName, deps |-> <<>>,
                              members |-> [n \in Names |-> Crates[n].dir]]
            ELSE [name |-> Crates[NodeAt(d)].name, deps |-> Deps(S, NodeAt(d)), members |-> <<>>]]
        was == {e \in edges : e[1] \notin touched} \cup (touched \X Names)
        changed == {Crates[n].dir \o inner : n \in touched}
        partial == RustScanDirs(Manifests(edges), changed)
        named == {Last(c) : c \in changed}
        Key(S) == {<<Crates[n].name>> : n \in S}
    IN  /\ Merged(RustScan(Manifests(edges)), RustScan(Manifests(was)), partial, changed,
                  {p \in Key(Names \ touched) : p[1] \in named},
                  {p \in Key(touched) : p[1] \notin named}, <<"app">>)
        /\ {p \in DOMAIN partial.graph : ~partial.graph[p].external}
             = {<<<<Crates[e[1]].name>>, <<Crates[e[2]].name>>>> :
                  e \in {f \in Imports : f[1] \in touched /\ f[1] % 2 = 1}}

(* Of what a full report has of unchanged packages their anchors are kept;   *)
(* their coverage, unless a changed one lies above or below or has the base  *)
(* name; their authors, unless both are inside others and have one base name.*)
ExtrasKept(pkgs, changed) ==
    LET kept == ApplyIncrementalFull(pkgs, changed)
        others == changed \ {<<>>}
        OnPath(p) == p # <<>> /\ \E c \in others : IsPrefix(c, p) \/ IsPrefix(p, c)
        Alikes(p) == {c \in others : p # <<>> /\ Last(c) = Last(p)}
        fresh(f) == {p \in DOMAIN f : f[p] = "now"}
    IN  /\ DOMAIN kept.anchors = pkgs
        /\ DOMAIN kept.coverage
             = {p \in pkgs : p \in changed \/ (~OnPath(p) /\ Alikes(p) = {})}
        /\ fresh(kept.coverage) = pkgs \cap changed
        /\ others # {} =>
             (pkgs \ {<<>>}) \ DOMAIN kept.authors
               = {p \in pkgs : /\ ~OnPath(p) /\ Alikes(p) # {}
                               /\ \A q \in {p} \cup Alikes(p) : Len(q) > 1}

(* What a merge makes of an earlier report and a scan of what changed.       *)
MergeLosesOnly ==
    Cardinality(edges) <= MaxImports =>
      /\ \A files \in Trees : LET Dirs(S) == {files[i].dir : i \in S}
         IN  /\ \A S \in {{1}, {1, 2}} : MergesByDirectory(files, Dirs(S))
             /\ edges = {} => \A S \in SUBSET Names \ {{}} : ExtrasKept(Dirs(Names), Dirs(S))
      /\ \A touched \in {{2}, {3}, {1, 3}}, inner \in {<<>>, <<"src">>} : MergesCrates(touched, inner)

------------------------------------------------------------------------------

(* A project inside another is scanned by itself and with the other.  What   *)
(* both see weighs two, and what lies in the directory of the inner one is   *)
(* there twice; the inner one takes what is outside of it, libraries too,    *)
(* for its directory.                                                        *)
NestedTwice(files, top) ==
    LET dirs == DirsOf(files)
        inner == SelectSeq([i \in Names |-> i], LAMBDA i : IsPrefix(top, files[i].dir))
        nested == [k \in DOMAIN inner |->
                     [files[inner[k]] EXCEPT !.dir = SubSeq(@, 2, Len(@))]]
        PlaceOf(i) == CHOOSE k \in DOMAIN inner : inner[k] = i
        AsWritten(e, from) ==
            IF e[1] = e[2] THEN Line("named", from, 0, <<"react">>)
            ELSE Relative(from, files[e[1]].dir, PathOf(files[e[2]]))
        within == {e \in edges : e[1] \in Range(inner)}
        subs == DiscoverSubProjects(<<[dir |-> <<>>, name |-> "package.json"],
                                      [dir |-> top, name |-> "tsconfig.json"]>>)
        scans == <<TypeScriptScan(files, Listed(edges, LAMBDA e : AsWritten(e, e[1])), {}, FALSE, NoDirs),
                   TypeScriptScan(nested, Listed(within, LAMBDA e : AsWritten(e, PlaceOf(e[1]))),
                                  {}, FALSE, NoDirs)>>
        here == top \in dirs
        Own(d) == IF d = top THEN top \o <<"(root)">> ELSE d
        Outer(e) == IF e[1] = e[2] THEN <<"react">>
                    ELSE IF files[e[2]].dir = <<>> THEN PathOf(files[e[2]]) ELSE files[e[2]].dir
        Inner(e) == LET j == files[e[2]]
                    IN  IF e[1] # e[2] /\ j.dir = top /\ PathOf(j) \in dirs THEN PathOf(j)
                        ELSE IF e[1] # e[2] /\ IsStrictPrefix(top, j.dir) THEN j.dir
                        ELSE IF e[1] = e[2] /\ ~here THEN top \o <<"react">>
                        ELSE top
        outer == {<<files[e[1]].dir, Outer(e)>> : e \in {f \in edges :
                    f[1] = f[2] \/ Outer(f) \in dirs \ {files[f[1]].dir}}}
        nearby == {<<Own(files[e[1]].dir), Inner(e)>> : e \in {f \in within :
                     /\ ~(IsStrictPrefix(top, files[f[1]].dir) /\ f[1] # f[2] /\ Inner(f) = files[f[1]].dir)
                     /\ here \/ Inner(f) # top}}
        Times(p) == IF p \in outer /\ p \in nearby THEN 2 ELSE 1
        Whole(ns, links) ==
            /\ {l.pair : l \in links} = outer \cup nearby
            /\ \A l \in links : l.pair[2] # top => l.weight = Times(l.pair)
            /\ IsInjective(ns)
            /\ Range(ns) = dirs \cup {Own(d) : d \in dirs \cap {top}}
    IN  \A proj \in {CompositeScan(subs, scans, <<>>)} : Whole(proj.ns, Shown(proj, <<"app">>).links)

(* In a workspace each crate is a project too: it is there by its name and   *)
(* by the path of its directory.  An import of another weighs three: it is   *)
(* scanned once and added for the member and for the project.  By the path a *)
(* crate with its directory's name imports itself if it depends on anything. *)
WorkspaceTwice ==
    LET Deps(n) == [name \in {Crates[m].name : m \in Targets(edges, {n}) \ {n}} |-> n % 2 = 1]
                     @@ [name \in {"serde" : e \in edges \cap {<<n, n>>}} |-> FALSE]
        manifests == [d \in {<<>>} \cup {Crates[n].dir : n \in Names} |->
            IF d = <<>> THEN [name |-> NoName, deps |-> <<>>,
                              members |-> [n \in Names |-> Crates[n].dir]]
            ELSE LET n == CHOOSE m \in Names : Crates[m].dir = d
                 IN  [name |-> Crates[n].name, deps |-> Deps(n), members |-> <<>>]]
        markers == <<[dir |-> <<>>, name |-> "Cargo.toml"]>>
                     \o [n \in Names |-> [dir |-> Crates[n].dir, name |-> "Cargo.toml"]]
        subs == DiscoverSubProjects(markers)
        scans == [i \in DOMAIN subs |->
                    RustScan([d \in {<<>>} |-> manifests[subs[i].dir]])]
        Name(n) == <<Crates[n].name>>
        own == {n \in Names : Last(Crates[n].dir) = Crates[n].name}
        Path(n) == IF n \in own THEN Crates[n].dir ELSE Crates[n].dir \o Name(n)
        Whole(ns, graph) ==
            /\ Range(ns) = {Name(n) : n \in Names} \cup {Path(n) : n \in Names}
            /\ {p \in DOMAIN graph : ~graph[p].external}
                 = {<<Name(e[1]), Name(e[2])>> : e \in Imports}
                     \cup {<<Path(n), Path(n)>> : n \in {m \in own : Targets(edges, {m}) # {}}}
            /\ \A e \in Imports : graph[<<Name(e[1]), Name(e[2])>>].weight = 3
    IN  /\ AutoScan(markers, <<>>, {}) = "composite"
        /\ \A proj \in {CompositeScan(subs, [scans EXCEPT ![1] = RustScan(manifests)], manifests)} :
             Whole(proj.ns, proj.graph)

(* An import shows as one of a type if a type is imported and nothing else   *)
(* is from then on, though what came before may be used at run time.         *)
ProtocolByOrder ==
    LET files == <<[dir |-> <<"a">>, stem |-> "x", test |-> FALSE],
                   [dir |-> <<"b">>, stem |-> "y", test |-> FALSE]>>
        line == Relative(1, <<"a">>, <<"b", "y">>)
        Scan(kinds) == TypeScriptScan(files, [k \in DOMAIN kinds |->
                                         [line EXCEPT !.typeOnly = kinds[k]]], {}, FALSE, NoDirs)
        Protocols(proj) == {e.protocol : e \in PackageLevel(proj, <<"app">>, Everything).edges}
        whole == <<[dir |-> <<>>, lang |-> "typescript"]>>
    IN  \A n \in 1..4 : \A kinds \in [1..n -> BOOLEAN] :
          LET typed == {k \in 1..n : kinds[k]}
          IN  /\ Protocols(Scan(kinds))
                    = {IF typed # {} /\ \A k \in 1..n : k > Min(typed) => kinds[k]
                       THEN "imports-type" ELSE "import"}
              /\ Protocols(CompositeScan(whole, <<Scan(kinds)>>, <<>>)) = {"import"}

(* A tree of several languages or projects is composite; but where no marker *)
(* is of a language that has projects, the choice never ends.                *)
ScannerChosen ==
    LET marking == {"go.mod", "package.json", "pom.xml", "build.gradle.kts", "Makefile"}
        Present(S) == SelectSeq(Second([i \in DOMAIN LanguageMarkers |->
                        <<"", LanguageMarkers[i][1]>>]), LAMBDA n : n \in S)
    IN  \A S \in SUBSET marking, scripts \in {0, 2, 3}, inner \in BOOLEAN :
          LET here == Present(S)
              markers == [i \in DOMAIN here |-> [dir |-> <<>>, name |-> here[i]]]
                           \o (IF inner THEN <<[dir |-> <<"web">>, name |-> "package.json"]>> ELSE <<>>)
              chosen == AutoScan(markers, "shell" :> scripts, {})
              kinds == Cardinality(S \ {"Makefile"}) + (IF scripts = 3 THEN 1 ELSE 0)
              projects == Cardinality(S \cap {"go.mod", "package.json"}) + (IF inner THEN 1 ELSE 0)
          IN  /\ chosen = "never" <=> kinds > 1 /\ projects = 0
              /\ chosen = "composite" <=> projects > 0 /\ (kinds > 1 \/ projects > 1)
              /\ kinds <= 1 /\ projects = 0 => chosen = "ctags"

(* Components put together by the first parts of their paths import what     *)
(* their members do, as often; also what is no component of its own.         *)
GroupsAddUp(files) ==
    LET lines == Listed(edges, LAMBDA e :
            IF e[1] = e[2] THEN Line("named", e[1], 0, <<"react">>)
            ELSE Relative(e[1], files[e[1]].dir, PathOf(files[e[2]])))
        Group(p) == IF p \in DirsOf(files) \ {<<>>}
                       /\ \E q \in DirsOf(files) \ {<<>>, p} : Head(q) = Head(p)
                    THEN <<Head(p)>> ELSE p
        To(e) == IF e[1] = e[2] THEN <<"react">>
                 ELSE IF files[e[2]].dir = <<>> THEN PathOf(files[e[2]]) ELSE files[e[2]].dir
        Pair(e) == <<Group(files[e[1]].dir), IF e[1] = e[2] THEN <<"react">> ELSE Group(To(e))>>
        across == {e \in edges : Pair(e)[1] # Pair(e)[2]}
        Grouped(proj) ==
            GroupLevel(proj, <<"app">>, Everything, InferDefaultGroups(proj, <<"app">>, 1)).edges
    IN  {[pair |-> <<e.from, e.to>>, weight |-> e.weight] :
           e \in Grouped(TypeScriptScan(files, lines, {}, FALSE, NoDirs))} = Links(across, Pair)

(* The depth suggested for components leaves the fewest there are, of those  *)
(* of all depths up to the first that saves none.                            *)
DepthSaves ==
    LET Paths == {<<>>, <<"a">>, <<"a", "x">>, <<"a", "y">>, <<"b">>, <<"b", "x", "p">>, <<"b", "x", "q">>}
    IN  \A S \in SUBSET Paths \ {{}} :
          LET proj == [ns |-> SetToSeq({<<"m">> \o p : p \in S}), graph |-> NoEdges]
              flat == Cardinality(S)
              size == [d \in 1..MaxDepthSearch |->
                         Cardinality(GroupLevel(proj, <<"m">>, Everything,
                                                InferDefaultGroups(proj, <<"m">>, d)).services)]
              depth == ComputeSuggestedDepth(proj, <<"m">>, flat)
              Better(k) == IF depth = 0 THEN size[k] < flat ELSE size[k] < size[depth]
          IN  /\ depth > 0 => size[depth] < flat
              /\ flat > 3 => \A k \in 1..MaxDepthSearch :
                               Better(k) => \E j \in 1..k : size[j] = flat

(* Changes in two languages are put together: nothing is lost but weights.   *)
PartialsAddUp(files, changed) ==
    LET used == {e \in edges : files[e[1]].dir # files[e[2]].dir}
        plain == {e \in used : files[e[2]].dir # <<>>}
        go == ScanPatterns(files, Listed(used, LAMBDA e :
                  Line("named", e[1], 0, <<"m">> \o files[e[2]].dir)), <<"m">>, changed, TRUE)
        typeScript == TypeScriptScan(files, Listed(plain, LAMBDA e :
                  Relative(e[1], files[e[1]].dir, PathOf(files[e[2]]))), {}, FALSE, changed)
        Together(scan, both) ==
            /\ Len(both.ns) = Len(scan["go"].ns) + Len(scan["typescript"].ns)
            /\ DOMAIN both.graph = DOMAIN scan["go"].graph \cup DOMAIN scan["typescript"].graph
            /\ \A p \in DOMAIN both.graph :
                 /\ both.graph[p].weight = 1
                 /\ both.graph[p].uses > 0 <=> p \in DOMAIN scan["go"].graph
    IN  \A scan \in {"go" :> go @@ "typescript" :> typeScript} : Together(scan, PartialScan(scan))

(* What becomes of scans when they are put together.                         *)
ScansCompose ==
    /\ edges = {} => ProtocolByOrder /\ ScannerChosen /\ DepthSaves
    /\ Cardinality(edges) <= MaxImports =>
         /\ WorkspaceTwice
         /\ \A files \in Trees :
              /\ \A d \in DirsOf(files) \ {<<>>} : NestedTwice(files, <<Head(d)>>)
              /\ GroupsAddUp(files) /\ PartialsAddUp(files, {files[1].dir, files[2].dir})

==============================================================================
