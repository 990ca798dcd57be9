------------------------------- MODULE Scanners -------------------------------
(***************************************************************************)
(* The scanners of survey/ that read source text: of TypeScript, Python,   *)
(* Rust, Go, C and the languages of ctags.                                 *)
(*                                                                         *)
(* files is a sequence of records, in the order of a walk of the tree: the *)
(* dir a file is in and its stem, its name without extension.  lines is a  *)
(* sequence of what files import: from is the place of a file in files,    *)
(* and the rest is what is written there.  allow is a set of directories   *)
(* that are scanned, NoDirs for the whole tree.                            *)
(***************************************************************************)
EXTENDS Projects

CONSTANT NoDirs     \* no set of directories

PathOf(file) == Append(file.dir, file.stem)
DirsOf(files) == {files[i].dir : i \in DOMAIN files}

(* The first of the candidates that is there, if any.                        *)
FirstIn(S, candidates) ==
    LET hits == SelectSeq(candidates, LAMBDA c : c \in S)
    IN  IF hits = <<>> THEN {} ELSE {Head(hits)}

Longest(S) == IF S = {} THEN {} ELSE {CHOOSE p \in S : \A q \in S : Len(q) <= Len(p)}
PrefixesIn(S, p) == {q \in S : IsPrefix(q, p)}

(* With the root, what is directly below it is allowed too.                  *)
DirAllowed(p, allow) ==
    allow = NoDirs \/ \E d \in allow : IF d = <<>> THEN Len(p) < 2 ELSE IsPrefix(d, p)

(* From a directory so many up, and then along a path.                       *)
Joined(dir, line) ==
    SubSeq(dir, 1, Len(dir) - line.ups)
      \o [k \in 1..Max({0, line.ups - Len(dir)}) |-> ".."] \o line.path

Sorted(S) == SetToSeq(S)

------------------------------------------------------------------------------
(* TypeScript.  A line is a relative import, that goes up so many            *)
(* directories and then along a path; one by name; or one of a scheme.       *)

(* Of a relative import the last part is taken for a file's name, unless it  *)
(* is the only one.                                                          *)
ResolveRelativeImport(dir, line) ==
    LET resolved == Joined(dir, line)
    IN  IF Len(resolved) < 2 THEN resolved ELSE Front(resolved)

(* A file, or the index of a directory.                                      *)
ResolveRelativeImportFile(dir, line, paths) ==
    FirstIn(paths, <<Joined(dir, line), Append(Joined(dir, line), "index")>>)

(* Mutation: a path that an alias begins goes no farther than the alias.     *)
ResolveAliasShort(path, aliases) ==
    {a.dir \o a.suffix : a \in {b \in aliases : IsPrefix(b.prefix, path)}}

(* An alias stands for a path, or for all paths that begin as it does; the   *)
(* exact ones come first, then the longest.                                  *)
ResolveAlias(path, aliases) ==
    LET exact == {a \in aliases : a.exact /\ a.prefix = path}
        begins == {a \in aliases : ~a.exact /\ IsPrefix(a.prefix, path)}
        hit == IF exact # {} THEN exact
               ELSE {a \in begins : \A b \in begins : Len(b.prefix) <= Len(a.prefix)}
    IN  {a.dir \o SubSeq(path, Len(a.prefix) + 1, Len(path)) \o a.suffix : a \in hit}

(* A file, the index of a directory, or else the first file in it.           *)
ResolveAliasToFile(dir, files) ==
    LET paths == [i \in DOMAIN files |-> PathOf(files[i])]
        direct == FirstIn(Range(paths), <<dir, Append(dir, "index")>>)
        inside == SelectSeq(paths, LAMBDA p : IsStrictPrefix(dir, p))
    IN  IF direct # {} \/ inside = <<>> THEN direct ELSE {Head(inside)}

BarePackageName(line) == SubSeq(line.path, 1, Min({Len(line.path), IF line.scoped THEN 2 ELSE 1}))

(* Where a line leads, and whether outside: at most one.                     *)
ResolveImportTarget(files, line, aliases, fileLevel) ==
    LET dir == files[line.from].dir
        Inside(S) == {[to |-> p, external |-> FALSE] : p \in S}
        aliased == ResolveAlias(line.path, aliases)
    IN  CASE line.kind = "relative" /\ fileLevel ->
               Inside(ResolveRelativeImportFile(dir, line, {PathOf(f) : f \in Range(files)}))
          [] line.kind = "relative" -> Inside({ResolveRelativeImport(dir, line)})
          [] line.kind = "scheme" -> Inside({line.path})
          [] aliased # {} /\ fileLevel -> Inside(UNION {ResolveAliasToFile(d, files) : d \in aliased})
          [] aliased # {} -> Inside(aliased)
          [] OTHER -> {[to |-> BarePackageName(line), external |-> TRUE]}

NamespaceOf(file, fileLevel) == IF fileLevel THEN PathOf(file) ELSE file.dir

(* A namespace per directory or per file, and one per scheme import.         *)
TypeScriptScan(files, lines, aliases, fileLevel, allow) ==
    LET Scanned(i) == \/ DirAllowed(NamespaceOf(files[i], fileLevel), allow)
                      \/ fileLevel /\ DirAllowed(files[i].dir, allow)
        From(line) == NamespaceOf(files[line.from], fileLevel)
        Extract(graph, line) ==
            FoldSet(LAMBDA hit, g : IF line.typeOnly THEN AddTypeEdge(g, <<From(line), hit.to>>)
                                    ELSE AddEdge(g, <<From(line), hit.to>>, hit.external),
                    graph, {t \in ResolveImportTarget(files, line, aliases, fileLevel) :
                              Scanned(line.from) /\ t.to # From(line)})
        schemes == {l.path : l \in {k \in Range(lines) : k.kind = "scheme" /\ Scanned(k.from)}}
    IN  [ns |-> Sorted({NamespaceOf(files[i], fileLevel) : i \in {j \in DOMAIN files : Scanned(j)}}
                         \cup schemes),
         graph |-> FoldLeft(Extract, NoEdges, lines)]

------------------------------------------------------------------------------
(* Python.  A line is the path of a module, as it is written: a relative one *)
(* is passed over.  A namespace is the dotted name of a directory.           *)

Dotted(p) == IF p = <<>> THEN p ELSE <<FoldLeft(LAMBDA s, part : s \o "." \o part, Head(p), Tail(p))>>

(* The root is a package only if no other directory is.                      *)
DiscoverPythonPackages(files) ==
    LET dirs == DirsOf(files)
    IN  IF dirs = {<<>>} THEN dirs ELSE dirs \ {<<>>}

(* What packages are imported as: a directory whose parent is no package by  *)
(* its base name, and those below it from there.  Of two with one base name  *)
(* the later takes the names they share.                                     *)
BuildPyImportIndex(packages, order) ==
    LET roots == SelectSeq(order, LAMBDA p : Front(p) \notin packages)
        Named(root) == [key \in {<<Last(root)>> \o SubSeq(p, Len(root) + 1, Len(p)) :
                                   p \in {q \in packages : IsPrefix(root, q)}} |->
                          root \o Tail(key)]
    IN  FoldLeft(LAMBDA index, root : Named(root) @@ index, <<>>, roots)

ResolvePyImport(key, index, packages) ==
    LET known == Longest(PrefixesIn(DOMAIN index, key))
        above == Longest(PrefixesIn(packages, key))
    IN  IF known # {} THEN {index[p] : p \in known}
        ELSE IF above # {} THEN above
        ELSE {p \in {key} : \E q \in packages : IsStrictPrefix(key, q)}

(* The edges of a package, which sees each name once, outside ones by their  *)
(* head.                                                                     *)
ExtractPythonImports(package, names, index, packages) ==
    LET Target(name) == ResolvePyImport(name, index, packages \ {<<>>})
        inside == {name \in names : Target(name) # {} /\ Target(name) # {package}}
        To(name) == Dotted(CHOOSE t \in Target(name) : TRUE)
        outer == {<<Dotted(package), <<name[1]>>>> : name \in {n \in names : Target(n) = {}}}
    IN  [pair \in {<<Dotted(package), To(name)>> : name \in inside} |->
           [Edge(FALSE, "") EXCEPT !.weight = Cardinality({n \in inside : To(n) = pair[2]})]]
          @@ [pair \in outer |-> Edge(TRUE, "")]

PythonScan(files, lines, allow) ==
    LET packages == DiscoverPythonPackages(files)
        order == SelectSeq([i \in DOMAIN files |-> files[i].dir], LAMBDA d : d \in packages \ {<<>>})
        index == BuildPyImportIndex(packages \ {<<>>}, order)
        scanned == SetToSeq({p \in packages : DirAllowed(p, allow)})
        Names(p) == {l.path : l \in {k \in Range(lines) :
                       k.kind # "relative" /\ files[k.from].dir = p}}
    IN  [ns |-> [i \in DOMAIN scanned |-> Dotted(scanned[i])],
         graph |-> FoldLeft(LAMBDA g, p : ExtractPythonImports(p, Names(p), index, packages) @@ g,
                            NoEdges, scanned)]

------------------------------------------------------------------------------
(* Rust.  manifests has the Cargo.toml of each directory that has one: name  *)
(* is NoName where it has no package, members are the directories of its     *)
(* workspace, deps maps the name of a dependency to whether it is by path.   *)

CONSTANT NoName     \* of a manifest without a package

CrateOf(manifests, dir) == manifests[dir].name

(* A dependency of a crate is an edge, whatever it is used for.              *)
CargoEdges(graph, crate, members) ==
    FoldSet(LAMBDA dep, g : AddEdge(g, <<<<crate.name>>, <<dep>>>>,
                                    ~crate.deps[dep] /\ dep \notin members),
            graph, DOMAIN crate.deps)

(* With a workspace the root's own package is not scanned.                   *)
ScanWorkspace(manifests, members) ==
    LET crates == SelectSeq(members, LAMBDA d : d \in DOMAIN manifests /\ CrateOf(manifests, d) # NoName)
        names == {CrateOf(manifests, d) : d \in Range(crates)}
    IN  [ns |-> [i \in DOMAIN crates |-> <<CrateOf(manifests, crates[i])>>],
         graph |-> FoldLeft(LAMBDA g, d : CargoEdges(g, manifests[d], names), NoEdges, crates)]

ScanSingleCrate(crate) ==
    [ns |-> <<<<crate.name>>>>,
     graph |-> CargoEdges(NoEdges, crate, {})]

RustScan(manifests) ==
    LET root == manifests[<<>>]
    IN  IF root.members # <<>> THEN ScanWorkspace(manifests, root.members) ELSE ScanSingleCrate(root)

(* The nearest manifest above.                                               *)
FindCrateRoot(manifests, dir) == Longest(PrefixesIn(DOMAIN manifests, dir))

(* The crates that changed, by themselves: a dependency on a member of the   *)
(* workspace that is not by path is outside.                                 *)
RustScanDirs(manifests, dirs) ==
    LET roots == UNION {FindCrateRoot(manifests, d) : d \in dirs}
        crates == {d \in roots : CrateOf(manifests, d) # NoName}
    IN  IF roots = {} THEN RustScan(manifests)
        ELSE [ns |-> Sorted({<<CrateOf(manifests, d)>> : d \in crates}),
              graph |-> FoldSet(LAMBDA d, g : CargoEdges(g, manifests[d], {}), NoEdges, crates)]

(* The modules of a crate, file by file, each the path of its file.          *)
RustChildDir(f) == IF Last(f) \in {"mod", "lib", "main"} THEN Front(f) ELSE f

ModuleFile(paths, q) == FirstIn(paths, <<q, Append(q, "mod")>>)

ResolveRustMod(paths, f, name) == ModuleFile(paths, Append(RustChildDir(f), name))

(* As deep as there are files all the way.                                   *)
Deepest(paths, chain) ==
    LET whole == {k \in DOMAIN chain : \A j \in 1..k : ModuleFile(paths, chain[j]) # {}}
    IN  IF whole = {} THEN {} ELSE ModuleFile(paths, chain[Max(whole)])

SrcRoot(paths) == IF \E p \in paths : Len(p) > 1 /\ Head(p) = "src" THEN <<"src">> ELSE <<>>
Chain(base, path) == [k \in DOMAIN path |-> base \o SubSeq(path, 1, k)]

ResolveRustCratePath(paths, path) == Deepest(paths, Chain(SrcRoot(paths), path))

RustParentCandidates(f) ==
    LET dir == Front(f)
        roots == <<<<"src", "lib">>, <<"src", "main">>, <<"lib">>, <<"main">>>>
    IN  CASE Last(f) \in {"lib", "main"} -> <<>>
          [] Last(f) = "mod" /\ Len(dir) < 2 ->
               (IF dir = <<>> THEN <<>> ELSE <<dir>>)
                 \o <<<<"src", "lib">>, <<"lib">>, <<"src", "main">>, <<"main">>, <<"src", "mod">>, <<"mod">>>>
          [] Last(f) = "mod" -> <<dir>> \o [i \in 1..3 |-> Append(Front(dir), <<"lib", "main", "mod">>[i])]
          [] dir = <<>> -> roots
          [] OTHER -> <<Append(dir, "mod"), dir>> \o SubSeq(roots, 1, 2)

(* What super:: names is sought below the parent, and else is the parent.    *)
ResolveRustSuperPath(paths, f, path) ==
    LET parents == FirstIn(paths, RustParentCandidates(f))
        Below(parent) ==
            LET child == RustChildDir(parent)
                base == SrcRoot(paths)
                from == base \o (IF IsPrefix(<<"src">>, child) THEN Tail(child) ELSE child)
                hit == Deepest(paths, (IF from = base THEN <<>> ELSE <<from>>) \o Chain(from, path))
            IN  IF hit = {} THEN {parent} ELSE hit
    IN  UNION {Below(p) : p \in parents}

(* A line is one of mod, crate, super or use, of a path.                     *)
RustFileTarget(paths, line, local) ==
    LET f == line.file
        Inside(S) == {[to |-> p, external |-> FALSE] : p \in S}
        module == ResolveRustCratePath(paths, <<line.path[1]>>)
    IN  CASE line.kind = "mod" -> Inside(ResolveRustMod(paths, f, line.path[1]))
          [] line.kind = "crate" -> Inside(ResolveRustCratePath(paths, line.path))
          [] line.kind = "super" -> Inside(ResolveRustSuperPath(paths, f, line.path))
          [] module # {} -> Inside(module)
          [] OTHER -> {[to |-> <<line.path[1]>>, external |-> line.path[1] \notin local]}

(* local are the names of crates of the workspace and of those by path.      *)
AddFileLevelCrate(proj, prefix, files, lines, local) ==
    LET paths == {PathOf(f) : f \in Range(files)}
        Key(t) == IF t.to \in paths THEN prefix \o t.to ELSE t.to
        Extract(graph, line) ==
            FoldSet(LAMBDA hit, g : AddEdge(g, <<prefix \o line.file, Key(hit)>>, hit.external),
                    graph, {t \in RustFileTarget(paths, line, local) : t.to # line.file})
    IN  [ns |-> proj.ns \o [i \in DOMAIN files |-> prefix \o PathOf(files[i])],
         graph |-> FoldLeft(Extract, proj.graph, lines)]

------------------------------------------------------------------------------
(* Go.  A file of an external test package has test set.  A line is an       *)
(* import of a path, with the names it uses.                                 *)

StartsWith(s, t) == Len(t) <= Len(s) /\ SubSeq(s, 1, Len(t)) = t

(* An import counts as inside if it begins as the module does, also within   *)
(* a part of the path.                                                       *)
GoExternal(mod, to) ==
    LET k == Len(mod)
    IN  ~(Len(to) >= k /\ SubSeq(to, 1, k - 1) = Front(mod) /\ StartsWith(to[k], mod[k]))

GoPackage(mod, file) ==
    LET p == mod \o file.dir
    IN  IF file.test THEN Append(Front(p), Last(p) \o "_test") ELSE p

GoScan(files, lines, mod) ==
    [ns |-> Sorted({GoPackage(mod, f) : f \in Range(files)}),
     graph |-> FoldLeft(LAMBDA g, l : AddEdge(g, <<GoPackage(mod, files[l.from]), l.path>>,
                                             GoExternal(mod, l.path)),
                        NoEdges, lines)]

(* By the build: of the directories given alone, without tests; weighed by   *)
(* the names used.  Where the build fails the whole tree is read instead.    *)
ScanPatterns(files, lines, mod, dirs, builds) ==
    LET built == {f \in Range(files) : ~f.test /\ f.dir \in dirs}
        used == {l \in Range(lines) : files[l.from] \in built}
        Of(pair) == {l \in used : <<mod \o files[l.from].dir, l.path>> = pair}
        Names(pair) == UNION {l.names : l \in Of(pair)}
    IN  IF ~builds THEN GoScan(files, lines, mod)
        ELSE [ns |-> Sorted({mod \o f.dir : f \in built}),
              graph |-> [pair \in {<<mod \o files[l.from].dir, l.path>> : l \in used} |->
                          [Edge(GoExternal(mod, pair[2]), "") EXCEPT
                             !.weight = Max({1, Cardinality(Names(pair))}),
                             !.uses = MapThenSumSet(LAMBDA l : Cardinality(l.names), Of(pair))]]]

PackagesScan(files, lines, mod, builds) == ScanPatterns(files, lines, mod, DirsOf(files), builds)

------------------------------------------------------------------------------
(* C and the languages of ctags.  A namespace is a directory.                *)

(* A header is sought from the root, src and include before the directory of *)
(* the file; what lies in the root counts as its own directory.              *)
IncludeDir(files, line) ==
    LET here == files[line.from].dir
        searched == <<<<>>, <<"src">>, <<"include">>>>
        hit == FirstIn({PathOf(f) : f \in Range(files)}, [i \in 1..3 |-> Joined(searched[i], line)])
        dir == Front(IF hit = {} THEN Joined(here, line) ELSE CHOOSE p \in hit : TRUE)
    IN  IF dir = <<>> THEN here ELSE dir

ExtractCIncludes(files, lines) ==
    FoldLeft(LAMBDA g, l : IF IncludeDir(files, l) = files[l.from].dir THEN g
                           ELSE AddEdge(g, <<files[l.from].dir, IncludeDir(files, l)>>, FALSE),
             NoEdges, lines)

(* order is the one in which the namespaces are met.                         *)
ResolveModuleImport(order, name) ==
    FirstIn(Range(order), SelectSeq(order, LAMBDA d : d # <<>> /\ Last(d) = name))

ResolvePackageImport(order, path) ==
    LET above == Longest(PrefixesIn(Range(order) \ {<<>>}, path))
    IN  IF above # {} THEN above ELSE ResolveModuleImport(order, Last(path))

ResolveZigImport(order, path) == FirstIn(Range(order) \ {<<>>}, <<Front(path)>>)
ResolveLuaRequire(order, path) == Longest(PrefixesIn(Range(order) \ {<<>>}, path))

ImportedDir(language, order, path) ==
    CASE language \in {"java", "kotlin", "csharp"} -> ResolvePackageImport(order, path)
      [] language = "swift" -> ResolveModuleImport(order, path[1])
      [] language = "zig" -> ResolveZigImport(order, path)
      [] language = "lua" -> ResolveLuaRequire(order, path)
      [] OTHER -> {}

CtagsScan(files, includes, imports, language, order) ==
    LET inner == UNION {{<<files[l.from].dir, d>> : d \in ImportedDir(language, order, l.path)} :
                          l \in Range(imports)}
    IN  [ns |-> order,
         graph |-> FoldSet(LAMBDA pair, g : IF pair[1] = pair[2] THEN g ELSE AddEdge(g, pair, FALSE),
                           ExtractCIncludes(files, includes), inner)]

------------------------------------------------------------------------------
(* By a language server.  symbols is a sequence of [file, entry, exported,   *)
(* nested], in the order of the files; nested are those inside of others.    *)
(* calls are pairs of places in symbols; answered are those the server tells *)
(* the calls of.                                                             *)

(* Entry points first, then what is exported.                                *)
PrioritizeCallables(symbols, callables, budget) ==
    LET Group(P(_)) == SelectSeq(callables, LAMBDA i : P(symbols[i]))
        ranked == Group(LAMBDA s : s.entry) \o Group(LAMBDA s : ~s.entry /\ s.exported)
                    \o Group(LAMBDA s : ~s.entry /\ ~s.exported)
    IN  IF budget = 0 \/ Len(callables) <= budget THEN callables ELSE SubSeq(ranked, 1, budget)

ExtractCallEdges(files, symbols, calls, asked) ==
    FoldSet(LAMBDA c, g : AddCallEdge(g, <<files[symbols[c[1]].file].dir, files[symbols[c[2]].file].dir>>),
            NoEdges, {c \in calls : c[1] \in asked})

(* What is nested is neither asked for nor makes a namespace.                *)
LspScan(files, symbols, calls, answered, budget) ==
    LET callables == SelectSeq([i \in DOMAIN symbols |-> i], LAMBDA i : ~symbols[i].nested)
        asked == Range(PrioritizeCallables(symbols, callables, budget))
    IN  [ns |-> SetToSeq({files[symbols[i].file].dir : i \in Range(callables)}),
         graph |-> ExtractCallEdges(files, symbols, calls, asked \cap answered),
         crawlStats |-> [total |-> Len(callables), crawled |-> Cardinality(asked)]]

==============================================================================
