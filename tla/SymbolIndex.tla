----------------------------- MODULE SymbolIndex -----------------------------
(***************************************************************************)
(* How names become symbols: the resolution of calls found in source text, *)
(* the merge of calls and types into one symbol graph, the vitals of a     *)
(* symbol in it, and the chains in which types fit.                        *)
(*                                                                         *)
(* A package is the sequence of the parts of its path, the root package    *)
(* the empty one; a name is the sequence of its words, <<type, method>>    *)
(* for a method, whose receiver is spelled in one way.  Functions come in  *)
(* a list, and a resolution is a set of at most one record.                *)
(***************************************************************************)
EXTENDS GraphAlgorithms, SequencesExt

(* An import reaches its package, what is below it, a package whose path it  *)
(* ends with, and whatever is in the package its last part names.            *)
IsImportReachable(pkg, imports) ==
    \E imp \in imports :
      \/ IsPrefix(imp, pkg)
      \/ pkg # <<>> /\ IsSuffix(pkg, imp)
      \/ pkg # <<>> /\ Len(imp) > 1 /\ pkg[1] = Last(imp)

ByName(funcs, name) == {i \in DOMAIN funcs : funcs[i].name = name}

FirstOf(S) == {i \in S : \A j \in S : i <= j}
LastIn(S) == {i \in S : \A j \in S : j <= i}

Resolved(S, strategy) == {[symbol |-> i, strategy |-> strategy] : i \in S}

(* The first candidate that can be reached, although others can be too.      *)
ResolveImportMap(funcs, name, imports) ==
    FirstOf({i \in ByName(funcs, name) : IsImportReachable(funcs[i].pkg, imports)})

ResolveSamePkg(funcs, name, pkg) == LastIn({i \in ByName(funcs, name) : funcs[i].pkg = pkg})

ResolveSuffixMatch(funcs, name, imports) ==
    LET reachable == {i \in ByName(funcs, name) : IsImportReachable(funcs[i].pkg, imports)}
    IN  IF Cardinality(reachable) = 1 THEN reachable ELSE {}

(* Mutation: the package of the caller is asked first.                       *)
SamePkgFirst(funcs, name, pkg, imports) ==
    LET same == ResolveSamePkg(funcs, name, pkg)
    IN  IF same # {} THEN Resolved(same, "same_pkg")
        ELSE Resolved(ResolveImportMap(funcs, name, imports), "import_map")

ResolveMember(funcs, name, pkg, imports) ==
    LET imported == ResolveImportMap(funcs, name, imports)
    IN  IF imported # {} THEN Resolved(imported, "import_map")
        ELSE Resolved(ResolveSamePkg(funcs, name, pkg), "same_pkg")

Resolve(funcs, name, pkg, imports) ==
    LET near == ResolveMember(funcs, name, pkg, imports)
        named == ByName(funcs, name)
    IN  CASE near # {} -> near
          [] near = {} /\ Cardinality(named) = 1 -> Resolved(named, "unique_name")
          [] OTHER -> Resolved(ResolveSuffixMatch(funcs, name, imports), "suffix_match")

(* A query names the last of its namesakes, no query every exported name.    *)
Roots(funcs, query) ==
    IF query # <<>> THEN LastIn(ByName(funcs, query))
    ELSE {i \in DOMAIN funcs : i \in FirstOf({j \in ByName(funcs, funcs[i].name) : funcs[j].exported})}

(* calls: what function i calls by name, and on a receiver.                  *)
Children(funcs, calls, imports, i) ==
    UNION {Resolve(funcs, name, funcs[i].pkg, imports) : name \in calls.plain}
      \cup UNION {ResolveMember(funcs, name, funcs[i].pkg, imports) : name \in calls.member}

------------------------------------------------------------------------------

Fqn(s) == (IF s.pkg = <<>> THEN <<>> ELSE <<s.pkg>>) \o s.name

(* Everything before the last dot: of a method, its type.                    *)
PkgOf(fqn) == IF Len(fqn) > 1 THEN Front(fqn) ELSE fqn

MethodOfType(type, method) == IsStrictPrefix(type, method)

NodeKind(n) == CASE n.kind # "" -> n.kind
                 [] n.kind = "" /\ Len(n.name) > 1 -> "method"
                 [] OTHER -> "function"

(* The first to come keeps the place: calls, then types with their methods.  *)
MergeSymbolGraph(called, calls, types, related) ==
    LET add(nodes, n) == nodes @@ (Fqn(n) :> NodeKind(n))
    IN  [nodes |-> FoldLeft(add, << >>, called \o types),
         edges |-> {<<Fqn(called[c[1]]), Fqn(called[c[2]]), "call">> : c \in calls} \cup related]

(* Exact, else a suffix, else a part; of several the map of nodes decides.   *)
ResolveSymbol(nodes, partial) ==
    LET ending == {f \in nodes : IsStrictSuffix(partial, f)}
    IN  CASE partial \in nodes -> {partial}
          [] partial \notin nodes /\ ending # {} -> ending
          [] OTHER -> {f \in nodes : \E i \in DOMAIN f : IsPrefix(partial, SubSeq(f, i, Len(f)))}

(* A type counts with its methods, calls among them on both sides.           *)
Probe(sg, pkg, symbol) ==
    LET parts == {symbol} \cup (IF sg.nodes[symbol] \in {"struct", "interface"}
                                THEN {f \in DOMAIN sg.nodes : MethodOfType(symbol, f)} ELSE {})
        out == {e \in sg.edges : e[1] \in parts}
        in == {e \in sg.edges : e[2] \in parts}
    IN  [FanOut |-> Cardinality(out), FanIn |-> Cardinality(in),
         CrossPkg |-> Cardinality({e \in out : PkgOf(e[2]) # <<pkg>>}),
         Circuits |-> {e[2] : e \in out} \cap {e[1] : e \in in},
         Boundaries |-> {PkgOf(e[2]) : e \in out},
         Status |-> CASE out \cup in # {} -> "covered"
                      [] sg.edges = {} -> "no_call_graph"
                      [] OTHER -> "not_covered"]

------------------------------------------------------------------------------
(* Chains in which each symbol makes one call, to a symbol that takes what   *)
(* it gives.  Signatures are read off calls, so only of symbols called.      *)

TypesOverlap(returns, params) == (returns \ {"error"}) \cap params # {}

ToVisit(visited, chain, n) == n \notin visited \cup Range(chain)

(* A type is noted for the next symbol also when that is not taken.          *)
BuildChain(E, gives, takes, visited, start) ==
    LET Sig(types, n) == IF FanIn(E, n) > 0 THEN types[n] ELSE {}
        Next(n) == {m \in Targets(E, {n}) : FanOut(E, n) = 1
                                              /\ TypesOverlap(Sig(gives, n), Sig(takes, m))}
        Grow(chain, k) == chain \o SetToSeq({m \in Next(Last(chain)) : ToVisit(visited, chain, m)})
        steps == FoldLeft(Grow, <<start>>, [k \in 1..Cardinality(Nodes(E)) |-> k])
    IN  [Steps |-> steps, TypeChain |-> Len(steps) - 1 + Cardinality(Next(Last(steps)))]

(* From every caller that is not on a chain yet, in the order of their names. *)
DetectPipelines(E, gives, takes, minLength) ==
    LET Walk(w, start) ==
          IF start \in w.visited THEN w
          ELSE LET chain == BuildChain(E, gives, takes, w.visited, start)
               IN  [visited |-> w.visited \cup Range(chain.Steps), chains |-> w.chains \cup {chain}]
        walked == FoldLeft(Walk, [visited |-> {}, chains |-> {}],
                           SetToSortSeq({e[1] : e \in E}, <))
    IN  {c \in walked.chains : Len(c.Steps) >= minLength}

------------------------------------------------------------------------------

(* The queries of the engine over calls.  calls is a set of pairs of symbols, *)
(* and symbol[n] says what is known of n: package, file and name.  The call   *)
(* graph knows symbols by name alone, the symbol graph by package and name.   *)

CallsByName(calls, symbol) == {<<symbol[c[1]].name, symbol[c[2]].name>> : c \in calls}

(* Places of calls, by the name of the other end and the file of the caller. *)
Site(symbol, n, file) == [name |-> symbol[n].name, pkg |-> symbol[n].pkg, file |-> file]

GetCallees(calls, symbol, name) ==
    {Site(symbol, c[2], symbol[c[1]].file) : c \in {d \in calls : symbol[d[1]].name = name}}

(* A name that is not qualified matches every qualified one.                 *)
CalleeMatches(callee, name) == IsSuffix(name, callee)

(* One place for each caller and file, from the call graph and from the      *)
(* source, where also what is constructed is called.  Without a call graph   *)
(* only names in the report are looked for.                                  *)
GetCallers(calls, sources, failed, index, symbol, name) ==
    LET graph == IF failed THEN {} ELSE calls
        callers == {c[1] : c \in {d \in graph \cup sources : CalleeMatches(symbol[d[2]].name, name)}}
    IN  [callers |-> {<<symbol[n].name, symbol[n].file>> : n \in callers},
         status |-> CASE failed /\ name \notin index -> "not found"
                      [] ~failed /\ name \notin index /\ callers = {} -> "not found"
                      [] OTHER -> IF graph = {} THEN "partial" ELSE "complete"]

(* Dijkstra of gonum: some shortest path, or none.                           *)
ShortestPaths(E, from, to) ==
    LET paths == {c \in Chains(E) : c[1] = from /\ Last(c) = to}
    IN  IF from = to THEN {<<from>>}
        ELSE {c \in paths : \A d \in paths : Len(c) <= Len(d)}

GetCallPath(calls, symbol, from, to) == ShortestPaths(CallsByName(calls, symbol), from, to)

(* The first node named so, or qualified so; else the last node whose name   *)
(* ends so, else the first that has the words somewhere; else an end of an   *)
(* edge.                                                                     *)
MatchSymbol(nodes, symbol, ends, needle) ==
    LET Fqns(S) == {Fqn(symbol[nodes[i]]) : i \in S}
        Fits(i) == Fqn(symbol[nodes[i]]) = needle \/ symbol[nodes[i]].name = needle
        EndsSo(f) == IsStrictSuffix(needle, f)
        Has(f) == \E i \in DOMAIN f : IsPrefix(needle, SubSeq(f, i, Len(f)))
        fitting == Fqns(FirstOf({i \in DOMAIN nodes : Fits(i)}))
        ending == Fqns(LastIn({i \in DOMAIN nodes : EndsSo(Fqn(symbol[nodes[i]]))}))
        having == Fqns(FirstOf({i \in DOMAIN nodes : Has(Fqn(symbol[nodes[i]]))}))
    IN  CASE fitting # {} -> fitting
          [] fitting = {} /\ needle \in ends -> {needle}
          [] fitting = {} /\ needle \notin ends /\ ending # {} -> ending
          [] OTHER -> IF having # {} THEN having ELSE {f \in ends : Has(f)}

(* Queued as it is met: some shortest path.  Kinds are calls and data flow.  *)
BfsCallPath(E, src, dst) == ShortestPaths(E, src, dst)

TaintQuery(calls, nodes, symbol, source, sink) ==
    LET E == {<<Fqn(symbol[c[1]]), Fqn(symbol[c[2]])>> : c \in calls}
        Match(needle) == MatchSymbol(nodes, symbol, Nodes(E), needle)
    IN  UNION {BfsCallPath(E, s, t) : s \in Match(source), t \in Match(sink)}

(* Symbols of the packages of changed files, by how often their name is      *)
(* called.                                                                   *)
ComputeDiffIntelligence(calls, symbol, changed) ==
    LET Count(n) == Cardinality({c \in calls : symbol[c[2]].name = symbol[n].name})
        affected == {n \in Nodes(calls) : symbol[n].pkg \in changed /\ Count(n) > 0}
    IN  [n \in affected |-> Count(n)]

==============================================================================
