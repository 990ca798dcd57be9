----------------------------- MODULE CodeReports -----------------------------
(***************************************************************************)
(* What is said of code whose calls grow edge by edge: how calls become    *)
(* symbols, what the queries over calls find, and how locators of what     *)
(* they found lead back to it.                                             *)
(*                                                                         *)
(* Node n is a function whose package, file and name Codes gives, and an   *)
(* edge a call.  Read as a hit of a search, the edge <<f, t>> is a symbol  *)
(* that the file of f declares.                                            *)
(***************************************************************************)
EXTENDS GraphReports, SymbolIndex

L == INSTANCE Locators

CONSTANT Codes   \* what the nodes are: [symbol |-> a record each, ...]

CallsOnly == Imports

(* A call finds its symbol, or one of that name that an import of the caller *)
(* reaches too; only calls of the root package, which nothing imports, can   *)
(* stay open or find a namesake elsewhere.  A receiver finds less, never     *)
(* more; and no call is ever left for the last strategy.                     *)
CallsResolved ==
    \A code \in Codes :
      LET funcs == code.symbol
          Imported(i) == {funcs[j].pkg : j \in Targets(CallsOnly, {i})} \ {funcs[i].pkg, <<>>}
          Namesakes(j) == ByName(funcs, funcs[j].name) \ {j}
          Found(e) == Resolve(funcs, funcs[e[2]].name, funcs[e[1]].pkg, Imported(e[1]))
          OnMember(e) == ResolveMember(funcs, funcs[e[2]].name, funcs[e[1]].pkg, Imported(e[1]))
          ToRoot(e) == funcs[e[2]].pkg \in {<<>>} \ {funcs[e[1]].pkg}
      IN  \A e \in CallsOnly :
            /\ ~ToRoot(e) => Found(e) # {}
            /\ OnMember(e) \subseteq Found(e)
            /\ \A r \in Found(e) :
                 /\ r.strategy # "suffix_match"
                 /\ \/ r.symbol = e[2]
                    \/ ToRoot(e) /\ r.strategy = "same_pkg"
                    \/ /\ r.symbol \in Namesakes(e[2]) /\ r.strategy = "import_map"
                       /\ IsImportReachable(funcs[r.symbol].pkg, Imported(e[1]))
            /\ Namesakes(e[2]) = {} => \A r \in Found(e) : r.symbol = e[2]

(* Walks from everywhere begin at the first of exported namesakes, a walk    *)
(* from their name at the last, so of two only one is reached both ways; and *)
(* a walk goes on to what the calls of a symbol resolve to, by receivers or  *)
(* plainly.                                                                  *)
WalksBeginSomewhere ==
    \A code \in Codes :
      LET funcs == code.symbol
          Plain(i) == {funcs[j].name : j \in Targets(CallsOnly, {i})}
          On(i) == {r.symbol : r \in Children(funcs, [plain |-> Plain(i), member |-> {}],
                                                {funcs[j].pkg : j \in Targets(CallsOnly, {i})}, i)}
      IN  /\ \A n \in Names : funcs[n].exported =>
               Cardinality(Roots(funcs, <<>>) \cap ByName(funcs, funcs[n].name)) = 1
          /\ \A n \in Names : Cardinality({m \in ByName(funcs, funcs[n].name) : funcs[m].exported}) > 1 =>
               Roots(funcs, funcs[n].name) \cap Roots(funcs, <<>>) = {}
          /\ \A n \in Names : \A m \in On(n) : \E j \in Targets(CallsOnly, {n}) : funcs[j].name = funcs[m].name

(* A plain name finds its symbol, among others whose names end so, unless it *)
(* is the whole name of a function of the root.                              *)
NamesFound ==
    \A code \in Codes : \A n \in Nodes(CallsOnly) :
      LET found == ResolveSymbol({Fqn(code.symbol[m]) : m \in Nodes(CallsOnly)},
                                 <<Last(code.symbol[n].name)>>)
      IN  \/ Fqn(code.symbol[n]) \in found
          \/ found = {<<Last(code.symbol[n].name)>>}

(* What a symbol calls leaves its package: by the package of a name, also    *)
(* calls of methods of its own package and of functions of the root.  A type *)
(* counts with its methods, unless something calls it by its name, as a      *)
(* constructor, for then it is a function.                                   *)
VitalsCounted ==
    \A code \in Codes :
      LET funcs == code.symbol
          sg == MergeSymbolGraph([i \in Names |-> [funcs[i] EXCEPT !.kind = ""]],
                                 CallsOnly, code.types, {})
          Own(n, m) == IF Len(funcs[m].name) > 1 THEN FALSE
                       ELSE funcs[n].pkg = funcs[m].pkg /\ funcs[m].pkg # <<>>
      IN  /\ \A n \in Names :
               LET p == Probe(sg, funcs[n].pkg, Fqn(funcs[n]))
               IN  /\ p.CrossPkg = Cardinality({m \in Targets(CallsOnly, {n}) : ~Own(n, m)})
                   /\ p.Circuits = {Fqn(funcs[m]) : m \in Targets(CallsOnly, {n})
                                                       \cap Targets(Reversed(CallsOnly), {n})}
          /\ \A t \in Range(code.types) :
               LET p == Probe(sg, t.pkg, Fqn(t))
                   methods == {n \in Names : IsStrictPrefix(Fqn(t), Fqn(funcs[n]))}
               IN  t.kind = "struct" /\ Fqn(t) \notin {Fqn(funcs[n]) : n \in Names} =>
                     p.FanOut = Cardinality({e \in CallsOnly : e[1] \in methods})

(* Whatever takes and gives what, the chains share no symbol, all callers    *)
(* are on them, each step is the one call of the step before, and what is    *)
(* not called begins nothing: its signature is unknown.                      *)
ChainsPartition ==
    \A code \in Codes :
      LET chains == DetectPipelines(edges, code.gives, code.takes, 1)
          On(c) == Range(c.Steps)
      IN  /\ {e[1] : e \in edges} \subseteq UNION {On(c) : c \in chains}
          /\ \A c, d \in chains : c # d => On(c) \cap On(d) = {}
          /\ \A c \in chains :
               /\ Len(c.Steps) > 1 => FanIn(edges, c.Steps[1]) > 0
               /\ IsInjective(c.Steps)
               /\ \A i \in 1..(Len(c.Steps) - 1) :
                    /\ Targets(edges, {c.Steps[i]}) = {c.Steps[i + 1]}
                    /\ (code.gives[c.Steps[i]] \cap code.takes[c.Steps[i + 1]]) \ {"error"} # {}
               /\ c.TypeChain \in {Len(c.Steps) - 1, Len(c.Steps)}

(* Names, vitals and chains of symbols.                                      *)
SymbolsIndexed ==
    /\ CallsResolved /\ WalksBeginSomewhere /\ NamesFound
    /\ VitalsCounted /\ ChainsPartition

------------------------------------------------------------------------------

(* Callers and callees agree with the paths: whoever calls a symbol is among *)
(* its callers, found in the call graph or in the source, and each step of a *)
(* call path is a callee of the one before and a caller of the one after.    *)
PathsFollowCalls ==
    \A code \in Codes :
      LET s == code.symbol
          made == {e \in CallsOnly : s[e[2]].kind = ""}
          names == {s[n].name : n \in Names}
          callees == [a \in names |-> {c.name : c \in GetCallees(CallsOnly, s, a)}]
          callers == [a \in names |->
                        GetCallers(CallsOnly \ made, made, FALSE, {}, s, a).callers]
      IN  /\ \A e \in CallsOnly : <<s[e[1]].name, s[e[1]].file>> \in callers[s[e[2]].name]
          /\ \A a, b \in names : \A path \in GetCallPath(CallsOnly, s, a, b) :
               \A i \in 1..(Len(path) - 1) :
                 /\ path[i + 1] \in callees[path[i]]
                 /\ path[i] \in {c[1] : c \in callers[path[i + 1]]}

(* A symbol reaches another by the taint query just if calls lead there, in  *)
(* as few hops, and never in fewer than by the names of the call graph; but  *)
(* what is called as a function of the root is called is taken for it.       *)
TaintFollowsCalls ==
    \A code \in Codes :
      LET s == code.symbol
          Clear(n) == s[n].pkg # <<>>
          Taint(n, m) == TaintQuery(CallsOnly, [i \in Names |-> i], s, Fqn(s[n]), Fqn(s[m]))
          linked == Linked(CallsOnly)
      IN  \A n, m \in {k \in Nodes(CallsOnly) : Clear(k)} :
            LET taint == Taint(n, m)
                named == GetCallPath(CallsOnly, s, s[n].name, s[m].name)
            IN  /\ taint # {} <=> n = m \/ <<n, m>> \in linked
                /\ \A p \in taint :
                     /\ Len(p) = 1 + Steps(CallsOnly, n, m)
                     /\ named # {} /\ \A q \in named : Len(q) <= Len(p)

(* A symbol of a changed package has at least its own callers against it,    *)
(* and just them if none of its namesakes is called.                         *)
AffectedCounted ==
    \A code \in Codes :
      LET s == code.symbol
      IN  \A n \in Names : FanIn(CallsOnly, n) > 0 =>
            LET count == ComputeDiffIntelligence(CallsOnly, s, {s[n].pkg})
            IN  /\ n \in DOMAIN count /\ count[n] >= FanIn(CallsOnly, n)
                /\ count[n] > FanIn(CallsOnly, n)
                     <=> \E m \in Names \ {n} :
                           s[m].name = s[n].name /\ FanIn(CallsOnly, m) > 0

(* Every escalation of an ambiguous locator can be used: it parses and finds *)
(* the candidate it was made of again, and with a line in it nothing else,   *)
(* save where one path ends as another does or a line is not known.  What a  *)
(* locator with a path did not find, an escalation without one may.          *)
EscalationsResolve ==
    \A code \in Codes :
      LET s == code.symbol
          Word(w) == w[1]
          hit(e) == [name |-> [i \in DOMAIN s[e[2]].name |-> Word(s[e[2]].name[i])],
                     comp |-> s[e[1]].pkg, file |-> s[e[1]].file,
                     line |-> IF e[2] = Size THEN 0 ELSE e[2], go |-> FALSE]
          report == {hit(e) : e \in edges}
          Found(p) == LET r == L!ResolveLocator(report, p) IN r.Hit \cup r.Candidates
          Twins(h) == {g \in report : \/ g.line = 0 \/ h.line = 0
                                      \/ g.line = h.line /\ L!FileMatches(g.file, h.file)}
      IN  \A leaf \in {Word(Last(s[n].name)) : n \in Names},
             path \in {L!NoPath} \cup {s[i].file : i \in Names} :
            LET p == L!Locator(path, 0, <<leaf>>)
                r == L!ResolveLocator(report, p)
            IN  \A h \in r.Candidates : \A parts \in L!EscalationsOf(p, h) :
                  /\ parts \in r.Escalations /\ L!Parse(parts) # {}
                  /\ \A q \in L!Parse(parts) :
                       LET found == Found(q)
                       IN  /\ h \in found
                           /\ q.line > 0 => found \subseteq Twins(h)
                           /\ q.path # L!NoPath /\ path = L!NoPath => found \subseteq r.Candidates

(* Shown is the body of the symbol that was asked for, if the file is as it  *)
(* was scanned.  Once a line has come in above, it is that of the symbol     *)
(* before it, or nothing: a body that holds the line serves for any name.    *)
ShowsWhatIsThere ==
    \A code \in Codes, shift \in 0..1 :
      LET s == code.symbol
          name(t) == [i \in DOMAIN s[t].name |-> s[t].name[i][1]]
          hit(e) == [name |-> name(e[2]), comp |-> s[e[1]].pkg, file |-> s[e[1]].file,
                     line |-> 2 * e[2], go |-> FALSE]
          report == {hit(e) : e \in edges}
          order == [path \in {h.file : h \in report} |->
                      SetToSortSeq(Targets(edges, {n \in Names : s[n].file = path}), <)]
          Body(t) == [name |-> name(t), start |-> 2 * t + shift, end |-> 2 * t + shift + 1,
                      selection |-> 2 * t + shift]
          documents == [path \in DOMAIN order |->
                          [i \in DOMAIN order[path] |-> Body(order[path][i])]]
      IN  \A h \in report :
            LET show == L!GetShow(report, L!Locator(h.file, h.line, <<Last(h.name)>>), documents)
                before == {i \in DOMAIN order[h.file] : 2 * order[h.file][i] = h.line - 2 * shift}
            IN  show.kind = "body" => show.shown = before

(* What queries over calls find, and the locators that lead back to it.      *)
QueriesAnswered ==
    /\ PathsFollowCalls /\ TaintFollowsCalls /\ AffectedCounted
    /\ EscalationsResolve /\ ShowsWhatIsThere

==============================================================================
