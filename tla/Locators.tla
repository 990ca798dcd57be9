------------------------------ MODULE Locators ------------------------------
(***************************************************************************)
(* How a locator that an agent writes finds a symbol: parsed, searched for *)
(* in the report, matched, and answered with one hit or with tighter       *)
(* locators; and what is shown of the hit.                                 *)
(*                                                                         *)
(* A locator is the sequence of its parts between colons, the name in it   *)
(* a sequence of words.  A hit has a name (with its type for a method), a  *)
(* component and a file, each a path, and a line, 0 if unknown.  "Contains" *)
(* of strings is of whole words here, and case is not told apart.          *)
(***************************************************************************)
EXTENDS Integers, Sequences, SequencesExt, FiniteSets

NoPath == <<>>

Locator(path, line, name) == [path |-> path, line |-> line, name |-> name]

(* One part is a name, two are a path and a name, three have a line between. *)
Parse(parts) ==
    CASE Len(parts) = 1 -> {Locator(NoPath, 0, parts[1])}
      [] Len(parts) = 2 /\ <<>> \notin Range(parts) -> {Locator(parts[1], 0, parts[2])}
      [] Len(parts) = 3 /\ parts[1] # <<>> /\ parts[2] > 0 /\ parts[3] # <<>> ->
           {Locator(parts[1], parts[2], parts[3])}
      [] OTHER -> {}

Leaf(p) == Last(p.name)
Parent(p) == IF Len(p.name) > 1 THEN p.name[Len(p.name) - 1] ELSE ""

SymbolFileMatches(file, filter) ==
    file # NoPath /\ (IsSuffix(file, filter) \/ IsSuffix(filter, file))

FileMatches(file, want) == file # NoPath /\ (IsSuffix(file, want) \/ IsSuffix(want, file))

(* The search in the report: the leaf is part of the name, the file fits.    *)
SearchSymbolsFiltered(report, term, file) ==
    {h \in report : /\ term \in Range(h.name)
                    /\ file # NoPath => SymbolFileMatches(h.file, file)}

EffectiveParent(h) ==
    CASE Len(h.name) > 1 -> h.name[Len(h.name) - 1]
      [] Len(h.name) = 1 /\ h.comp # <<>> -> Last(h.comp)
      [] OTHER -> ""

ParentMatches(parent, h) == parent \in {EffectiveParent(h)} \cup Range(h.comp \o h.name)

(* Mutation: the name as it is written.                                      *)
ExactName(p, h) == h.name = p.name

NameMatches(p, h) ==
    /\ Last(h.name) = Leaf(p)
    /\ Parent(p) # "" => ParentMatches(Parent(p), h)

Match(p, pool) ==
    {h \in pool : /\ p.path # NoPath => FileMatches(h.file, p.path)
                  /\ p.line > 0 /\ h.line > 0 => h.line = p.line
                  /\ NameMatches(p, h)}

(* The tighter locators a candidate gives rise to, in parts.                 *)
EscalationsOf(p, h) ==
    {<<<<EffectiveParent(h), Leaf(p)>>>> : i \in {j \in {1} : EffectiveParent(h) # ""}}
      \cup {<<h.file, <<Leaf(p)>>>> : i \in {j \in {1} : h.file # NoPath}}
      \cup {<<h.file, h.line, <<Leaf(p)>>>> : i \in {j \in {1} : h.file # NoPath /\ h.line > 0}}

Escalations(p, hits) == UNION {EscalationsOf(p, h) : h \in hits}

Resolve(p, pool) ==
    LET hits == Match(p, pool)
    IN  [Hit |-> IF Cardinality(hits) = 1 THEN hits ELSE {},
         Candidates |-> IF Cardinality(hits) > 1 THEN hits ELSE {},
         Escalations |-> IF Cardinality(hits) > 1 THEN Escalations(p, hits) ELSE {}]

(* What ResolveLocator gives for a locator that parses.                      *)
ResolveLocator(report, p) == Resolve(p, SearchSymbolsFiltered(report, Leaf(p), p.path))

------------------------------------------------------------------------------

(* The symbols of a document in order, parents first: by name and line, else *)
(* by name and range, else by range.                                         *)
MatchDocSymbol(symbols, leaf, line) ==
    LET Named(i) == Last(symbols[i].name) = leaf
        Holds(i) == symbols[i].start <= line /\ line <= symbols[i].end
        First(Is(_)) == {i \in DOMAIN symbols : Is(i) /\ \A j \in 1..(i - 1) : ~Is(j)}
        exact == First(LAMBDA i : Named(i) /\ symbols[i].selection = line)
        named == First(LAMBDA i : Named(i) /\ Holds(i))
    IN  CASE exact # {} -> exact
          [] exact = {} /\ named # {} -> named
          [] OTHER -> First(Holds)

(* Show needs one hit with a place; documents: the symbols of each file that *)
(* a server answers for.  Without an answer an excerpt is shown.             *)
GetShow(report, p, documents) ==
    LET r == ResolveLocator(report, p)
        Shown(h) == MatchDocSymbol(documents[h.file], Last(h.name), h.line)
    IN  CASE r.Hit = {} -> [kind |-> "candidates", shown |-> r.Candidates]
          [] \E h \in r.Hit : h.file = NoPath \/ h.line = 0 -> [kind |-> "error", shown |-> {}]
          [] \E h \in r.Hit : h.file # NoPath /\ h.line > 0 /\ h.file \notin DOMAIN documents ->
               [kind |-> "excerpt", shown |-> r.Hit]
          [] OTHER -> [kind |-> "body", shown |-> UNION {Shown(h) : h \in r.Hit}]

==============================================================================
