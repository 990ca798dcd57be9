--------------------------- MODULE MCGraphReports ---------------------------
EXTENDS CodeReports, HealthReports, ScanReports

Sym(pkg, receiver, file) == [pkg |-> pkg, receiver |-> receiver, file |-> file]

(* A component inside another, a method, and symbols of the root package.    *)
Nested == [symbol |-> <<Sym(<<"a">>, "", "x"), Sym(<<"a">>, "T", "x"),
                        Sym(<<"a", "b">>, "", "y"), Sym(<<"c">>, "", "z")>>,
           comps |-> <<<<"a">>, <<"a", "b">>, <<"c">>>>]
AtRoot == [symbol |-> <<Sym(<<"a", "d">>, "T", "x"), Sym(<<>>, "", "main"),
                        Sym(<<>>, "T", "util"), Sym(<<"e">>, "", "z")>>,
           comps |-> <<<<"a">>, <<"c">>>>]

MCLayouts == {Nested, AtRoot}

MCExported == {1, 2}

MCServices == [n \in Names |-> [churn |-> 2, nesting |-> n]]

(* Names that are read as one another, by their ids or in the end.           *)
MCTitles == {<<<<"a">>, <<"a", "/", "b">>, <<"a", "_", "b">>, <<"c", ".", "d">>>>,
             <<<<"a", "/", "b">>, <<"a", "-", "b">>, <<"c">>, <<"c", "/", "d">>>>}

(* Limits that are met, missed, absent, and of an unknown component.         *)
Limit(n, fanIn, churn) ==
    [component |-> n, max |-> [fanIn |-> fanIn, churn |-> churn, nesting |-> 0]]

MCDesiredStates ==
    [layers : {<<>>, <<1, 2, 3>>, <<3, 2, 3, 1>>},
     boundaries : SUBSET {[from |-> {1}, to |-> {2, 3}, allow |-> FALSE],
                          [from |-> {2}, to |-> Names, allow |-> TRUE]},
     constraints : SUBSET {Limit(1, 1, 0), Limit(2, 0, 1), Limit(9, 1, 1)}]

(* A function, in a file of its own or its package's.                        *)
Func(pkg, name, file, kind) ==
    [pkg |-> pkg, name |-> name, file |-> file, kind |-> kind, exported |-> kind # ""]
Word(w) == <<<<w>>>>
Method(t, w) == <<<<t>>, <<w>>>>

(* One name in three packages, of which two have one base name; a method.    *)
Namesakes ==
    [symbol |-> <<Func(<<"a">>, Word("run"), <<"a", "f">>, "function"),
                  Func(<<"b">>, Word("run"), <<"b", "f">>, "function"),
                  Func(<<"x", "b">>, Word("run"), <<"x", "b", "f">>, "function"),
                  Func(<<"c">>, Method("T", "do"), <<"c", "f">>, "method")>>,
     types |-> <<Func(<<"c">>, Word("T"), <<"c", "f">>, "struct"),
                 Func(<<"c">>, Method("T", "do"), <<"c", "f">>, "method")>>,
     gives |-> [n \in Names |-> {"t"}], takes |-> [n \in Names |-> {"t"}]]

(* A type that is called as a constructor, and functions of the root.        *)
Constructor ==
    [symbol |-> <<Func(<<"a">>, Method("T", "do"), <<"a", "f">>, "method"),
                  Func(<<"a">>, Word("T"), <<"a", "f">>, ""),
                  Func(<<>>, Word("run"), <<"f">>, "function"),
                  Func(<<"d">>, Word("run"), <<"d", "f">>, "function")>>,
     types |-> <<Func(<<"a">>, Word("T"), <<"a", "f">>, "struct"),
                 Func(<<"a">>, Method("T", "do"), <<"a", "f">>, "method"),
                 Func(<<"d">>, Word("U"), <<"d", "f">>, "struct")>>,
     gives |-> <<{"t", "error"}, {"u"}, {"error"}, {"t"}>>,
     takes |-> <<{"u"}, {"t", "u"}, {"t", "error"}, {"error"}>>]

MCCodes == {Namesakes, Constructor}

(* A component, and what is used of it.                                      *)
Service(main, counts, churn, coverage) ==
    [main |-> main, symbols |-> counts[1], interfaces |-> counts[2], types |-> counts[3],
     classes |-> counts[4], classInterfaces |-> counts[5], loc |-> counts[6],
     churn |-> churn, coverage |-> coverage]
Class(name, kind, methods) == [name |-> name, kind |-> kind, methods |-> methods]
Uses(n) == [weight |-> n, callSites |-> IF n = 1 THEN 2 ELSE 0, locSurface |-> n - 1]

(* Rich and poor types, mostly interfaces, a library outside.                *)
Library ==
    [services |-> <<Service(FALSE, <<2, 0, 0, 0, 0, 2>>, 1, 50),
                    Service(FALSE, <<2, 0, 2, 2, 0, 2>>, 2, 50),
                    Service(FALSE, <<2, 1, 1, 3, 2, 1>>, 0, Unknown),
                    Service(FALSE, <<0, 0, 0, 0, 0, 0>>, 0, Unknown)>>,
     outside |-> {4}, served |-> {4}, domainOf |-> <<1, 2, 2, 4>>,
     uses |-> [e \in Names \X Names |-> Uses(e[1] - 1)],
     classes |-> <<Class(8, "interface", 2), Class(9, "struct", 2), Class(8, "interface", 1)>>]

(* A program: its main, and components that are all alike.                   *)
Program ==
    [services |-> <<Service(TRUE, <<1, 0, 0, 0, 0, 2>>, 0, 100)>>
                    \o [n \in 1..3 |-> Service(FALSE, <<2, 0, 1, 1, 0, 2>>, n, Unknown)],
     outside |-> {}, served |-> {2, 3}, domainOf |-> <<1, 2, 3, 3>>,
     uses |-> [e \in Names \X Names |-> Uses(0)],
     classes |-> <<Class(8, "interface", 1), Class(9, "interface", 2)>>]

MCProjects == {Library, Program}

File(dir, stem) == [dir |-> dir, stem |-> stem, test |-> FALSE]

(* A file of the root with the name of a directory, and indexes.             *)
Indexes ==
    <<File(<<>>, "lib"), File(<<"lib">>, "index"), File(<<"src">>, "main"),
      File(<<"src", "a">>, "index")>>
(* Packages of one base name, one of them inside another; an external test.  *)
Alike ==
    <<File(<<"a", "b">>, "index"), File(<<"a">>, "x"), File(<<"b">>, "index"),
      [dir |-> <<"x", "b">>, stem |-> "y", test |-> TRUE]>>
(* Modules of a crate, in a file or a directory of their own.                *)
Modules ==
    <<File(<<"src", "a">>, "b"), File(<<"src">>, "a"), File(<<"src", "a", "c">>, "mod"),
      File(<<"src">>, "lib")>>
Directories ==
    <<File(<<"src", "a">>, "mod"), File(<<"src", "a", "c">>, "mod"), File(<<"src">>, "lib"),
      File(<<"src", "d">>, "e")>>

MCTrees == {Indexes, Alike, Modules, Directories}

(* A crate with the name of the directory of another.                        *)
MCCrates == <<[dir |-> <<"crates", "one">>, name |-> "one"], [dir |-> <<"crates", "two">>, name |-> "core"],
              [dir |-> <<"crates", "core">>, name |-> "three"], [dir |-> <<"four">>, name |-> "four"]>>
==============================================================================
