------------------------------ MODULE MCLspPool ------------------------------
(* LspPool for TLC: one or two workspaces of a language limited to one server  *)
(* and one of an unlimited language.                                         *)
EXTENDS LspPool, TLC

CONSTANTS c1, c2, g1, C, Go

MCLangOf3 == (c1 :> C @@ c2 :> C @@ g1 :> Go)
MCLangOf2 == (c1 :> C @@ g1 :> Go)
MCLimitOf == (C :> 1)
MCSymmetry == Permutations(Servers) \cup Permutations(Callers) \cup Permutations({c1, c2})

==============================================================================
