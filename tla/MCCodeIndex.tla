---------------------------- MODULE MCCodeIndex ----------------------------
(* Values for checking CodeIndex with TLC: two chunks in one repository and *)
(* one in another, and texts over two tokens.                               *)
EXTENDS CodeIndex, TLC

CONSTANTS c1, c2, c3, r1, r2, ta, tb

SomeChunks == {c1, c2, c3}
SomeRepos  == c1 :> r1 @@ c2 :> r1 @@ c3 :> r2
TwoChunks  == {c1, c3}
TwoRepos   == c1 :> r1 @@ c3 :> r2
SomeTokens == {ta, tb}
SomeTexts  == {{ta}, {tb}, {ta, tb}}

IndexSymmetry == Permutations({ta, tb})
=============================================================================
