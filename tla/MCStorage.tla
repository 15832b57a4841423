------------------------------- MODULE MCStorage -------------------------------
EXTENDS Storage, TLC

MCPaths == {<< >>, <<"a">>, <<"a", "b">>, <<"a", "b", "c">>, <<"a", "c">>, <<"d">>}

Symmetry == Permutations(Tasks)
=============================================================================
