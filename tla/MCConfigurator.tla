--------------------------- MODULE MCConfigurator ---------------------------
(***************************************************************************)
(* Model values and small input domains for checking Configurator.  Each   *)
(* domain holds one representative of every class the code tells apart.   *)
(***************************************************************************)
EXTENDS Configurator

CONSTANTS a1, q1

\* Lists as split(',') gives them: the empty-string sentinel, valid
\* non-negative numbers, and a list with a negative entry.
MCNumLists == {None, <<"">>, <<"1", "3">>, <<"1", "-2">>}
MCNumListsValid == {None, <<"1", "3">>}
MCBuildIdLists == {None, <<"">>, <<"b1">>}

=============================================================================
