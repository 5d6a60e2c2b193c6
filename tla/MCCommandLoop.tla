---------------------------- MODULE MCCommandLoop ----------------------------
(* Model-checking instance of CommandLoop.                                 *)
EXTENDS CommandLoop

\* An output path and an output path that is also a menu word.
MCOutputPaths == {"out.json", "list"}
=============================================================================
