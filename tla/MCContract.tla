------------------------------ MODULE MCContract ------------------------------
(***************************************************************************)
(* Whole sessions of Repl against BatchContract, with the values of MCRepl.*)
(***************************************************************************)
EXTENDS MCRepl, ReplRefinement

=============================================================================
