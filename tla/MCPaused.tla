------------------------------- MODULE MCPaused -------------------------------
(***************************************************************************)
(* PausedOutput with the values of MCRepl.                                 *)
(***************************************************************************)
EXTENDS MCRepl, PausedOutput

=============================================================================
