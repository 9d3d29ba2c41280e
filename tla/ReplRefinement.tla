----------------------------- MODULE ReplRefinement -----------------------------
(***************************************************************************)
(* Repl implements BatchContract: the contract's turns are the pairs of    *)
(* the committed history, its file the records written, its exit status    *)
(* the process's.  Everything else in Repl is internal.                    *)
(***************************************************************************)
EXTENDS Repl

TurnsOf(hist) ==
    [i \in 1..(Len(hist) \div 2) |->
        [user |-> hist[2 * i - 1].content, reply |-> hist[2 * i].content]]

Contract == INSTANCE BatchContract WITH
    log <- records, turns <- TurnsOf(history), exit <- exitCode

\* Every step of the session loop is a step of the contract or invisible to
\* it: no commit without its record, no record of a line twice or out of
\* order, no failed or interrupted turn that changes the conversation, no
\* activity after the exit, no status the file does not justify.
ImplementsContract == Contract!Spec

=============================================================================
