----------------------------- MODULE PausedOutput -----------------------------
(***************************************************************************)
(* The session of Repl and whoever reads what it writes: standard output,  *)
(* standard error and the records.  A reader may pause for a while or for  *)
(* ever, as one end of a pipe that is full; a step that writes may then    *)
(* still succeed, for there may be room, but need not be taken.            *)
(***************************************************************************)
EXTENDS Repl

VARIABLE paused     \* a reader of what the process writes does not read

pausedVars == <<vars, paused>>

PausedInit == Init /\ paused = FALSE

OutputPauses == ~paused /\ paused' = TRUE /\ UNCHANGED vars
OutputResumes == paused /\ paused' = FALSE /\ UNCHANGED vars

PausedNext ==
    \/ Next /\ UNCHANGED paused
    \/ OutputPauses \/ OutputResumes

-----------------------------------------------------------------------------
\* Steps of the loop in which nothing is written.
SilentSteps == TopCancelled \/ InputEnds \/ BlankLine

\* The others: the prompt of StartRead, deltas, notices and records.  Once ctx
\* is done the HTTP stack returns, but not from within a write of a delta.
WritingSteps == StartRead \/ ReadSteps \/ (cancelled /\ AnyStreamReturn) \/ EndTurn

\* The goroutines of the process are scheduled, and a write ends if its readers
\* read again and again.  Nothing is assumed of the input, which may never
\* deliver, of a server while ctx is not done, nor of the readers.
Fairness ==
    /\ WF_pausedVars(Handler /\ UNCHANGED paused)
    /\ WF_pausedVars(SilentSteps /\ UNCHANGED paused)
    /\ SF_pausedVars(~paused /\ WritingSteps /\ UNCHANGED paused)

PausedSpec == PausedInit /\ [][PausedNext]_pausedVars /\ Fairness

-----------------------------------------------------------------------------
\* A signal ends the process wherever the loop is: waiting for a line that never
\* comes, in a stream that never ends, or between two steps; provided that what
\* the process writes is read again and again.
SignalEndsTheRun ==
    []<>(~paused) => ((firstSig # "") ~> (pc = "exited"))

=============================================================================
