----------------------------- MODULE BatchContract -----------------------------
(***************************************************************************)
(* What a run promises to whoever reads its result file and exit status,   *)
(* and nothing of how it does it: no reader, no stream, no goroutines.  A  *)
(* run handles lines one at a time; each leaves one record, changes the    *)
(* turns the model will be shown the way that record says, and may end the *)
(* run with the status that the file and the last line justify.  Repl is   *)
(* shown to implement this (SessionProofs).                                *)
(***************************************************************************)
EXTENDS Integers, Sequences

CONSTANTS
    UserTexts, Replies,     \* contents of user lines and of replies
    NoText                  \* an absent field

Running == -1

Record == [line : Nat, kind : {"turn", "clear", "quit", "command_error"},
           status : {"", "ok", "error", "interrupted"}, sent : BOOLEAN,
           input : UserTexts \cup {NoText}, output : Replies \cup {NoText},
           trimmed : Nat]

VARIABLES
    log,        \* the records of the result file
    turns,      \* the completed turns still in the conversation, oldest first
    exit        \* Running, or the exit status

contractVars == <<log, turns, exit>>

Init == log = <<>> /\ turns = <<>> /\ exit = Running

LastLine == IF log = <<>> THEN 0 ELSE log[Len(log)].line

\* The end of the input turns earlier failures into status 1.
Failures == {j \in 1..Len(log) : log[j].status = "error" \/ log[j].kind = "command_error"}
AtEnd == IF Failures = {} THEN 0 ELSE 1

-----------------------------------------------------------------------------
\* The step adds one record to the file: of this kind and status, of a line
\* later than any before it.
NewRecord == log'[Len(log')]

Logs(kind, status) ==
    /\ log' # <<>> /\ NewRecord \in Record
    /\ log' = Append(log, NewRecord)
    /\ NewRecord.line > LastLine
    /\ NewRecord.kind = kind /\ NewRecord.status = status

\* The completed turn joins those the record says were kept.
TurnCompletes ==
    /\ Logs("turn", "ok")
    /\ NewRecord.output # NoText
    /\ NewRecord.trimmed <= Len(turns)
    /\ turns' = Append(SubSeq(turns, NewRecord.trimmed + 1, Len(turns)),
                       [user |-> NewRecord.input, reply |-> NewRecord.output])
    /\ exit' \in {Running, AtEnd}

\* A failed line changes nothing but the file, and fails the run at its end.
LineFails ==
    /\ Logs("turn", "error") \/ Logs("command_error", "")
    /\ exit' \in {Running, 1}
    /\ UNCHANGED turns

Clears ==
    /\ Logs("clear", "")
    /\ turns' = <<>>
    /\ exit' \in {Running, AtEnd}

Quits ==
    /\ Logs("quit", "")
    /\ exit' = 0
    /\ UNCHANGED turns

\* A signal ends the run, with a record for the turn it caught if it can.
Interrupted ==
    /\ Logs("turn", "interrupted") \/ UNCHANGED log
    /\ exit' \in {130, 143}
    /\ UNCHANGED turns

\* A record that cannot be written ends the run; what the conversation would
\* have become no longer matters.
WriteLost ==
    /\ exit' = 1
    /\ UNCHANGED log

InputEnds ==
    /\ exit' = AtEnd
    /\ UNCHANGED <<log, turns>>

InputUnreadable ==
    /\ exit' = 1
    /\ UNCHANGED <<log, turns>>

\* A blank line, and a turn still under way, show up as nothing at all.
Next ==
    /\ exit = Running
    /\ \/ TurnCompletes \/ LineFails \/ Clears \/ Quits
       \/ Interrupted \/ WriteLost \/ InputEnds \/ InputUnreadable

Spec == Init /\ [][Next]_contractVars

=============================================================================
