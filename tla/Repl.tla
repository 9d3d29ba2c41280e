--------------------------------- MODULE Repl ---------------------------------
(***************************************************************************)
(* The session loop of src/internal/repl/repl.go with the goroutines       *)
(* around it: the one that reads a line (input.go) and the one main starts *)
(* to turn the first signal into a cancelled context (main.go, signal.go). *)
(* It drives Conversation, writes one JSONL record per handled line        *)
(* (jsonl.go), and calls the client, of which only the contract of         *)
(* StreamResult is kept: it returns once, with a reply or an error.        *)
(***************************************************************************)
EXTENDS Conversation

CONSTANTS
    NoText,         \* an absent input or output field
    NoItem,         \* the empty mailbox of ReadLine
    MaxLines,       \* bound: physical lines the input holds
    MaxSignals      \* bound: signals sent to the process

ASSUME BoundsAssumption == MaxLines \in Nat /\ MaxSignals \in Nat

\* Mutant: blank lines are not counted.
NonblankKinds == {"message", "clear", "quit", "unknown", "long"}

\* What the REPL makes of one physical line.
LineKinds == {"blank", "message", "clear", "quit", "unknown", "long"}

\* What readBoundedLine can return: a line, ended by a newline or by the end of
\* the input, the end alone, or a read error.  The tail of a line that is too
\* long is skipped, its end of input included, so "long" never carries eof.
Items ==
    [kind : {"message"}, text : UserTexts, eof : BOOLEAN]
    \cup [kind : {"blank", "clear", "quit", "unknown"}, text : {NoText}, eof : BOOLEAN]
    \cup [kind : {"long"}, text : {NoText}, eof : {FALSE}]
Ends ==
    [kind : {"end"}, text : {NoText}, eof : {TRUE}]
    \cup [kind : {"readError"}, text : {NoText}, eof : {FALSE}]

ASSUME NoItemAssumption == NoItem \notin Items \cup Ends

Signals == {"INT", "TERM"}

Record == [line : Nat, kind : {"turn", "clear", "quit", "command_error"},
           status : {"", "ok", "error", "interrupted"}, sent : BOOLEAN,
           input : UserTexts \cup {NoText}, output : Replies \cup {NoText},
           trimmed : Nat]

Result == [outcome : {"ok", "failed", "canceled", "none"},
           text : Replies \cup {NoText}, sent : BOOLEAN]
NoResult == [outcome |-> "none", text |-> NoText, sent |-> FALSE]

ExitOK == 0
ExitError == 1
ExitInterrupt == 130
ExitTerminated == 143
Running == -1

VARIABLES
    pc,             \* where the loop is
    cur,            \* the item being handled
    lineNo,         \* inputReader.line
    failedTurn,
    result,         \* what StreamResult returned
    exitCode,       \* Running, or the status os.Exit was given
    mailbox,        \* the one-slot channel of ReadLine
    records,        \* complete JSONL records written
    writeFailed,    \* a record write failed, perhaps leaving a torn line
    sigs,           \* the one-slot signal channel: "" or a signal
    handler,        \* the signal goroutine: "waiting", "got", "stored", "done"
    held,           \* the signal it received
    cause,          \* InterruptCause
    cancelled,      \* ctx is done
    \* History variables, read by properties only.
    script,         \* every item the input delivered
    requests,       \* every request handed to StreamResult
    firstSig,       \* the first signal sent to the process
    nsig            \* number of signals sent

sessionVars == <<pc, cur, lineNo, failedTurn, result, exitCode>>
recordVars == <<records, writeFailed>>
signalVars == <<sigs, handler, held, cause, cancelled, firstSig, nsig>>
vars == <<convVars, sessionVars, mailbox, recordVars, signalVars, script, requests>>

-----------------------------------------------------------------------------
\* interruptExit: the cause stored by the signal goroutine picks the code.
interruptExit == IF cause = "TERM" THEN ExitTerminated ELSE ExitInterrupt

\* Mutants: a failure is forgotten, or reported with the status of bad usage.
EofExitOK(failed) == ExitOK
EofExitUsage(failed) == IF failed THEN 2 ELSE ExitOK

\* The exit status at the end of the input.
EofExit(failed) == IF failed THEN ExitError ELSE ExitOK

Exit(code) == pc' = "exited" /\ exitCode' = code

\* The loop is left with a status, or goes round.
ExitOrLoop(leave, code) ==
    /\ pc' = IF leave THEN "exited" ELSE "top"
    /\ exitCode' = IF leave THEN code ELSE Running

\* Mutant: a write that failed counts as a record.
EmitTorn(rec, ok) == records' = Append(records, rec) /\ writeFailed' = ~ok

\* WriteRecord encodes the record and writes it once; ok is whether the write
\* took all of it.
Emit(rec, ok) ==
    /\ records' = IF ok THEN Append(records, rec) ELSE records
    /\ writeFailed' = ~ok

Rec(line, kind, status) ==
    [line |-> line, kind |-> kind, status |-> status, sent |-> FALSE,
     input |-> NoText, output |-> NoText, trimmed |-> 0]

abortIfStaged == IF staged # NoTurn THEN Abort ELSE UNCHANGED convVars

-----------------------------------------------------------------------------
Init ==
    /\ ConvInit
    /\ pc = "top" /\ cur = NoItem /\ lineNo = 0
    /\ failedTurn = FALSE /\ result = NoResult /\ exitCode = Running
    /\ mailbox = NoItem
    /\ records = <<>> /\ writeFailed = FALSE
    /\ sigs = "" /\ handler = "waiting" /\ held = "" /\ cause = ""
    /\ cancelled = FALSE
    /\ script = <<>> /\ requests = <<>> /\ firstSig = "" /\ nsig = 0

(* The loop up to the line.                                                *)

\* The check of ctx at the top of the loop.
TopCancelled ==
    /\ pc = "top" /\ cancelled
    /\ abortIfStaged
    /\ Exit(interruptExit)
    /\ UNCHANGED <<cur, lineNo, failedTurn, result, mailbox, recordVars, signalVars,
                   script, requests>>

\* ReadLine starts its goroutine and waits.
StartRead ==
    /\ pc = "top" /\ ~cancelled
    /\ pc' = "read"
    /\ UNCHANGED <<convVars, cur, lineNo, failedTurn, result, exitCode, mailbox,
                   recordVars, signalVars, script, requests>>

\* The goroutine of ReadLine delivers what readBoundedLine returned.
DeliverLine ==
    /\ pc = "read" /\ mailbox = NoItem
    /\ \E item \in Ends \cup (IF Len(script) < MaxLines THEN Items ELSE {}) :
          /\ mailbox' = item
          /\ script' = Append(script, item)
    /\ UNCHANGED <<convVars, sessionVars, recordVars, signalVars, requests>>

\* Mutant: ReadLine waits for the line alone.
NeverInterrupted == FALSE

\* The select of ReadLine took ctx.Done: whatever the goroutine read is lost.
ReadInterrupted ==
    /\ pc = "read" /\ cancelled
    /\ abortIfStaged
    /\ Exit(interruptExit)
    /\ UNCHANGED <<cur, lineNo, failedTurn, result, mailbox, recordVars, signalVars,
                   script, requests>>

\* The select of ReadLine took the line.  Ends are not counted as lines.
Receive(kind) ==
    /\ pc = "read" /\ mailbox # NoItem /\ mailbox.kind = kind
    /\ mailbox' = NoItem
    /\ cur' = mailbox
    /\ lineNo' = IF kind \in LineKinds THEN lineNo + 1 ELSE lineNo
    /\ UNCHANGED <<signalVars, script>>

-----------------------------------------------------------------------------
(* Lines that end without a request.                                       *)

InputEnds ==
    /\ Receive("end")
    /\ Exit(EofExit(failedTurn))
    /\ UNCHANGED <<convVars, failedTurn, result, recordVars, requests>>

InputBreaks ==
    /\ Receive("readError")
    /\ Exit(ExitError)
    /\ UNCHANGED <<convVars, failedTurn, result, recordVars, requests>>

BlankLine ==
    /\ Receive("blank")
    /\ ExitOrLoop(mailbox.eof, EofExit(failedTurn))
    /\ UNCHANGED <<convVars, failedTurn, result, recordVars, requests>>

LineTooLong ==
    /\ Receive("long")
    /\ failedTurn' = TRUE
    /\ \E ok \in BOOLEAN :
          /\ Emit(Rec(lineNo', "turn", "error"), ok)
          /\ ExitOrLoop(~ok, ExitError)
    /\ UNCHANGED <<convVars, result, requests>>

Quit ==
    /\ Receive("quit")
    /\ \E ok \in BOOLEAN :
          /\ Emit(Rec(lineNo', "quit", ""), ok)
          /\ Exit(IF ok THEN ExitOK ELSE ExitError)
    /\ UNCHANGED <<convVars, failedTurn, result, requests>>

ClearCommand ==
    /\ Receive("clear")
    /\ Clear
    /\ \E ok \in BOOLEAN :
          /\ Emit(Rec(lineNo', "clear", ""), ok)
          /\ ExitOrLoop(~ok \/ mailbox.eof,
                        IF ok THEN EofExit(failedTurn) ELSE ExitError)
    /\ UNCHANGED <<failedTurn, result, requests>>

UnknownCommand ==
    /\ Receive("unknown")
    /\ failedTurn' = TRUE
    /\ \E ok \in BOOLEAN :
          /\ Emit(Rec(lineNo', "command_error", ""), ok)
          /\ ExitOrLoop(~ok \/ mailbox.eof, ExitError)
    /\ UNCHANGED <<convVars, result, requests>>

\* Stage refused the message: an error record, no request.
StageRefused ==
    /\ Receive("message")
    /\ StageFails(mailbox.text) \/ StageAgain(mailbox.text)
    /\ failedTurn' = TRUE
    /\ \E ok \in BOOLEAN :
          /\ Emit([Rec(lineNo', "turn", "error") EXCEPT !.input = mailbox.text], ok)
          /\ ExitOrLoop(~ok \/ mailbox.eof, ExitError)
    /\ UNCHANGED <<result, requests>>

-----------------------------------------------------------------------------
(* A turn that reaches the client.                                         *)

\* Stage returned a request; StreamResult is called with it.
StartTurn ==
    /\ Receive("message")
    /\ StageFits(mailbox.text)
    /\ pc' = "streaming"
    /\ requests' = Append(requests,
                       [line |-> lineNo', late |-> cancelled,
                        messages |-> prefix(staged'.history, staged'.user)])
    /\ UNCHANGED <<failedTurn, result, exitCode, recordVars>>

\* StreamResult returns.  It reports ctx's error only when ctx is done, and a
\* request started after that is refused before it is written.
StreamReturns(outcome, text, sent) ==
    /\ pc = "streaming"
    /\ outcome = "canceled" => cancelled
    /\ requests[Len(requests)].late => outcome = "canceled" /\ ~sent
    /\ (outcome = "ok") = (text # NoText)
    /\ result' = [outcome |-> outcome, text |-> text, sent |-> sent]
    /\ pc' = "returned"
    /\ UNCHANGED <<convVars, cur, lineNo, failedTurn, exitCode, mailbox, recordVars,
                   signalVars, script, requests>>

TurnOver == UNCHANGED <<cur, lineNo, result, mailbox, signalVars, script, requests>>

TurnRec(status) ==
    [Rec(lineNo, "turn", status) EXCEPT !.input = cur.text, !.sent = result.sent]

\* Mutant: the record of a completed turn does not tell what was trimmed.
UntrimmedRec == [TurnRec("ok") EXCEPT !.sent = FALSE, !.output = result.text]

CompletedRec ==
    [TurnRec("ok") EXCEPT !.sent = FALSE, !.output = result.text, !.trimmed = staged.trimmed]

\* The stream completed: commit the reply, then record it.
TurnSucceeds ==
    /\ pc = "returned" /\ result.outcome = "ok"
    /\ CommitStaged(result.text)
    /\ \E ok \in BOOLEAN :
          /\ Emit(CompletedRec, ok)
          /\ ExitOrLoop(~ok \/ cur.eof, IF ok THEN EofExit(failedTurn) ELSE ExitError)
    /\ UNCHANGED failedTurn
    /\ TurnOver

\* The stream failed while ctx was, or has since been, cancelled.
TurnInterrupted ==
    /\ pc = "returned" /\ result.outcome # "ok"
    /\ result.outcome = "canceled" \/ cancelled
    /\ Abort
    /\ \E ok \in BOOLEAN : Emit(TurnRec("interrupted"), ok)
    /\ Exit(interruptExit)
    /\ UNCHANGED failedTurn
    /\ TurnOver

\* Mutants: a failed request is sent again; a cancelled one is a failed one.
TurnRetries ==
    /\ pc = "returned" /\ result.outcome = "failed" /\ ~cancelled
    /\ pc' = "streaming"
    /\ requests' = Append(requests, requests[Len(requests)])
    /\ UNCHANGED <<convVars, cur, lineNo, failedTurn, result, exitCode, mailbox,
                   recordVars, signalVars, script>>
TurnFailsAnyhow ==
    /\ pc = "returned" /\ result.outcome # "ok"
    /\ Abort
    /\ failedTurn' = TRUE
    /\ \E ok \in BOOLEAN :
          /\ Emit(TurnRec("error"), ok)
          /\ ExitOrLoop(~ok \/ cur.eof, ExitError)
    /\ TurnOver

TurnFails ==
    /\ pc = "returned" /\ result.outcome = "failed" /\ ~cancelled
    /\ Abort
    /\ failedTurn' = TRUE
    /\ \E ok \in BOOLEAN :
          /\ Emit(TurnRec("error"), ok)
          /\ ExitOrLoop(~ok \/ cur.eof, ExitError)
    /\ TurnOver

-----------------------------------------------------------------------------
(* Signals.  Once the process has exited nothing of it runs.               *)

loopVars == <<convVars, sessionVars, mailbox, recordVars, script, requests>>

\* A signal arrives: signal.Notify drops it when the channel is full.
SignalArrives(sig) ==
    /\ pc # "exited" /\ nsig < MaxSignals
    /\ nsig' = nsig + 1
    /\ sigs' = IF sigs = "" THEN sig ELSE sigs
    /\ firstSig' = IF firstSig = "" THEN sig ELSE firstSig
    /\ UNCHANGED <<handler, held, cause, cancelled, loopVars>>

\* Mutant: ctx is cancelled before the cause is stored.
HandlerCancelsFirst ==
    /\ pc # "exited" /\ handler = "waiting" /\ sigs # ""
    /\ held' = sigs /\ sigs' = ""
    /\ handler' = "got"
    /\ cancelled' = TRUE
    /\ UNCHANGED <<cause, firstSig, nsig, loopVars>>

HandlerReceives ==
    /\ pc # "exited" /\ handler = "waiting" /\ sigs # ""
    /\ held' = sigs /\ sigs' = ""
    /\ handler' = "got"
    /\ UNCHANGED <<cause, cancelled, firstSig, nsig, loopVars>>

HandlerStores ==
    /\ pc # "exited" /\ handler = "got"
    /\ cause' = held
    /\ handler' = "stored"
    /\ UNCHANGED <<sigs, held, cancelled, firstSig, nsig, loopVars>>

HandlerCancels ==
    /\ pc # "exited" /\ handler = "stored"
    /\ cancelled' = TRUE
    /\ handler' = "done"
    /\ UNCHANGED <<sigs, held, cause, firstSig, nsig, loopVars>>

Exited == pc = "exited" /\ UNCHANGED vars

-----------------------------------------------------------------------------
ReadSteps ==
    \/ ReadInterrupted
    \/ InputEnds \/ InputBreaks \/ BlankLine \/ LineTooLong
    \/ Quit \/ ClearCommand \/ UnknownCommand
    \/ StageRefused \/ StartTurn

EndTurn == TurnSucceeds \/ TurnInterrupted \/ TurnFails

AnyStreamReturn ==
    \E outcome \in {"ok", "failed", "canceled"}, text \in Replies \cup {NoText},
       sent \in BOOLEAN : StreamReturns(outcome, text, sent)

Handler == HandlerReceives \/ HandlerStores \/ HandlerCancels

Next ==
    \/ TopCancelled \/ StartRead \/ DeliverLine
    \/ ReadSteps
    \/ AnyStreamReturn
    \/ EndTurn
    \/ \E sig \in Signals : SignalArrives(sig)
    \/ Handler
    \/ Exited

Spec == Init /\ [][Next]_vars
-----------------------------------------------------------------------------
TypeOK ==
    /\ ConvTypeOK
    /\ pc \in {"top", "read", "streaming", "returned", "exited"}
    /\ cur \in Items \cup Ends \cup {NoItem}
    /\ lineNo \in Nat
    /\ failedTurn \in BOOLEAN
    /\ result \in Result
    /\ exitCode \in {Running, ExitOK, ExitError, ExitInterrupt, ExitTerminated}
    /\ mailbox \in Items \cup Ends \cup {NoItem}
    /\ records \in Seq(Record)
    /\ writeFailed \in BOOLEAN
    /\ sigs \in Signals \cup {""}
    /\ handler \in {"waiting", "got", "stored", "done"}
    /\ held \in Signals \cup {""}
    /\ cause \in Signals \cup {""}
    /\ cancelled \in BOOLEAN
    /\ script \in Seq(Items \cup Ends)
    /\ requests \in Seq([line : Nat, late : BOOLEAN, messages : Seq(Message)])
    /\ firstSig \in Signals \cup {""}
    /\ nsig \in Nat

InFlight == pc \in {"streaming", "returned"}

\* A turn is staged exactly while a request is in flight.  So the loop never
\* meets "a turn is already staged" or "no staged turn to commit", and the
\* aborts at repl.go:61 and :72 have nothing to abort.
StagedIffInFlight == (staged # NoTurn) <=> InFlight

\* Replaying JSONL records: the conversation they say the model was shown.
ReplayOne(hist, r) ==
    IF r.kind = "clear" THEN <<>>
    ELSE IF r.status = "ok"
         THEN DropPairs(hist, r.trimmed) \o <<User(r.input), Assistant(r.output)>>
    ELSE hist

Replay(recs) ==
    LET shown[n \in 0..Len(recs)] ==
            IF n = 0 THEN <<>> ELSE ReplayOne(shown[n - 1], recs[n])
    IN shown[Len(recs)]

\* The result file is a complete account of the session: replaying its records
\* gives the conversation in memory, until a write fails.  A commit, a clear or
\* a trim without its record, or the reverse, breaks it, and so does a failed
\* or interrupted turn that leaves anything behind.
RecordsReplayToHistory == ~writeFailed => Replay(records) = history

\* A line makes at most one request, in order, and only a message line does; a
\* turn record that says "sent", or completed, has its request.
NoRetry ==
    /\ \A i \in 1..Len(requests) :
          /\ script[requests[i].line].kind = "message"
          /\ \A j \in 1..(i - 1) : requests[j].line < requests[i].line
    /\ \A j \in 1..Len(records) :
          records[j].sent \/ records[j].status \in {"ok", "interrupted"} =>
              \E i \in 1..Len(requests) : requests[i].line = records[j].line

\* The first m records are those of the lines before that of request q.
EarlierRecords(q, m) == \A j \in 1..Len(records) : j <= m <=> records[j].line < q.line

\* Request q, made after a conversation, dropped its k oldest turns.
ExplainedBy(q, before, k) ==
    /\ q.messages = prefix(DropPairs(before, k), User(script[q.line].text))
    /\ Fits(q.messages) = "fits"
    /\ \A j \in 1..Len(records) :
          records[j].line = q.line /\ records[j].status = "ok" => records[j].trimmed = k

\* No request is made twice, and each is the system prompt, the newest turns
\* of the conversation its preceding records replay to, and the line itself;
\* when its own record is there, with as many turns dropped as that record
\* says.  Nothing of a failed, interrupted or cleared turn is ever sent.
RequestsExplainedByRecords ==
    /\ NoRetry
    /\ \A i \in 1..Len(requests) : \E m \in 0..Len(records) :
          LET before == Replay(SubSeq(records, 1, m))
          IN  /\ EarlierRecords(requests[i], m)
              /\ \E k \in 0..(Len(before) \div 2) : ExplainedBy(requests[i], before, k)

\* Lines the loop is done with.
LinesDone == IF InFlight \/ writeFailed THEN lineNo - 1 ELSE lineNo

RecordKindOf(item) ==
    CASE item.kind \in {"message", "long"} -> "turn"
      [] item.kind = "unknown" -> "command_error"
      [] OTHER -> item.kind

\* One record per nonblank line the loop is done with, in input order, with
\* the physical line number, whatever mix of commands, rejected lines, failed
\* and completed turns came before; none for a line read but not handled, nor
\* for one whose write failed (batch.md, JSONL v1).
OneRecordPerLine ==
    /\ {records[j].line : j \in 1..Len(records)} =
           {i \in 1..LinesDone : script[i].kind # "blank"}
    /\ \A j \in 1..Len(records) :
          /\ \A k \in 1..(j - 1) : records[k].line < records[j].line
          /\ records[j].kind = RecordKindOf(script[records[j].line])
          /\ records[j].input = script[records[j].line].text

HasFailure ==
    \E j \in 1..Len(records) :
        records[j].status = "error" \/ records[j].kind = "command_error"

LastItem == script[Len(script)]

\* What the exit status says of the run (cli.md, Exit codes; batch.md, Output).
ExitCodeMeaning ==
    /\ exitCode = ExitOK =>
          /\ ~writeFailed
          /\ LastItem.kind = "quit" \/ (LastItem.eof /\ ~HasFailure)
    /\ exitCode = ExitError =>
          \/ writeFailed
          \/ LastItem.kind = "readError"
          \/ LastItem.eof /\ HasFailure
    /\ writeFailed => exitCode \in {ExitError, ExitInterrupt, ExitTerminated}
    /\ pc = "exited" <=> exitCode # Running

\* A run that was stopped by a signal says by which: the first one that
\* reached the process, however many followed and whenever they came.
FirstSignalDecides ==
    exitCode \in {ExitInterrupt, ExitTerminated} =>
        /\ firstSig # ""
        /\ exitCode = IF firstSig = "TERM" THEN ExitTerminated ELSE ExitInterrupt

\* An interrupted turn ends the run: its record is the last one, no request
\* follows it, the status is a signal's.  At most one request is started once
\* ctx is done, and nothing but such a record can come of it.
InterruptEndsTheRun ==
    /\ \A j \in 1..Len(records) :
          records[j].status = "interrupted" =>
              /\ j = Len(records)
              /\ exitCode \in {ExitInterrupt, ExitTerminated}
              /\ requests[Len(requests)].line = records[j].line
    /\ \A i \in 1..Len(requests) :
          requests[i].late =>
              /\ i = Len(requests)
              /\ \A j \in 1..Len(records) :
                    records[j].line = requests[i].line =>
                        records[j].status = "interrupted" /\ ~records[j].sent

=============================================================================
