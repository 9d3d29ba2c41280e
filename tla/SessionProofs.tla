----------------------------- MODULE SessionProofs -----------------------------
(***************************************************************************)
(* Proofs about the account a session leaves, for any input, server and    *)
(* signals: one record per line, no retry, an interrupted turn is the      *)
(* last thing a run does, what the exit status means, that the records     *)
(* replay to the conversation and explain every request, and that every    *)
(* session is a run of BatchContract.                                      *)
(***************************************************************************)
EXTENDS ReplProofs, ReplRefinement

-----------------------------------------------------------------------------
(* The steps of the loop, by what they do to the account.                  *)

\* Nothing is read, written or asked for; the run may be stopped by a signal.
Pauses ==
    /\ UNCHANGED <<history, script, requests, recordVars, lineNo, failedTurn, mailbox, cur,
                   result>>
    /\ \/ pc' = pc /\ exitCode' = exitCode
       \/ pc = "top" /\ pc' = "read" /\ exitCode' = exitCode
       \/ pc \in {"top", "read"} /\ pc' = "exited" /\ exitCode' \in {ExitInterrupt, ExitTerminated}

Delivers ==
    /\ pc = "read" /\ mailbox = NoItem
    /\ \E item \in Items \cup Ends : mailbox' = item /\ script' = Append(script, item)
    /\ UNCHANGED <<history, requests, recordVars, lineNo, failedTurn, cur, result, pc, exitCode>>

\* A received item, handled in one step.
Handles ==
    /\ pc = "read" /\ mailbox \in Items \cup Ends /\ mailbox # NoItem
    /\ mailbox' = NoItem /\ cur' = mailbox
    /\ pc' \in {"top", "exited"}
    /\ UNCHANGED <<script, requests, result>>

Finishes ==
    /\ Handles
    /\ mailbox \in Ends /\ lineNo' = lineNo
    /\ pc' = "exited"
    /\ exitCode' = IF mailbox.kind = "readError" THEN ExitError ELSE EofExit(failedTurn)
    /\ UNCHANGED <<history, recordVars, failedTurn>>

Skips ==
    /\ Handles
    /\ mailbox.kind = "blank" /\ lineNo' = lineNo + 1
    /\ ExitOrLoop(mailbox.eof, EofExit(failedTurn))
    /\ UNCHANGED <<history, recordVars, failedTurn>>

Fails(rec) == rec.status = "error" \/ rec.kind = "command_error"

\* A line that leaves a record and makes no request.
Records(rec, ok) ==
    /\ Handles
    /\ mailbox.kind \in LineKinds \ {"blank"} /\ lineNo' = lineNo + 1
    /\ Emit(rec, ok)
    /\ rec.line = lineNo' /\ rec.kind = RecordKindOf(mailbox) /\ rec.input = mailbox.text
    /\ rec.status = (IF rec.kind = "turn" THEN "error" ELSE "") /\ ~rec.sent
    /\ history' = IF rec.kind = "clear" THEN <<>> ELSE history
    /\ failedTurn' = (failedTurn \/ Fails(rec))
    /\ ExitOrLoop(~ok \/ mailbox.eof \/ mailbox.kind = "quit",
                  IF ~ok THEN ExitError
                  ELSE IF mailbox.kind = "quit" THEN ExitOK ELSE EofExit(failedTurn'))

\* A line that makes a request.
Asks ==
    /\ pc = "read" /\ mailbox \in Items /\ mailbox # NoItem /\ mailbox.kind = "message"
    /\ mailbox' = NoItem /\ cur' = mailbox /\ lineNo' = lineNo + 1
    /\ pc' = "streaming"
    /\ StageFits(mailbox.text)
    /\ prefix(staged'.history, staged'.user) \in Seq(Message)
    /\ requests' = Append(requests,
                       [line |-> lineNo', late |-> cancelled,
                        messages |-> prefix(staged'.history, staged'.user)])
    /\ UNCHANGED <<history, script, recordVars, failedTurn, result, exitCode>>

Answers ==
    /\ pc = "streaming" /\ pc' = "returned"
    /\ requests[Len(requests)].late => result'.outcome = "canceled" /\ ~result'.sent
    /\ result'.outcome = "ok" => result'.text # NoText
    /\ UNCHANGED <<history, script, requests, recordVars, lineNo, failedTurn, mailbox, cur, exitCode>>

\* The end of a turn, with its record.
Concludes(rec, ok) ==
    /\ pc = "returned"
    /\ Emit(rec, ok)
    /\ rec.line = lineNo /\ rec.kind = "turn" /\ rec.input = cur.text
    /\ rec.sent => result.sent
    /\ UNCHANGED <<script, requests, lineNo, mailbox, cur, result>>
    /\ IF rec.status = "ok"
       THEN /\ rec.output = result.text /\ rec.trimmed = staged.trimmed
            /\ result.outcome = "ok" /\ CommitStaged(result.text)
       ELSE history' = history
    /\ \/ /\ rec.status = "interrupted" /\ failedTurn' = failedTurn
          /\ pc' = "exited" /\ exitCode' \in {ExitInterrupt, ExitTerminated}
       \/ /\ rec.status \in {"ok", "error"} /\ result.outcome # "canceled"
          /\ failedTurn' = (failedTurn \/ rec.status = "error")
          /\ ExitOrLoop(~ok \/ cur.eof, IF ok THEN EofExit(failedTurn') ELSE ExitError)

AccountStep ==
    \/ Pauses \/ Delivers \/ Finishes \/ Skips \/ Asks \/ Answers
    \/ \E rec \in Record, ok \in BOOLEAN : Records(rec, ok) \/ Concludes(rec, ok)

LEMMA ReceiveHandles ==
    ASSUME LoopInv, NEW kind \in LineKinds \cup {"end", "readError"}, Receive(kind),
           pc' \in {"top", "exited"}, UNCHANGED <<requests, result>>
    PROVE  /\ Handles /\ mailbox.kind = kind
           /\ kind \in LineKinds => lineNo' = lineNo + 1 /\ mailbox \in Items
           /\ kind \notin LineKinds => lineNo' = lineNo /\ mailbox \in Ends
           /\ mailbox.eof \in BOOLEAN
<1>1. mailbox \in Items \cup Ends /\ mailbox' = NoItem /\ mailbox.eof \in BOOLEAN
  BY ReceiveType DEF LoopInv
<1>2. mailbox.kind = kind /\ mailbox # NoItem /\ cur' = mailbox /\ pc = "read" /\ script' = script
  BY DEF Receive
<1>3. (kind \in LineKinds => lineNo' = lineNo + 1) /\ (kind \notin LineKinds => lineNo' = lineNo)
  BY DEF Receive
<1>4. (kind \in LineKinds <=> mailbox \in Items) /\ (kind \notin LineKinds <=> mailbox \in Ends)
  BY <1>1, <1>2 DEF LineKinds, Items, Ends
<1>5. QED
  BY <1>1, <1>2, <1>3, <1>4 DEF Handles

\* One line that leaves a record, for each of the five kinds that do.
LEMMA LineRecords ==
    ASSUME LoopInv,
           LineTooLong \/ Quit \/ ClearCommand \/ UnknownCommand \/ StageRefused
    PROVE  \E rec \in Record, ok \in BOOLEAN : Records(rec, ok)
<1> USE DEF LineKinds, RecordKindOf, Fails, EofExit
<1>1. ASSUME NEW kind \in LineKinds \ {"blank"}, Receive(kind), pc' \in {"top", "exited"},
             UNCHANGED <<requests, result>>
      PROVE  /\ Handles /\ mailbox.kind = kind /\ mailbox.eof \in BOOLEAN
             /\ lineNo' = lineNo + 1 /\ lineNo' \in Nat /\ mailbox \in Items
  BY <1>1, ReceiveHandles, ReceiveType DEF LoopInv
<1>2. ASSUME NEW leave, NEW code, ExitOrLoop(leave, code)
      PROVE  pc' \in {"top", "exited"}
  BY <1>2 DEF ExitOrLoop
<1>3. failedTurn \in BOOLEAN
  BY DEF LoopInv, TypeOK
<1>4. CASE LineTooLong
  <2> DEFINE rec == Rec(lineNo', "turn", "error")
  <2>1. PICK ok \in BOOLEAN : Emit(rec, ok) /\ ExitOrLoop(~ok, ExitError)
    BY <1>4 DEF LineTooLong
  <2>2. /\ Handles /\ mailbox.kind = "long" /\ lineNo' = lineNo + 1 /\ lineNo' \in Nat
        /\ mailbox \in Items /\ failedTurn' = TRUE
    BY <1>1, <1>2, <1>4, <2>1 DEF LineTooLong
  <2>3. ~mailbox.eof /\ mailbox.text = NoText
    BY <2>2 DEF Items
  <2>4. /\ rec \in Record /\ rec.line = lineNo' /\ rec.kind = "turn" /\ rec.status = "error"
        /\ rec.input = mailbox.text /\ ~rec.sent
    BY <2>2, <2>3 DEF Rec, Record
  <2> HIDE DEF rec
  <2>5. history' = history
    BY <1>4 DEF LineTooLong, convVars
  <2>6. Records(rec, ok)
    BY <2>5, <2>1, <2>2, <2>3, <2>4 DEF Records, ExitOrLoop
  <2>7. QED
    BY <2>4, <2>6
<1>5. CASE Quit
  <2> DEFINE rec == Rec(lineNo', "quit", "")
  <2>1. PICK ok \in BOOLEAN :
          Emit(rec, ok) /\ Exit(IF ok THEN ExitOK ELSE ExitError)
    BY <1>5 DEF Quit
  <2>2. /\ Handles /\ mailbox.kind = "quit" /\ lineNo' = lineNo + 1 /\ lineNo' \in Nat
        /\ mailbox \in Items /\ failedTurn' = failedTurn
    BY <1>1, <1>5, <2>1 DEF Quit, Exit
  <2>3. mailbox.text = NoText
    BY <2>2 DEF Items
  <2>4. /\ rec \in Record /\ rec.line = lineNo' /\ rec.kind = "quit" /\ rec.status = ""
        /\ rec.input = mailbox.text /\ ~rec.sent
    BY <2>2, <2>3 DEF Rec, Record
  <2> HIDE DEF rec
  <2>5. history' = history
    BY <1>5 DEF Quit, convVars
  <2>6. Records(rec, ok)
    BY <1>3, <2>5, <2>1, <2>2, <2>3, <2>4 DEF Records, ExitOrLoop, Exit
  <2>7. QED
    BY <2>4, <2>6
<1>6. CASE ClearCommand
  <2> DEFINE rec == Rec(lineNo', "clear", "")
  <2>1. PICK ok \in BOOLEAN :
          /\ Emit(rec, ok)
          /\ ExitOrLoop(~ok \/ mailbox.eof, IF ok THEN EofExit(failedTurn) ELSE ExitError)
    BY <1>6 DEF ClearCommand
  <2>2. /\ Handles /\ mailbox.kind = "clear" /\ lineNo' = lineNo + 1 /\ lineNo' \in Nat
        /\ mailbox \in Items /\ failedTurn' = failedTurn
    BY <1>1, <1>2, <1>6, <2>1 DEF ClearCommand
  <2>3. mailbox.text = NoText
    BY <2>2 DEF Items
  <2>4. /\ rec \in Record /\ rec.line = lineNo' /\ rec.kind = "clear" /\ rec.status = ""
        /\ rec.input = mailbox.text /\ ~rec.sent
    BY <2>2, <2>3 DEF Rec, Record
  <2> HIDE DEF rec
  <2>5. history' = <<>>
    BY <1>6 DEF ClearCommand, Clear
  <2>6. Records(rec, ok)
    BY <1>3, <2>5, <2>1, <2>2, <2>3, <2>4 DEF Records, ExitOrLoop
  <2>7. QED
    BY <2>4, <2>6
<1>7. CASE UnknownCommand
  <2> DEFINE rec == Rec(lineNo', "command_error", "")
  <2>1. PICK ok \in BOOLEAN :
          Emit(rec, ok) /\ ExitOrLoop(~ok \/ mailbox.eof, ExitError)
    BY <1>7 DEF UnknownCommand
  <2>2. /\ Handles /\ mailbox.kind = "unknown" /\ lineNo' = lineNo + 1 /\ lineNo' \in Nat
        /\ mailbox \in Items /\ failedTurn' = TRUE
    BY <1>1, <1>2, <1>7, <2>1 DEF UnknownCommand
  <2>3. mailbox.text = NoText
    BY <2>2 DEF Items
  <2>4. /\ rec \in Record /\ rec.line = lineNo' /\ rec.kind = "command_error" /\ rec.status = ""
        /\ rec.input = mailbox.text /\ ~rec.sent
    BY <2>2, <2>3 DEF Rec, Record
  <2> HIDE DEF rec
  <2>5. history' = history
    BY <1>7 DEF UnknownCommand, convVars
  <2>6. Records(rec, ok)
    BY <2>5, <2>1, <2>2, <2>3, <2>4 DEF Records, ExitOrLoop
  <2>7. QED
    BY <2>4, <2>6
<1>8. CASE StageRefused
  <2> DEFINE rec == [Rec(lineNo', "turn", "error") EXCEPT !.input = mailbox.text]
  <2>1. PICK ok \in BOOLEAN : Emit(rec, ok) /\ ExitOrLoop(~ok \/ mailbox.eof, ExitError)
    BY <1>8 DEF StageRefused
  <2>2. /\ Handles /\ mailbox.kind = "message" /\ lineNo' = lineNo + 1 /\ lineNo' \in Nat
        /\ mailbox \in Items /\ failedTurn' = TRUE
    BY <1>1, <1>2, <1>8, <2>1 DEF StageRefused
  <2>3. mailbox.text \in UserTexts
    BY <2>2 DEF Items
  <2>4. /\ rec \in Record /\ rec.line = lineNo' /\ rec.kind = "turn" /\ rec.status = "error"
        /\ rec.input = mailbox.text /\ ~rec.sent
    BY <2>2, <2>3 DEF Rec, Record
  <2> HIDE DEF rec
  <2>5. history' = history
    BY <1>8 DEF StageRefused, StageFails, StageAgain
  <2>6. Records(rec, ok)
    BY <2>5, <2>1, <2>2, <2>4 DEF Records, ExitOrLoop
  <2>7. QED
    BY <2>4, <2>6
<1>9. QED
  BY <1>4, <1>5, <1>6, <1>7, <1>8

\* One turn that ends, with its record.
LEMMA TurnConcludes ==
    ASSUME LoopInv, EndTurn
    PROVE  \E rec \in Record, ok \in BOOLEAN : Concludes(rec, ok)
<1>1. /\ records \in Seq(Record) /\ failedTurn \in BOOLEAN /\ lineNo \in Nat
      /\ result.sent \in BOOLEAN /\ cur.text \in UserTexts \cup {NoText}
  <2>1. cur \in Items \cup Ends
    BY DEF EndTurn, TurnSucceeds, TurnInterrupted, TurnFails, LoopInv, InFlight
  <2>2. QED
    BY <2>1, ItemType DEF LoopInv, TypeOK, Result
<1>2. ASSUME NEW status \in {"ok", "error", "interrupted"}
      PROVE  /\ TurnRec(status) \in Record
             /\ TurnRec(status).line = lineNo /\ TurnRec(status).kind = "turn"
             /\ TurnRec(status).status = status /\ TurnRec(status).sent = result.sent
             /\ TurnRec(status).input = cur.text
  BY <1>1 DEF TurnRec, Rec, Record
<1>3. CASE TurnSucceeds
  <2>1. staged.trimmed \in Nat /\ result.text \in Replies /\ result.outcome = "ok"
    BY <1>3 DEF TurnSucceeds, CommitStaged, LoopInv, TypeOK, ConvTypeOK, StagedTurn
  <2>2. /\ CompletedRec \in Record /\ CompletedRec.line = lineNo /\ CompletedRec.kind = "turn"
        /\ CompletedRec.status = "ok" /\ CompletedRec.sent = FALSE /\ CompletedRec.input = cur.text
        /\ CompletedRec.output = result.text /\ CompletedRec.trimmed = staged.trimmed
    <3> DEFINE done == CompletedRec
               r == TurnRec("ok")
    <3>1. done = [r EXCEPT !.sent = FALSE, !.output = result.text, !.trimmed = staged.trimmed]
      BY DEF CompletedRec
    <3>2. r \in Record
      BY <1>2
    <3> HIDE DEF done, r
    <3>3. /\ done \in Record /\ done.sent = FALSE
          /\ done.output = result.text /\ done.trimmed = staged.trimmed
      BY <2>1, <3>1, <3>2 DEF Record
    <3>4. /\ done.line = r.line /\ done.kind = r.kind
          /\ done.status = r.status /\ done.input = r.input
      BY <3>1, <3>2 DEF Record
    <3>5. QED
      BY <1>2, <3>3, <3>4 DEF done, r
  <2>3. PICK ok \in BOOLEAN :
          /\ Emit(CompletedRec, ok)
          /\ ExitOrLoop(~ok \/ cur.eof, IF ok THEN EofExit(failedTurn) ELSE ExitError)
    BY <1>3 DEF TurnSucceeds
  <2>4. Concludes(CompletedRec, ok)
    BY <1>1, <1>3, <2>1, <2>2, <2>3 DEF TurnSucceeds, TurnOver, Concludes
  <2>5. QED
    BY <2>2, <2>4
<1>4. CASE TurnInterrupted
  <2>1. PICK ok \in BOOLEAN : Emit(TurnRec("interrupted"), ok)
    BY <1>4 DEF TurnInterrupted
  <2>2. Concludes(TurnRec("interrupted"), ok)
    BY <1>1, <1>2, <1>4, <2>1 DEF TurnInterrupted, Abort, TurnOver, Concludes, Exit, interruptExit
  <2>3. QED
    BY <1>2, <2>2
<1>5. CASE TurnFails
  <2>1. PICK ok \in BOOLEAN :
          Emit(TurnRec("error"), ok) /\ ExitOrLoop(~ok \/ cur.eof, ExitError)
    BY <1>5 DEF TurnFails
  <2>2. Concludes(TurnRec("error"), ok)
    BY <1>1, <1>2, <1>5, <2>1 DEF TurnFails, Abort, TurnOver, Concludes, ExitOrLoop, EofExit
  <2>3. QED
    BY <1>2, <2>2
<1>6. QED
  BY <1>3, <1>4, <1>5 DEF EndTurn

LEMMA NextIsAccountStep ==
    ASSUME LoopInv, [Next]_vars
    PROVE  AccountStep
<1> USE DEF AccountStep
<1>1. CASE UNCHANGED vars
  BY <1>1 DEF vars, convVars, sessionVars, recordVars, Pauses
<1>2. CASE TopCancelled \/ ReadInterrupted \/ StartRead
  BY <1>2 DEF TopCancelled, ReadInterrupted, StartRead, abortIfStaged, Abort, convVars, Exit,
              interruptExit, recordVars, Pauses
<1>3. CASE DeliverLine
  BY <1>3 DEF DeliverLine, Delivers, convVars, sessionVars, recordVars
<1>4. CASE InputEnds \/ InputBreaks
  <2>1. Handles /\ mailbox \in Ends /\ lineNo' = lineNo
    BY <1>4, ReceiveHandles DEF InputEnds, InputBreaks, Exit, LineKinds
  <2>2. mailbox.kind = IF InputBreaks THEN "readError" ELSE "end"
    BY <1>4 DEF InputEnds, InputBreaks, Receive
  <2>3. QED
    BY <1>4, <2>1, <2>2 DEF InputEnds, InputBreaks, Exit, Finishes, convVars
<1>5. CASE BlankLine
  <2>1. Handles /\ mailbox.kind = "blank" /\ lineNo' = lineNo + 1
    BY <1>5, ReceiveHandles DEF BlankLine, ExitOrLoop, LineKinds
  <2>2. QED
    BY <1>5, <2>1 DEF BlankLine, Skips, convVars
<1>6. CASE LineTooLong \/ Quit \/ ClearCommand \/ UnknownCommand \/ StageRefused
  BY <1>6, LineRecords
<1>7. CASE StartTurn
  <2>1. mailbox \in Items \cup Ends /\ mailbox.kind = "message" /\ mailbox # NoItem /\ pc = "read"
    BY <1>7, ReceiveType DEF StartTurn, Receive, LoopInv, LineKinds
  <2>2. mailbox \in Items
    BY <2>1 DEF Ends
  <2>3. prefix(staged'.history, staged'.user) \in Seq(Message)
    <3>1. mailbox.text \in UserTexts /\ StageFits(mailbox.text) /\ ConvInv'
      BY <1>7, <2>2, <2>1, StepIsConvStep, ConvNextInv DEF StartTurn, Items, LoopInv
    <3>2. QED
      BY <3>1, StagingTypes
  <2>4. lineNo' = lineNo + 1 /\ cur' = mailbox /\ mailbox' = NoItem /\ script' = script
    BY <1>7 DEF StartTurn, Receive, LineKinds
  <2>5. QED
    BY <1>7, <2>1, <2>2, <2>3, <2>4 DEF StartTurn, StageFits, Asks
<1>8. CASE AnyStreamReturn
  <2>1. PICK outcome \in {"ok", "failed", "canceled"}, text \in Replies \cup {NoText},
             sent \in BOOLEAN : StreamReturns(outcome, text, sent)
    BY <1>8 DEF AnyStreamReturn
  <2>2. Answers
    BY <2>1 DEF StreamReturns, Answers, convVars
  <2>3. QED
    BY <2>2
<1>9. CASE EndTurn
  BY <1>9, TurnConcludes
<1>10. CASE Handler \/ \E sig \in Signals : SignalArrives(sig)
  <2>1. UNCHANGED loopVars
    BY <1>10 DEF Handler, HandlerReceives, HandlerStores, HandlerCancels, SignalArrives
  <2>2. QED
    BY <2>1 DEF loopVars, convVars, sessionVars, recordVars, Pauses
<1>11. CASE Exited
  BY <1>1, <1>11 DEF Exited
<1>12. QED
  BY <1>1, <1>2, <1>3, <1>4, <1>5, <1>6, <1>7, <1>8, <1>9, <1>10, <1>11 DEF Next, ReadSteps

-----------------------------------------------------------------------------
(* The inductive invariant.                                                *)

\* The line that is handled, waits or was last handled, in the input.
Aligned ==
    /\ lineNo <= Len(script)
    /\ pc = "top" => mailbox = NoItem /\ Len(script) = lineNo
    /\ pc = "read" /\ mailbox = NoItem => Len(script) = lineNo
    /\ pc = "read" /\ mailbox # NoItem => Len(script) = lineNo + 1 /\ script[lineNo + 1] = mailbox
    /\ InFlight => /\ lineNo > 0 /\ Len(script) = lineNo /\ script[lineNo] = cur
                   /\ cur.kind = "message" /\ mailbox = NoItem

\* The records, line by line; one that could not be written ended the run.
Recorded == OneRecordPerLine /\ (writeFailed => pc = "exited")

\* The requests, line by line; the last one is that of the turn in flight.
Requested ==
    /\ NoRetry
    /\ \A i \in 1..Len(requests) : requests[i].line \in 1..lineNo
    /\ InFlight => requests # <<>> /\ requests[Len(requests)].line = lineNo

\* An interrupted turn has ended the run, a late one can only be interrupted.
Interrupts ==
    /\ InterruptEndsTheRun
    /\ \A j \in 1..Len(records) : records[j].status = "interrupted" => pc = "exited"
    /\ \A i \in 1..Len(requests) :
          requests[i].late =>
              \/ pc = "streaming" \/ pc = "exited"
              \/ pc = "returned" /\ result.outcome = "canceled" /\ ~result.sent

\* failedTurn is what the file says.
Exits ==
    /\ ExitCodeMeaning
    /\ pc # "exited" => (failedTurn <=> HasFailure)

AccountInv == LoopInv /\ Aligned /\ Recorded /\ Requested /\ Interrupts /\ Exits

LEMMA InitAccountInv == Init => AccountInv
<1> SUFFICES ASSUME Init PROVE AccountInv
  OBVIOUS
<1>1. /\ lineNo = 0 /\ Len(script) = 0 /\ pc = "top" /\ mailbox = NoItem /\ ~writeFailed
      /\ Len(requests) = 0 /\ Len(records) = 0 /\ exitCode = -1 /\ failedTurn = FALSE
  BY DEF Init, Running
<1>2. Aligned /\ Interrupts
  BY <1>1 DEF Aligned, InFlight, Interrupts, InterruptEndsTheRun
<1>3. Recorded
  BY <1>1 DEF Recorded, OneRecordPerLine, LinesDone, InFlight
<1>4. Requested
  BY <1>1 DEF Requested, NoRetry, InFlight
<1>5. Exits
  BY <1>1 DEF Exits, ExitCodeMeaning, HasFailure, ExitOK, ExitError, Running
<1>6. QED
  BY <1>2, <1>3, <1>4, <1>5, InitLoopInv DEF AccountInv

-----------------------------------------------------------------------------
(* What a step adds to the input and to the records.                       *)

LEMMA AccountTypes ==
    ASSUME LoopInv
    PROVE  /\ script \in Seq(Items \cup Ends) /\ Len(script) \in Nat
           /\ records \in Seq(Record) /\ Len(records) \in Nat
           /\ requests \in Seq([line : Nat, late : BOOLEAN, messages : Seq(Message)])
           /\ Len(requests) \in Nat /\ lineNo \in Nat
           /\ failedTurn \in BOOLEAN /\ writeFailed \in BOOLEAN
<1>1. /\ script \in Seq(Items \cup Ends) /\ records \in Seq(Record)
      /\ requests \in Seq([line : Nat, late : BOOLEAN, messages : Seq(Message)])
      /\ lineNo \in Nat /\ failedTurn \in BOOLEAN /\ writeFailed \in BOOLEAN
  BY DEF LoopInv, TypeOK
<1>2. \A S : \A s \in Seq(S) : Len(s) \in Nat
  OBVIOUS
<1>3. QED
  BY <1>1, <1>2

LEMMA EmitEffect ==
    ASSUME LoopInv, NEW rec \in Record, NEW ok \in BOOLEAN, Emit(rec, ok)
    PROVE  /\ ~ok => records' = records /\ writeFailed'
           /\ ok => /\ Len(records') = Len(records) + 1 /\ ~writeFailed'
                    /\ \A j \in 1..Len(records) : records'[j] = records[j]
                    /\ records'[Len(records) + 1] = rec
           /\ Len(records) \in Nat /\ writeFailed' \in BOOLEAN
<1>1. records \in Seq(Record) /\ Len(records) \in Nat
  BY AccountTypes
<1>2. records' = (IF ok THEN Append(records, rec) ELSE records) /\ writeFailed' = ~ok
  BY DEF Emit
<1>3. CASE ok
  <2>1. records' = Append(records, rec)
    BY <1>2, <1>3
  <2>2. writeFailed' = FALSE
    BY <1>2, <1>3
  <2>3. /\ Len(records') = Len(records) + 1 /\ records'[Len(records) + 1] = rec
        /\ \A j \in 1..Len(records) : records'[j] = records[j]
    BY <1>1, <2>1
  <2>4. QED
    BY <1>1, <1>3, <2>2, <2>3
<1>4. CASE ~ok
  BY <1>1, <1>2, <1>4
<1>5. QED
  BY <1>3, <1>4

LEMMA DeliversEffect ==
    ASSUME LoopInv, Delivers
    PROVE  /\ mailbox' \in Items \cup Ends /\ mailbox' # NoItem
           /\ Len(script') = Len(script) + 1 /\ script'[Len(script) + 1] = mailbox'
           /\ \A i \in 1..Len(script) : script'[i] = script[i]
  BY AccountTypes, NoItemAssumption DEF Delivers

LEMMA AsksEffect ==
    ASSUME LoopInv, Asks
    PROVE  /\ Len(requests') = Len(requests) + 1
           /\ requests'[Len(requests) + 1].line = lineNo + 1
           /\ requests'[Len(requests) + 1].late = cancelled
           /\ \A i \in 1..Len(requests) : requests'[i] = requests[i]
  BY AccountTypes DEF Asks

LEMMA AlignedStep ==
    ASSUME LoopInv, Aligned, AccountStep
    PROVE  Aligned'
<1> USE AccountTypes DEF Aligned, InFlight
<1>1. CASE Pauses
  BY <1>1 DEF Pauses
<1>2. CASE Delivers
  BY <1>2, DeliversEffect DEF Delivers
<1>3. CASE Finishes
  BY <1>3 DEF Finishes, Handles
<1>4. CASE Skips
  BY <1>4 DEF Skips, Handles
<1>5. CASE Asks
  BY <1>5 DEF Asks
<1>6. CASE Answers
  BY <1>6 DEF Answers
<1>7. ASSUME NEW rec \in Record, NEW ok \in BOOLEAN, Records(rec, ok) PROVE Aligned'
  <2>1. Handles /\ lineNo' = lineNo + 1
    BY <1>7 DEF Records
  <2>2. QED
    BY <2>1 DEF Handles
<1>8. ASSUME NEW rec \in Record, NEW ok \in BOOLEAN, Concludes(rec, ok) PROVE Aligned'
  BY <1>8 DEF Concludes, ExitOrLoop
<1>9. QED
  BY <1>1, <1>2, <1>3, <1>4, <1>5, <1>6, <1>7, <1>8 DEF AccountStep

-----------------------------------------------------------------------------
(* One record per line.                                                    *)

\* The lines of the records are lines the loop is done with.
LEMMA RecordLines ==
    ASSUME LoopInv, Recorded, NEW j \in 1..Len(records)
    PROVE  records[j].line \in 1..LinesDone /\ script[records[j].line].kind # "blank"
  BY DEF Recorded, OneRecordPerLine

\* A step that writes no record, though a blank line may be done with.
LEMMA RecordedKept ==
    ASSUME LoopInv, Recorded, records' = records, LinesDone \in Int,
           \A i \in 1..LinesDone : script'[i] = script[i],
           \/ LinesDone' = LinesDone
           \/ LinesDone' = LinesDone + 1 /\ script'[LinesDone + 1].kind = "blank",
           writeFailed' => pc' = "exited"
    PROVE  Recorded'
<1>1. \A j \in 1..Len(records) : script'[records[j].line] = script[records[j].line]
  <2>1. \A j \in 1..Len(records) : records[j].line \in 1..LinesDone
    BY RecordLines
  <2>2. QED
    BY <2>1
<1>2. {i \in 1..LinesDone' : script'[i].kind # "blank"} =
         {i \in 1..LinesDone : script[i].kind # "blank"}
  <2>1. CASE LinesDone' = LinesDone
    BY <2>1
  <2>2. CASE LinesDone' = LinesDone + 1 /\ script'[LinesDone + 1].kind = "blank"
    <3>1. \A i \in 1..LinesDone' : i \in 1..LinesDone \/ i = LinesDone + 1
      BY <2>2
    <3>2. \A i \in 1..LinesDone : i \in 1..LinesDone'
      BY <2>2
    <3>3. QED
      BY <2>2, <3>1, <3>2
  <2>3. QED
    BY <2>1, <2>2
<1>3. {records'[j].line : j \in 1..Len(records')} = {i \in 1..LinesDone' : script'[i].kind # "blank"}
  BY <1>2 DEF Recorded, OneRecordPerLine
<1>4. \A j \in 1..Len(records') :
         /\ \A k \in 1..(j - 1) : records'[k].line < records'[j].line
         /\ records'[j].kind = RecordKindOf(script'[records'[j].line])
         /\ records'[j].input = script'[records'[j].line].text
  BY <1>1 DEF Recorded, OneRecordPerLine
<1>5. QED
  BY <1>3, <1>4 DEF Recorded, OneRecordPerLine

\* A step that writes the record of the line it is done with.
LEMMA RecordedMore ==
    ASSUME LoopInv, Recorded, NEW rec \in Record, Emit(rec, TRUE), LinesDone \in Nat,
           script' = script, LinesDone' = LinesDone + 1, rec.line = LinesDone + 1,
           script[LinesDone + 1].kind # "blank",
           rec.kind = RecordKindOf(script[LinesDone + 1]),
           rec.input = script[LinesDone + 1].text
    PROVE  Recorded'
<1>1. /\ Len(records') = Len(records) + 1 /\ Len(records) \in Nat /\ ~writeFailed'
      /\ \A j \in 1..Len(records) : records'[j] = records[j]
      /\ records'[Len(records) + 1] = rec
  BY EmitEffect
<1>2. {records'[j].line : j \in 1..Len(records')} =
         {records[j].line : j \in 1..Len(records)} \cup {LinesDone + 1}
  <2>1. 1..Len(records') = 1..Len(records) \cup {Len(records) + 1}
    BY <1>1
  <2>2. {records'[j].line : j \in 1..Len(records)} = {records[j].line : j \in 1..Len(records)}
    BY <1>1
  <2>3. QED
    BY <1>1, <2>1, <2>2
<1>3. {i \in 1..LinesDone' : script'[i].kind # "blank"} =
         {i \in 1..LinesDone : script[i].kind # "blank"} \cup {LinesDone + 1}
  OBVIOUS
<1>4. \A j \in 1..Len(records') :
         /\ \A k \in 1..(j - 1) : records'[k].line < records'[j].line
         /\ records'[j].kind = RecordKindOf(script'[records'[j].line])
         /\ records'[j].input = script'[records'[j].line].text
  <2> SUFFICES ASSUME NEW j \in 1..Len(records')
               PROVE  /\ \A k \in 1..(j - 1) : records'[k].line < records'[j].line
                      /\ records'[j].kind = RecordKindOf(script'[records'[j].line])
                      /\ records'[j].input = script'[records'[j].line].text
    OBVIOUS
  <2>1. CASE j \in 1..Len(records)
    <3>1. \A k \in 1..(j - 1) : k \in 1..Len(records)
      BY <1>1, <2>1
    <3>2. QED
      BY <1>1, <2>1, <3>1 DEF Recorded, OneRecordPerLine
  <2>2. CASE j = Len(records) + 1
    <3>1. \A k \in 1..(j - 1) : records'[k].line \in 1..LinesDone
      BY <1>1, <2>2, RecordLines
    <3>2. records'[j] = rec
      BY <1>1, <2>2
    <3>3. \A k \in 1..(j - 1) : records'[k].line < records'[j].line
      BY <3>1, <3>2
    <3>4. QED
      BY <3>2, <3>3
  <2>3. QED
    BY <1>1, <2>1, <2>2
<1>5. OneRecordPerLine'
  BY <1>2, <1>3, <1>4 DEF Recorded, OneRecordPerLine
<1>6. QED
  BY <1>1, <1>5 DEF Recorded

LEMMA RecordedStep ==
    ASSUME LoopInv, Aligned, Recorded, AccountStep
    PROVE  Recorded'
<1>1. lineNo \in Nat /\ (InFlight => lineNo > 0) /\ (writeFailed => pc = "exited")
  BY AccountTypes DEF Aligned, Recorded
<1>2. /\ LinesDone \in Int /\ LinesDone <= lineNo
      /\ pc # "exited" => LinesDone \in Nat
  BY <1>1 DEF LinesDone, InFlight
<1>3. CASE Pauses
  <2>1. LinesDone' = LinesDone /\ UNCHANGED <<records, script>> /\ (writeFailed' => pc' = "exited")
    BY <1>1, <1>3 DEF Pauses, recordVars, LinesDone, InFlight
  <2>2. QED
    BY <1>2, <2>1, RecordedKept
<1>4. CASE Delivers
  <2>1. LinesDone' = LinesDone /\ UNCHANGED records /\ (writeFailed' => pc' = "exited")
    BY <1>1, <1>4 DEF Delivers, recordVars, LinesDone, InFlight
  <2>2. \A i \in 1..LinesDone : script'[i] = script[i]
    BY <1>2, <1>4, DeliversEffect, AccountTypes DEF Aligned
  <2>3. QED
    BY <1>2, <2>1, <2>2, RecordedKept
<1>5. CASE Finishes
  <2>1. LinesDone' = LinesDone /\ UNCHANGED <<records, script>> /\ (writeFailed' => pc' = "exited")
    BY <1>1, <1>5 DEF Finishes, Handles, recordVars, LinesDone, InFlight
  <2>2. QED
    BY <1>2, <2>1, RecordedKept
<1>6. CASE Skips
  <2>1. /\ LinesDone = lineNo /\ LinesDone' = lineNo + 1 /\ UNCHANGED <<records, script>>
        /\ ~writeFailed'
    BY <1>1, <1>6 DEF Skips, Handles, recordVars, LinesDone, InFlight
  <2>2. script[lineNo + 1].kind = "blank"
    BY <1>6 DEF Skips, Handles, Aligned
  <2>3. QED
    BY <1>2, <2>1, <2>2, RecordedKept
<1>7. CASE Asks \/ Answers
  <2>1. LinesDone' = LinesDone /\ UNCHANGED <<records, script>> /\ ~writeFailed'
    BY <1>1, <1>7 DEF Asks, Answers, recordVars, LinesDone, InFlight
  <2>2. QED
    BY <1>2, <2>1, RecordedKept
<1>8. ASSUME NEW rec \in Record, NEW ok \in BOOLEAN, Emit(rec, ok), script' = script,
             pc \in {"read", "returned"}, pc' \in {"top", "exited"}, ~ok => pc' = "exited",
             rec.line = LinesDone + 1, rec.line = lineNo',
             script[LinesDone + 1].kind # "blank",
             rec.kind = RecordKindOf(script[LinesDone + 1]),
             rec.input = script[LinesDone + 1].text
      PROVE  Recorded'
  <2>1. CASE ok
    <3>1. ~writeFailed' /\ LinesDone' = lineNo'
      BY <1>8, <2>1, EmitEffect DEF LinesDone, InFlight
    <3>2. ok = TRUE
      BY <2>1
    <3>3. QED
      BY <1>2, <1>8, <3>1, <3>2, RecordedMore
  <2>2. CASE ~ok
    <3>1. writeFailed' /\ records' = records /\ LinesDone' = LinesDone
      BY <1>2, <1>8, <2>2, EmitEffect DEF LinesDone, InFlight
    <3>2. QED
      BY <1>2, <1>8, <2>2, <3>1, RecordedKept
  <2>3. QED
    BY <2>1, <2>2
<1>9. ASSUME NEW rec \in Record, NEW ok \in BOOLEAN, Records(rec, ok) PROVE Recorded'
  <2>1. /\ LinesDone = lineNo /\ script[lineNo + 1] = mailbox /\ mailbox.kind # "blank"
        /\ script' = script /\ pc = "read" /\ pc' \in {"top", "exited"} /\ lineNo' = lineNo + 1
    BY <1>1, <1>9 DEF Records, Handles, LinesDone, InFlight, Aligned
  <2>2. ~ok => pc' = "exited"
    BY <1>9 DEF Records, ExitOrLoop
  <2>3. Emit(rec, ok) /\ rec.line = lineNo' /\ rec.kind = RecordKindOf(mailbox)
        /\ rec.input = mailbox.text
    BY <1>9 DEF Records
  <2>4. QED
    BY <1>8, <2>1, <2>2, <2>3
<1>10. ASSUME NEW rec \in Record, NEW ok \in BOOLEAN, Concludes(rec, ok) PROVE Recorded'
  <2>1. /\ LinesDone + 1 = lineNo /\ script[lineNo] = cur /\ cur.kind = "message"
        /\ script' = script /\ pc = "returned" /\ lineNo' = lineNo
    BY <1>1, <1>10 DEF Concludes, LinesDone, InFlight, Aligned
  <2>2. pc' \in {"top", "exited"} /\ (~ok => pc' = "exited")
    BY <1>10 DEF Concludes, ExitOrLoop
  <2>3. Emit(rec, ok) /\ rec.line = lineNo /\ rec.kind = "turn" /\ rec.input = cur.text
    BY <1>10 DEF Concludes
  <2>4. RecordKindOf(cur) = "turn"
    BY <2>1 DEF RecordKindOf
  <2>5. QED
    BY <1>8, <2>1, <2>2, <2>3, <2>4
<1>11. QED
  BY <1>3, <1>4, <1>5, <1>6, <1>7, <1>9, <1>10 DEF AccountStep

-----------------------------------------------------------------------------
(* One request per line, interruptions, the exit status.                   *)

LEMMA EmitOne ==
    ASSUME LoopInv, NEW rec \in Record, NEW ok \in BOOLEAN, Emit(rec, ok)
    PROVE  \A j \in 1..Len(records') :
              \/ j \in 1..Len(records) /\ records'[j] = records[j]
              \/ ok /\ j = Len(records') /\ j = Len(records) + 1 /\ records'[j] = rec
<1>1. CASE ok
  <2>1. /\ Len(records') = Len(records) + 1 /\ Len(records) \in Nat
        /\ \A j \in 1..Len(records) : records'[j] = records[j]
        /\ records'[Len(records) + 1] = rec
    BY <1>1, EmitEffect
  <2>2. \A j \in 1..Len(records') : j \in 1..Len(records) \/ j = Len(records) + 1
    BY <2>1
  <2>3. QED
    BY <1>1, <2>1, <2>2
<1>2. CASE ~ok
  BY <1>2, EmitEffect
<1>3. QED
  BY <1>1, <1>2

\* A step that makes no request.
LEMMA RequestedKept ==
    ASSUME LoopInv, Aligned, Requested, requests' = requests,
           lineNo' \in {lineNo, lineNo + 1},
           \A i \in 1..lineNo : script'[i] = script[i],
           InFlight' => InFlight /\ lineNo' = lineNo,
           \A j \in 1..Len(records') :
              \/ j \in 1..Len(records) /\ records'[j] = records[j]
              \/ (records'[j].sent \/ records'[j].status \in {"ok", "interrupted"}) =>
                    \E i \in 1..Len(requests) : requests[i].line = records'[j].line
    PROVE  Requested'
<1>1. lineNo \in Nat
  BY AccountTypes
<1>2. \A i \in 1..Len(requests') :
         /\ requests'[i].line \in 1..lineNo'
         /\ script'[requests'[i].line].kind = "message"
         /\ \A j \in 1..(i - 1) : requests'[j].line < requests'[i].line
  BY <1>1 DEF Requested, NoRetry
<1>3. \A j \in 1..Len(records') :
         records'[j].sent \/ records'[j].status \in {"ok", "interrupted"} =>
            \E i \in 1..Len(requests') : requests'[i].line = records'[j].line
  BY DEF Requested, NoRetry
<1>4. InFlight' => requests' # <<>> /\ requests'[Len(requests')].line = lineNo'
  BY DEF Requested
<1>5. QED
  BY <1>2, <1>3, <1>4 DEF Requested, NoRetry

\* A step that makes the request of the next line.
LEMMA RequestsGrow ==
    ASSUME LoopInv, Requested, script' = script, records' = records, lineNo' = lineNo + 1,
           script[lineNo + 1].kind = "message",
           Len(requests') = Len(requests) + 1,
           requests'[Len(requests) + 1].line = lineNo + 1,
           \A i \in 1..Len(requests) : requests'[i] = requests[i]
    PROVE  Requested'
<1> DEFINE n == Len(requests)
<1>1. n \in Nat /\ lineNo \in Nat /\ Len(requests') = n + 1
  BY AccountTypes
<1>2. \A i \in 1..n : /\ requests'[i] = requests[i]
                     /\ requests[i].line \in 1..lineNo
                     /\ script[requests[i].line].kind = "message"
                     /\ \A j \in 1..(i - 1) : requests[j].line < requests[i].line
  BY DEF Requested, NoRetry
<1> HIDE DEF n
<1>3. \A i \in 1..(n + 1) : i \in 1..n \/ i = n + 1
  BY <1>1
<1>4. requests'[n + 1].line = lineNo + 1
  BY DEF n
<1>5. \A i \in 1..(n + 1) : /\ requests'[i].line \in 1..(lineNo + 1)
                           /\ script[requests'[i].line].kind = "message"
  BY <1>1, <1>2, <1>3, <1>4
<1>6. \A i \in 1..(n + 1) : \A j \in 1..(i - 1) : requests'[j].line < requests'[i].line
  <2> SUFFICES ASSUME NEW i \in 1..(n + 1), NEW j \in 1..(i - 1)
               PROVE  requests'[j].line < requests'[i].line
    OBVIOUS
  <2>1. j \in 1..n
    BY <1>1
  <2>2. CASE i \in 1..n
    <3>1. requests[j].line < requests[i].line
      BY <1>2, <2>2
    <3>2. QED
      BY <1>2, <2>1, <2>2, <3>1
  <2>3. CASE i = n + 1
    <3>1. requests'[j].line \in 1..lineNo
      BY <1>2, <2>1
    <3>2. QED
      BY <1>1, <1>4, <2>3, <3>1
  <2>4. QED
    BY <1>3, <2>2, <2>3
<1>7. ASSUME NEW j \in 1..Len(records),
             records[j].sent \/ records[j].status \in {"ok", "interrupted"}
      PROVE  \E i \in 1..(n + 1) : requests'[i].line = records[j].line
  <2>1. PICK i \in 1..n : requests[i].line = records[j].line
    BY <1>7 DEF Requested, NoRetry, n
  <2>2. i \in 1..(n + 1) /\ requests'[i].line = records[j].line
    BY <1>1, <1>2, <2>1
  <2>3. QED
    BY <2>2
<1>8. NoRetry'
  BY <1>1, <1>5, <1>6, <1>7 DEF NoRetry
<1>9. requests' # <<>> /\ requests'[Len(requests')].line = lineNo'
  BY <1>1, <1>4
<1>10. QED
  BY <1>1, <1>5, <1>8, <1>9 DEF Requested

LEMMA RequestedStep ==
    ASSUME LoopInv, Aligned, Requested, AccountStep
    PROVE  Requested'
<1> USE AccountTypes
<1>1. CASE Pauses \/ Finishes \/ Skips \/ Answers
  <2>1. /\ UNCHANGED <<requests, script, records>> /\ lineNo' \in {lineNo, lineNo + 1}
        /\ InFlight' => InFlight /\ lineNo' = lineNo
    BY <1>1 DEF Pauses, Finishes, Skips, Answers, Handles, InFlight, recordVars
  <2>2. \A j \in 1..Len(records') : j \in 1..Len(records) /\ records'[j] = records[j]
    BY <2>1
  <2>3. QED
    BY <2>1, <2>2, RequestedKept
<1>2. CASE Delivers
  <2>1. /\ UNCHANGED <<requests, records>> /\ lineNo' = lineNo /\ (InFlight' => InFlight)
    BY <1>2 DEF Delivers, InFlight, recordVars
  <2>2. \A i \in 1..lineNo : script'[i] = script[i]
    BY <1>2, DeliversEffect DEF Aligned
  <2>3. \A j \in 1..Len(records') : j \in 1..Len(records) /\ records'[j] = records[j]
    BY <2>1
  <2>4. QED
    BY <2>1, <2>2, <2>3, RequestedKept
<1>3. CASE Asks
  <2>1. /\ script' = script /\ records' = records /\ lineNo' = lineNo + 1
        /\ script[lineNo + 1].kind = "message" /\ lineNo \in Nat
    BY <1>3 DEF Asks, Aligned, recordVars
  <2>2. QED
    BY <1>3, <2>1, AsksEffect, RequestsGrow
<1>4. ASSUME NEW rec \in Record, NEW ok \in BOOLEAN, Records(rec, ok) PROVE Requested'
  <2>1. /\ UNCHANGED <<requests, script>> /\ lineNo' = lineNo + 1 /\ ~InFlight'
        /\ ~rec.sent /\ rec.status \notin {"ok", "interrupted"} /\ Emit(rec, ok)
    BY <1>4 DEF Records, Handles, InFlight
  <2>2. QED
    BY <2>1, EmitOne, RequestedKept
<1>5. ASSUME NEW rec \in Record, NEW ok \in BOOLEAN, Concludes(rec, ok) PROVE Requested'
  <2>1. /\ UNCHANGED <<requests, script, lineNo>> /\ ~InFlight' /\ InFlight
        /\ rec.line = lineNo /\ Emit(rec, ok)
    BY <1>5 DEF Concludes, ExitOrLoop, InFlight
  <2>2. \E i \in 1..Len(requests) : requests[i].line = rec.line
    BY <2>1 DEF Requested
  <2>3. QED
    BY <2>1, <2>2, EmitOne, RequestedKept
<1>6. QED
  BY <1>1, <1>2, <1>3, <1>4, <1>5 DEF AccountStep

LEMMA InterruptsStep ==
    ASSUME LoopInv, Aligned, Recorded, Requested, Interrupts, AccountStep
    PROVE  Interrupts'
<1>0. lineNo \in Nat /\ Len(records) \in Nat /\ Len(requests) \in Nat
  BY AccountTypes
<1> USE <1>0
<1>1. CASE Pauses
  <2>1. CASE pc' = pc /\ exitCode' = exitCode
    BY <1>1, <2>1 DEF Pauses, recordVars, Interrupts, InterruptEndsTheRun
  <2>2. CASE pc \in {"top", "read"}
    BY <1>1, <2>2 DEF Pauses, recordVars, Interrupts, InterruptEndsTheRun
  <2>3. QED
    BY <1>1, <2>1, <2>2 DEF Pauses
<1>2. CASE Delivers \/ Finishes \/ Skips
  <2>1. pc = "read" /\ UNCHANGED <<requests, records>>
    BY <1>2 DEF Delivers, Finishes, Skips, Handles, recordVars
  <2>2. QED
    BY <2>1 DEF Interrupts, InterruptEndsTheRun
<1>3. CASE Asks
  <2>1. /\ Len(requests') = Len(requests) + 1
        /\ requests'[Len(requests) + 1].line = lineNo + 1
        /\ \A i \in 1..Len(requests) : requests'[i] = requests[i]
    BY <1>3, AsksEffect
  <2>2. pc = "read" /\ records' = records /\ pc' = "streaming"
    BY <1>3 DEF Asks, recordVars
  <2>3. \A j \in 1..Len(records) : records[j].line # lineNo + 1 /\ records[j].status # "interrupted"
    <3>1. \A j \in 1..Len(records) : records[j].line \in 1..LinesDone
      BY RecordLines
    <3>2. lineNo + 1 \notin 1..LinesDone
      BY DEF LinesDone
    <3>3. \A j \in 1..Len(records) : records[j].status # "interrupted"
      BY <2>2 DEF Interrupts
    <3>4. \A j \in 1..Len(records) : records[j].line # lineNo + 1
      BY <3>1, <3>2
    <3>5. QED
      BY <3>3, <3>4
  <2>4. \A i \in 1..Len(requests) : ~requests[i].late
    BY <2>2 DEF Interrupts
  <2>5. \A i \in 1..Len(requests') : requests'[i].late => i = Len(requests')
    BY <2>1, <2>4
  <2>6. \A j \in 1..Len(records') :
           records'[j].line # requests'[Len(requests')].line /\ records'[j].status # "interrupted"
    BY <2>1, <2>2, <2>3
  <2>7. QED
    BY <2>2, <2>5, <2>6 DEF Interrupts, InterruptEndsTheRun
<1>4. CASE Answers
  BY <1>4 DEF Answers, recordVars, Interrupts, InterruptEndsTheRun
<1>5. ASSUME NEW rec \in Record, NEW ok \in BOOLEAN, Records(rec, ok) PROVE Interrupts'
  <2>1. /\ pc = "read" /\ requests' = requests
        /\ rec.status # "interrupted" /\ Emit(rec, ok)
    BY <1>5 DEF Records, Handles
  <2>2. \A j \in 1..Len(records') : records'[j].status # "interrupted"
    BY <2>1, EmitOne DEF Interrupts
  <2>3. QED
    BY <2>1, <2>2 DEF Interrupts, InterruptEndsTheRun
<1>6. ASSUME NEW rec \in Record, NEW ok \in BOOLEAN, Concludes(rec, ok) PROVE Interrupts'
  <2>1. /\ pc = "returned" /\ requests' = requests /\ Emit(rec, ok)
        /\ rec.line = lineNo /\ (rec.sent => result.sent)
        /\ requests[Len(requests)].line = lineNo
    BY <1>6 DEF Concludes, Requested, InFlight
  <2>2. rec.status = "interrupted" => pc' = "exited" /\ exitCode' \in {ExitInterrupt, ExitTerminated}
    BY <1>6 DEF Concludes
  <2>3. \A j \in 1..Len(records) : records[j].line # lineNo /\ records[j].status # "interrupted"
    BY <2>1, RecordLines DEF LinesDone, Interrupts, InFlight
  <2>4. \A j \in 1..Len(records') :
           \/ j \in 1..Len(records) /\ records'[j] = records[j]
           \/ j = Len(records') /\ records'[j] = rec
    <3>1. Emit(rec, ok)
      BY <2>1
    <3>2. QED
      BY <3>1, EmitOne
  <2>5. ASSUME NEW i \in 1..Len(requests), requests[i].late
        PROVE  i = Len(requests) /\ rec.status = "interrupted" /\ ~rec.sent
    <3>1. result.outcome = "canceled" /\ ~result.sent
      BY <2>1, <2>5 DEF Interrupts
    <3>2. i = Len(requests)
      BY <2>5 DEF Interrupts, InterruptEndsTheRun
    <3>3. rec.status = "interrupted"
      BY <1>6, <3>1 DEF Concludes
    <3>4. rec.sent => result.sent
      BY <1>6 DEF Concludes
    <3>5. QED
      BY <3>1, <3>2, <3>3, <3>4
  <2>6. InterruptEndsTheRun'
    <3>1. ASSUME NEW j \in 1..Len(records'), records'[j].status = "interrupted"
          PROVE  /\ j = Len(records') /\ exitCode' \in {ExitInterrupt, ExitTerminated}
                 /\ requests'[Len(requests')].line = records'[j].line
      BY <2>1, <2>2, <2>3, <2>4, <3>1
    <3>2. ASSUME NEW i \in 1..Len(requests'), requests'[i].late
          PROVE  /\ i = Len(requests')
                 /\ \A j \in 1..Len(records') :
                       records'[j].line = requests'[i].line =>
                           records'[j].status = "interrupted" /\ ~records'[j].sent
      <4>1. i = Len(requests) /\ rec.status = "interrupted" /\ ~rec.sent
        BY <2>1, <2>5, <3>2
      <4>2. QED
        BY <2>1, <2>3, <2>4, <4>1
    <3>3. QED
      BY <3>1, <3>2 DEF InterruptEndsTheRun
  <2>7. \A j \in 1..Len(records') : records'[j].status = "interrupted" => pc' = "exited"
    BY <2>2, <2>3, <2>4
  <2>8. QED
    BY <2>1, <2>2, <2>5, <2>6, <2>7 DEF Interrupts
<1>7. QED
  BY <1>1, <1>2, <1>3, <1>4, <1>5, <1>6 DEF AccountStep

\* What a record that was, or was not, written adds to the failures.
LEMMA FailuresGrow ==
    ASSUME LoopInv, NEW rec \in Record, NEW ok \in BOOLEAN, Emit(rec, ok)
    PROVE  /\ ok => (HasFailure' <=> HasFailure \/ Fails(rec)) /\ ~writeFailed'
           /\ ~ok => writeFailed'
  BY EmitEffect DEF HasFailure, Fails

LEMMA ExitsStep ==
    ASSUME LoopInv, Aligned, Recorded, Exits, AccountStep
    PROVE  Exits'
<1> USE AccountTypes DEF ExitOK, ExitError, ExitInterrupt, ExitTerminated, Running
<1>1. pc # "exited" => exitCode = Running /\ ~writeFailed /\ (failedTurn <=> HasFailure)
  BY DEF Exits, ExitCodeMeaning, Recorded
<1>2. CASE Pauses
  <2>1. UNCHANGED <<records, writeFailed, failedTurn, script>>
    BY <1>2 DEF Pauses, recordVars
  <2>2. CASE pc' = pc /\ exitCode' = exitCode
    BY <2>1, <2>2 DEF Exits, ExitCodeMeaning, HasFailure, LastItem
  <2>3. CASE pc = "top" /\ pc' = "read" /\ exitCode' = exitCode
    BY <1>1, <2>1, <2>3 DEF Exits, ExitCodeMeaning, HasFailure
  <2>4. CASE pc \in {"top", "read"} /\ pc' = "exited" /\ exitCode' \in {ExitInterrupt, ExitTerminated}
    BY <1>1, <2>1, <2>4 DEF Exits, ExitCodeMeaning
  <2>5. QED
    BY <1>2, <2>2, <2>3, <2>4 DEF Pauses
<1>3. CASE Delivers \/ Asks \/ Answers
  <2>1. /\ pc # "exited" /\ pc' # "exited" /\ exitCode' = exitCode
        /\ UNCHANGED <<records, writeFailed, failedTurn>>
    BY <1>3 DEF Delivers, Asks, Answers, recordVars
  <2>2. QED
    BY <1>1, <2>1 DEF Exits, ExitCodeMeaning, HasFailure
<1>4. CASE Finishes
  <2>1. /\ pc = "read" /\ pc' = "exited" /\ UNCHANGED <<records, writeFailed, failedTurn, script>>
        /\ mailbox \in Ends /\ mailbox # NoItem
        /\ exitCode' = IF mailbox.kind = "readError" THEN ExitError ELSE EofExit(failedTurn)
    BY <1>4 DEF Finishes, Handles, recordVars
  <2>2. LastItem' = mailbox
    BY <2>1 DEF LastItem, Aligned
  <2>3. mailbox.kind # "readError" => mailbox.eof
    BY <2>1 DEF Ends
  <2>4. HasFailure' <=> HasFailure
    BY <2>1 DEF HasFailure
  <2>5. QED
    BY <1>1, <2>1, <2>2, <2>3, <2>4 DEF Exits, ExitCodeMeaning, EofExit
<1>5. CASE Skips
  <2>1. /\ pc = "read" /\ mailbox # NoItem /\ UNCHANGED <<records, writeFailed, failedTurn, script>>
        /\ ExitOrLoop(mailbox.eof, EofExit(failedTurn))
    BY <1>5 DEF Skips, Handles, recordVars
  <2>2. LastItem' = mailbox
    BY <2>1 DEF LastItem, Aligned
  <2>3. HasFailure' <=> HasFailure
    BY <2>1 DEF HasFailure
  <2>4. QED
    BY <1>1, <2>1, <2>2, <2>3 DEF Exits, ExitCodeMeaning, EofExit, ExitOrLoop
<1>6. ASSUME NEW rec \in Record, NEW ok \in BOOLEAN, Records(rec, ok) PROVE Exits'
  <2>1. /\ pc = "read" /\ mailbox # NoItem /\ script' = script /\ Emit(rec, ok)
        /\ failedTurn' = (failedTurn \/ Fails(rec))
        /\ ExitOrLoop(~ok \/ mailbox.eof \/ mailbox.kind = "quit",
                      IF ~ok THEN ExitError
                      ELSE IF mailbox.kind = "quit" THEN ExitOK ELSE EofExit(failedTurn'))
    BY <1>6 DEF Records, Handles
  <2>2. LastItem' = mailbox
    BY <2>1 DEF LastItem, Aligned
  <2>3. /\ ok => (HasFailure' <=> HasFailure \/ Fails(rec)) /\ ~writeFailed'
        /\ ~ok => writeFailed'
    BY <2>1, FailuresGrow
  <2>4. ok => (failedTurn' <=> HasFailure')
    BY <1>1, <2>1, <2>3
  <2>5. QED
    BY <2>1, <2>2, <2>3, <2>4 DEF Exits, ExitCodeMeaning, EofExit, ExitOrLoop
<1>7. ASSUME NEW rec \in Record, NEW ok \in BOOLEAN, Concludes(rec, ok) PROVE Exits'
  <2>1. /\ pc = "returned" /\ script' = script /\ Emit(rec, ok) /\ rec.kind = "turn"
    BY <1>7 DEF Concludes
  <2>2. LastItem' = cur
    BY <2>1 DEF LastItem, Aligned, InFlight
  <2>3. /\ ok => (HasFailure' <=> HasFailure \/ Fails(rec)) /\ ~writeFailed'
        /\ ~ok => writeFailed'
    BY <2>1, FailuresGrow
  <2>4. CASE pc' = "exited" /\ exitCode' \in {ExitInterrupt, ExitTerminated}
    BY <2>4 DEF Exits, ExitCodeMeaning
  <2>5. CASE /\ failedTurn' = (failedTurn \/ rec.status = "error")
             /\ ExitOrLoop(~ok \/ cur.eof, IF ok THEN EofExit(failedTurn') ELSE ExitError)
    <3>1. Fails(rec) <=> rec.status = "error"
      BY <2>1 DEF Fails
    <3>2. ok => (failedTurn' <=> HasFailure')
      BY <1>1, <2>1, <2>3, <2>5, <3>1
    <3>3. QED
      BY <2>2, <2>3, <2>5, <3>2 DEF Exits, ExitCodeMeaning, EofExit, ExitOrLoop
  <2>6. QED
    BY <1>7, <2>4, <2>5 DEF Concludes
<1>8. QED
  BY <1>2, <1>3, <1>4, <1>5, <1>6, <1>7 DEF AccountStep

LEMMA NextAccountInv == AccountInv /\ [Next]_vars => AccountInv'
<1> SUFFICES ASSUME AccountInv, [Next]_vars PROVE AccountInv'
  OBVIOUS
<1>1. LoopInv /\ Aligned /\ Recorded /\ Requested /\ Interrupts /\ Exits /\ AccountStep
  BY NextIsAccountStep DEF AccountInv
<1>2. LoopInv'
  BY <1>1, NextLoopInv
<1>3. QED
  BY <1>1, <1>2, AlignedStep, RecordedStep, RequestedStep, InterruptsStep, ExitsStep DEF AccountInv

LEMMA AccountInvAlways == Spec => []AccountInv
  BY InitAccountInv, NextAccountInv, PTL DEF Spec

-----------------------------------------------------------------------------
(* The turn in flight.                                                     *)

\* A reply that completes a turn is a text.
AnswerIsText == result.outcome = "ok" => result.text # NoText

\* The turn in flight is that of the line being handled.
StagedIsCurrent == InFlight => staged.user = User(cur.text)

TurnInv == AccountInv /\ AnswerIsText /\ StagedIsCurrent

\* A turn starts, or is over, or stays what it is.
TurnKept == UNCHANGED <<staged, cur>> /\ (InFlight' => InFlight)

LEMMA TurnSorts ==
    ASSUME LoopInv, [Next]_vars
    PROVE  StartTurn \/ ~InFlight' \/ TurnKept
<1> USE DEF TurnKept
<1>1. CASE UNCHANGED vars
  BY <1>1 DEF vars, convVars, sessionVars, InFlight
<1>2. CASE TopCancelled \/ ReadInterrupted \/ StartRead \/ DeliverLine
  BY <1>2 DEF TopCancelled, ReadInterrupted, StartRead, DeliverLine, Exit, sessionVars, InFlight
<1>3. CASE InputEnds \/ InputBreaks \/ BlankLine \/ Quit
  BY <1>3 DEF InputEnds, InputBreaks, BlankLine, Quit, Exit, ExitOrLoop, InFlight
<1>4. CASE LineTooLong \/ ClearCommand \/ UnknownCommand \/ StageRefused
  BY <1>4 DEF LineTooLong, ClearCommand, UnknownCommand, StageRefused, ExitOrLoop, InFlight
<1>5. CASE AnyStreamReturn
  BY <1>5 DEF AnyStreamReturn, StreamReturns, convVars, InFlight
<1>6. CASE EndTurn
  <2>1. \A leave, code : ExitOrLoop(leave, code) => pc' \in {"top", "exited"}
    BY DEF ExitOrLoop
  <2>2. CASE TurnSucceeds
    BY <2>1, <2>2 DEF TurnSucceeds, InFlight
  <2>3. CASE TurnInterrupted
    BY <2>3 DEF TurnInterrupted, Exit, InFlight
  <2>4. CASE TurnFails
    BY <2>1, <2>4 DEF TurnFails, InFlight
  <2>5. QED
    BY <1>6, <2>2, <2>3, <2>4 DEF EndTurn
<1>7. CASE Handler \/ \E sig \in Signals : SignalArrives(sig)
  <2>1. UNCHANGED loopVars
    BY <1>7 DEF Handler, HandlerReceives, HandlerStores, HandlerCancels, SignalArrives
  <2>2. QED
    BY <2>1 DEF loopVars, convVars, sessionVars, InFlight
<1>8. QED
  BY <1>1, <1>2, <1>3, <1>4, <1>5, <1>6, <1>7 DEF Next, ReadSteps, Exited

LEMMA InitTurnInv == Init => TurnInv
<1>1. Init => AnswerIsText
  <2>1. Init => result = NoResult
    BY DEF Init
  <2>2. NoResult.outcome = "none"
    BY DEF NoResult
  <2>3. QED
    BY <2>1, <2>2 DEF AnswerIsText
<1>2. Init => StagedIsCurrent
  BY DEF StagedIsCurrent, InFlight, Init
<1>3. QED
  BY <1>1, <1>2, InitAccountInv DEF TurnInv

LEMMA NextTurnInv == TurnInv /\ [Next]_vars => TurnInv'
<1> SUFFICES ASSUME TurnInv, [Next]_vars PROVE TurnInv'
  OBVIOUS
<1>1. AccountInv /\ AccountInv' /\ LoopInv /\ AccountStep
  <2>1. AccountInv /\ LoopInv
    BY DEF TurnInv, AccountInv
  <2>2. QED
    BY <2>1, NextAccountInv, NextIsAccountStep
<1>2. AnswerIsText'
  <2>1. CASE Answers
    BY <2>1 DEF Answers, AnswerIsText
  <2>2. CASE result' = result
    BY <2>2 DEF TurnInv, AnswerIsText
  <2>3. Answers \/ result' = result
    BY <1>1 DEF AccountStep, Pauses, Delivers, Finishes, Skips, Handles, Asks, Records, Concludes
  <2>4. QED
    BY <2>1, <2>2, <2>3
<1>3. StagedIsCurrent'
  <2>1. CASE StartTurn
    <3>1. staged'.user = User(mailbox.text) /\ cur' = mailbox
      BY <2>1 DEF StartTurn, StageFits, Receive
    <3>2. QED
      BY <3>1 DEF StagedIsCurrent
  <2>2. CASE TurnKept
    BY <2>2 DEF TurnKept, TurnInv, StagedIsCurrent, InFlight
  <2>3. CASE ~InFlight'
    BY <2>3 DEF StagedIsCurrent
  <2>4. QED
    BY <1>1, <2>1, <2>2, <2>3, TurnSorts
<1>4. QED
  BY <1>1, <1>2, <1>3 DEF TurnInv

-----------------------------------------------------------------------------
(* Replaying the records.                                                  *)

\* The conversations a replay goes through.
Shows(shown, recs, n) ==
    shown = [i \in 0..n |-> IF i = 0 THEN <<>> ELSE ReplayOne(shown[i - 1], recs[i])]

LEMMA ShowsExist ==
    ASSUME NEW recs, NEW n \in Nat
    PROVE  \E shown : Shows(shown, recs, n)
<1> DEFINE S == {i \in Nat : \E shown : Shows(shown, recs, i)}
<1>1. 0 \in S
  <2> DEFINE shown == [i \in 0..0 |-> <<>>]
  <2>1. Shows(shown, recs, 0)
    BY DEF Shows
  <2>2. QED
    BY <2>1
<1>2. ASSUME NEW i \in Nat, i \in S PROVE i + 1 \in S
  <2>1. PICK shown : Shows(shown, recs, i)
    BY <1>2
  <2> DEFINE more == [j \in 0..(i + 1) |->
                        IF j = i + 1 THEN ReplayOne(shown[i], recs[i + 1]) ELSE shown[j]]
  <2>2. Shows(more, recs, i + 1)
    BY <2>1 DEF Shows
  <2>3. QED
    BY <2>2
<1>3. Nat \subseteq S
  <2> HIDE DEF S
  <2>1. QED
    BY <1>1, <1>2, SetInduction
<1>4. QED
  BY <1>3

LEMMA ReplayShows ==
    ASSUME NEW recs \in Seq(Record)
    PROVE  \E shown : Shows(shown, recs, Len(recs)) /\ Replay(recs) = shown[Len(recs)]
<1> DEFINE shown == CHOOSE shown : Shows(shown, recs, Len(recs))
<1>1. Len(recs) \in Nat
  OBVIOUS
<1>2. Shows(shown, recs, Len(recs))
  BY <1>1, ShowsExist
<1>3. Replay(recs) = shown[Len(recs)]
  BY DEF Replay, Shows
<1>4. QED
  BY <1>2, <1>3

\* One more record is replayed on top of the others.
LEMMA ReplayAppend ==
    ASSUME NEW recs \in Seq(Record), NEW rec \in Record
    PROVE  Replay(Append(recs, rec)) = ReplayOne(Replay(recs), rec)
<1> DEFINE n == Len(recs)
           more == Append(recs, rec)
<1>1. n \in Nat /\ n + 1 \in 1..(n + 1) /\ (n + 1) - 1 = n
  OBVIOUS
<1>2. /\ more \in Seq(Record) /\ Len(more) = n + 1 /\ more[n + 1] = rec
      /\ \A i \in 1..n : more[i] = recs[i]
  BY AppendProperties
<1> HIDE DEF more
<1>3. PICK f : Shows(f, recs, n) /\ Replay(recs) = f[n]
  BY ReplayShows
<1>4. PICK g : Shows(g, more, n + 1) /\ Replay(more) = g[n + 1]
  BY <1>2, ReplayShows
<1> HIDE DEF n
<1>5. /\ f[0] = <<>> /\ g[0] = <<>>
      /\ \A i \in 1..n : f[i] = ReplayOne(f[i - 1], recs[i])
      /\ \A i \in 1..(n + 1) : g[i] = ReplayOne(g[i - 1], more[i])
  BY <1>1, <1>3, <1>4 DEF Shows
<1> DEFINE S == {i \in 0..n : f[i] = g[i]}
<1>6. 0 \in S
  BY <1>1, <1>5
<1>7. ASSUME NEW i \in 0..(n - 1), i \in S PROVE i + 1 \in S
  <2>1. i + 1 \in 1..n /\ i + 1 \in 1..(n + 1) /\ (i + 1) - 1 = i
    BY <1>1
  <2>2. /\ f[i + 1] = ReplayOne(f[i], recs[i + 1])
        /\ g[i + 1] = ReplayOne(g[i], more[i + 1])
    BY <1>5, <2>1
  <2>3. QED
    BY <1>2, <1>7, <2>1, <2>2
<1>8. n \in S
  <2> HIDE DEF S
  <2>1. 0..n \subseteq S
    BY <1>1, <1>6, <1>7, IntervalInduction
  <2>2. QED
    BY <1>1, <2>1
<1>9. g[n + 1] = ReplayOne(g[n], rec)
  BY <1>1, <1>2, <1>5
<1>10. QED
  BY <1>3, <1>4, <1>8, <1>9 DEF more

LEMMA ReplayNone == Replay(<<>>) = <<>>
<1>1. <<>> \in Seq(Record) /\ Len(<<>>) = 0
  OBVIOUS
<1>2. PICK f : Shows(f, <<>>, 0) /\ Replay(<<>>) = f[0]
  BY <1>1, ReplayShows
<1>3. QED
  BY <1>2 DEF Shows

-----------------------------------------------------------------------------
(* The records tell the conversation.                                      *)

LEMMA ReplaysStep ==
    ASSUME TurnInv, RecordsReplayToHistory, AccountStep
    PROVE  RecordsReplayToHistory'
<1>0. LoopInv /\ records \in Seq(Record) /\ (writeFailed => pc = "exited")
  BY AccountTypes DEF TurnInv, AccountInv, Recorded
<1>1. CASE UNCHANGED <<history, recordVars>>
  BY <1>1 DEF RecordsReplayToHistory, recordVars
<1>2. CASE Pauses \/ Delivers \/ Finishes \/ Skips \/ Asks \/ Answers
  BY <1>1, <1>2 DEF Pauses, Delivers, Finishes, Skips, Asks, Answers
<1>3. ASSUME NEW rec \in Record, NEW ok \in BOOLEAN, Emit(rec, ok), pc # "exited",
             history' = ReplayOne(history, rec)
      PROVE  RecordsReplayToHistory'
  <2>1. Replay(records) = history
    BY <1>0, <1>3 DEF RecordsReplayToHistory
  <2>2. writeFailed' = ~ok /\ records' = IF ok THEN Append(records, rec) ELSE records
    BY <1>3 DEF Emit
  <2>3. CASE ok
    <3>1. Replay(records') = ReplayOne(Replay(records), rec)
      BY <1>0, <2>2, <2>3, ReplayAppend
    <3>2. QED
      BY <1>3, <2>1, <3>1 DEF RecordsReplayToHistory
  <2>4. CASE ~ok
    BY <2>2, <2>4 DEF RecordsReplayToHistory
  <2>5. QED
    BY <2>3, <2>4
<1>4. ASSUME NEW rec \in Record, NEW ok \in BOOLEAN, Records(rec, ok)
      PROVE  RecordsReplayToHistory'
  <2>1. Emit(rec, ok) /\ pc = "read"
    BY <1>4 DEF Records, Handles
  <2>2. history' = ReplayOne(history, rec)
    BY <1>4 DEF Records, ReplayOne
  <2>3. QED
    BY <1>3, <2>1, <2>2
<1>5. ASSUME NEW rec \in Record, NEW ok \in BOOLEAN, Concludes(rec, ok)
      PROVE  RecordsReplayToHistory'
  <2>1. Emit(rec, ok) /\ pc = "returned" /\ rec.kind = "turn" /\ rec.input = cur.text
    BY <1>5 DEF Concludes
  <2>2. CASE rec.status = "ok"
    <3>1. /\ rec.output = result.text /\ rec.trimmed = staged.trimmed
          /\ CommitStaged(result.text)
      BY <1>5, <2>2 DEF Concludes
    <3>2. staged.history = DropPairs(history, staged.trimmed)
      BY <1>0, <3>1 DEF LoopInv, ConvInv, StagedIsLongestThatFits, CommitStaged
    <3>3. staged.user = User(cur.text)
      BY <2>1 DEF TurnInv, StagedIsCurrent, InFlight
    <3>4. history' = ReplayOne(history, rec)
      BY <2>1, <2>2, <3>1, <3>2, <3>3 DEF CommitStaged, ReplayOne
    <3>5. QED
      BY <1>3, <2>1, <3>4
  <2>3. CASE rec.status # "ok"
    <3>1. history' = ReplayOne(history, rec)
      BY <1>5, <2>1, <2>3 DEF Concludes, ReplayOne
    <3>2. QED
      BY <1>3, <2>1, <3>1
  <2>4. QED
    BY <2>2, <2>3
<1>6. QED
  BY <1>2, <1>4, <1>5 DEF AccountStep

-----------------------------------------------------------------------------
(* The records explain the requests.                                       *)

\* Request q is explained by the records written so far.
Explained(q) ==
    \E m \in 0..Len(records) :
       /\ EarlierRecords(q, m)
       /\ \E k \in 0..(Len(Replay(SubSeq(records, 1, m))) \div 2) :
             ExplainedBy(q, Replay(SubSeq(records, 1, m)), k)

\* The request in flight is that of the staged turn.
FlightAsked ==
    InFlight => requests[Len(requests)].messages = prefix(staged.history, staged.user)

ReplayInv ==
    /\ TurnInv
    /\ RecordsReplayToHistory
    /\ FlightAsked
    /\ \A i \in 1..Len(requests) : Explained(requests[i])

\* What the conversation knows of the turn in flight.
LEMMA StagedTurnFacts ==
    ASSUME ConvInv, staged # NoTurn
    PROVE  /\ staged.trimmed \in 0..(Len(history) \div 2)
           /\ staged.history = DropPairs(history, staged.trimmed)
           /\ Fits(prefix(staged.history, staged.user)) = "fits"
<1>1. staged.trimmed \in Nat /\ 2 * staged.trimmed <= Len(history) /\ Len(history) \in Nat
  BY DEF ConvInv, ConvTypeOK, StagedTurn, StagedIsLongestThatFits
<1>2. QED
  BY <1>1 DEF ConvInv, StagedIsLongestThatFits

\* The request in flight, when no record of its line was written yet, and when
\* the one that is written says what was trimmed.
LEMMA FlightExplained ==
    ASSUME TurnInv, RecordsReplayToHistory, FlightAsked, InFlight,
           NEW rec \in Record, rec.line = lineNo,
           rec.status = "ok" => rec.trimmed = staged.trimmed
    PROVE  /\ EarlierRecords(requests[Len(requests)], Len(records))
           /\ Replay(SubSeq(records, 1, Len(records))) = history
           /\ staged.trimmed \in 0..(Len(history) \div 2)
           /\ ExplainedBy(requests[Len(requests)], history, staged.trimmed)
<1> DEFINE q == requests[Len(requests)]
<1>1. /\ LoopInv /\ ConvInv /\ Recorded /\ staged # NoTurn /\ records \in Seq(Record)
      /\ lineNo \in Nat /\ Len(records) \in Nat
  BY AccountTypes DEF TurnInv, AccountInv, LoopInv, StagedIffInFlight
<1>2. q.line = lineNo /\ script[lineNo] = cur /\ staged.user = User(cur.text)
  BY DEF TurnInv, AccountInv, Requested, Aligned, StagedIsCurrent
<1>3. \A j \in 1..Len(records) : records[j].line < lineNo
  <2>1. \A j \in 1..Len(records) : records[j].line \in 1..LinesDone
    BY <1>1, RecordLines
  <2>2. LinesDone = lineNo - 1
    BY DEF LinesDone
  <2>3. QED
    BY <1>1, <2>1, <2>2
<1>4. EarlierRecords(q, Len(records))
  BY <1>1, <1>2, <1>3 DEF EarlierRecords
<1>5. Replay(SubSeq(records, 1, Len(records))) = history
  <2>1. ~writeFailed
    BY <1>1 DEF Recorded, InFlight
  <2>2. QED
    BY <1>1, <2>1, SubSeqFull DEF RecordsReplayToHistory
<1>6. /\ staged.trimmed \in 0..(Len(history) \div 2)
      /\ q.messages = prefix(DropPairs(history, staged.trimmed), User(script[q.line].text))
      /\ Fits(q.messages) = "fits"
  BY <1>1, <1>2, StagedTurnFacts DEF FlightAsked
<1>7. \A j \in 1..Len(records) : records[j].line # q.line
  <2>1. \A n \in Nat : n < lineNo => n # lineNo
    BY <1>1
  <2>2. \A j \in 1..Len(records) : records[j] \in Record
    BY <1>1
  <2>3. \A j \in 1..Len(records) : records[j].line \in Nat
    BY <2>2 DEF Record
  <2>4. QED
    BY <1>2, <1>3, <2>1, <2>3
<1>8. ExplainedBy(q, history, staged.trimmed)
  BY <1>6, <1>7 DEF ExplainedBy
<1>9. QED
  BY <1>4, <1>5, <1>6, <1>8

LEMMA FlightIsExplained ==
    TurnInv /\ RecordsReplayToHistory /\ FlightAsked /\ InFlight
        => Explained(requests[Len(requests)])
<1> SUFFICES ASSUME TurnInv, RecordsReplayToHistory, FlightAsked, InFlight
             PROVE  Explained(requests[Len(requests)])
  OBVIOUS
<1>1. LoopInv /\ lineNo \in Nat /\ Len(records) \in Nat
  BY AccountTypes DEF TurnInv, AccountInv
<1>2. Rec(lineNo, "turn", "error") \in Record
  BY <1>1, RecType
<1>3. /\ Rec(lineNo, "turn", "error").line = lineNo
      /\ Rec(lineNo, "turn", "error").status # "ok"
  BY DEF Rec
<1>4. /\ EarlierRecords(requests[Len(requests)], Len(records))
      /\ Replay(SubSeq(records, 1, Len(records))) = history
      /\ staged.trimmed \in 0..(Len(history) \div 2)
      /\ ExplainedBy(requests[Len(requests)], history, staged.trimmed)
  BY <1>2, <1>3, FlightExplained
<1>5. Len(records) \in 0..Len(records)
  BY <1>1
<1>6. QED
  BY <1>4, <1>5 DEF Explained

\* One more record, of the line of the request or of a later one, changes
\* nothing for the request when it says what was trimmed.
LEMMA ExplainedStill ==
    ASSUME LoopInv, NEW q, q.line \in 1..Len(script),
           NEW m \in 0..Len(records), EarlierRecords(q, m),
           NEW b, b = Replay(SubSeq(records, 1, m)),
           NEW k \in 0..(Len(b) \div 2), ExplainedBy(q, b, k),
           \A i \in 1..Len(script) : script'[i] = script[i],
           NEW rec \in Record, NEW ok \in BOOLEAN,
           \/ UNCHANGED records
           \/ /\ Emit(rec, ok) /\ rec.line >= q.line
              /\ rec.line = q.line /\ rec.status = "ok" => rec.trimmed = k
    PROVE  Explained(q)'
<1>1. records \in Seq(Record) /\ Len(records) \in Nat /\ Len(script) \in Nat /\ q.line \in Nat
  BY AccountTypes
<1>2. /\ Len(records') \in Nat /\ m \in 0..Len(records')
      /\ \A j \in 1..Len(records') :
            \/ j \in 1..Len(records) /\ records'[j] = records[j]
            \/ /\ ~(j <= m) /\ ~(records'[j].line < q.line)
               /\ records'[j].line = q.line /\ records'[j].status = "ok"
                     => records'[j].trimmed = k
  <2>1. CASE UNCHANGED records
    BY <1>1, <2>1
  <2>2. CASE /\ Emit(rec, ok) /\ rec.line >= q.line
             /\ rec.line = q.line /\ rec.status = "ok" => rec.trimmed = k
    <3>1. rec.line \in Nat
      BY DEF Record
    <3>2. \A j \in 1..Len(records') :
             \/ j \in 1..Len(records) /\ records'[j] = records[j]
             \/ j = Len(records) + 1 /\ records'[j] = rec
      BY <2>2, EmitOne
    <3>3. Len(records') \in Nat /\ Len(records) <= Len(records')
      BY <1>1, <2>2, EmitEffect
    <3>4. QED
      BY <1>1, <2>2, <3>1, <3>2, <3>3
  <2>3. QED
    BY <2>1, <2>2
<1>3. SubSeq(records', 1, m) = SubSeq(records, 1, m)
  <2>1. CASE UNCHANGED records
    BY <2>1
  <2>2. CASE ok /\ Emit(rec, ok)
    <3>1. records' = Append(records, rec)
      BY <2>2 DEF Emit
    <3>2. QED
      BY <1>1, <3>1
  <2>3. CASE ~ok /\ Emit(rec, ok)
    BY <2>3 DEF Emit
  <2>4. QED
    BY <2>1, <2>2, <2>3
<1>4. EarlierRecords(q, m)'
  BY <1>2 DEF EarlierRecords
<1>5. script'[q.line] = script[q.line]
  OBVIOUS
<1>6. ExplainedBy(q, b, k)'
  BY <1>2, <1>5 DEF ExplainedBy
<1>7. b = Replay(SubSeq(records', 1, m))
  BY <1>3
<1>8. QED
  BY <1>2, <1>4, <1>6, <1>7 DEF Explained

\* A record of a later line explains nothing anew.
LEMMA ExplainedKept ==
    ASSUME LoopInv, NEW q, q.line \in 1..Len(script), Explained(q),
           \A i \in 1..Len(script) : script'[i] = script[i],
           \/ UNCHANGED records
           \/ \E rec \in Record, ok \in BOOLEAN : Emit(rec, ok) /\ rec.line > q.line
    PROVE  Explained(q)'
<1>1. PICK m \in 0..Len(records) :
          /\ EarlierRecords(q, m)
          /\ \E k \in 0..(Len(Replay(SubSeq(records, 1, m))) \div 2) :
                ExplainedBy(q, Replay(SubSeq(records, 1, m)), k)
  BY DEF Explained
<1>2. PICK b : b = Replay(SubSeq(records, 1, m))
  OBVIOUS
<1>3. PICK k \in 0..(Len(b) \div 2) : ExplainedBy(q, b, k)
  BY <1>1, <1>2
<1>4. \E rec \in Record, ok \in BOOLEAN :
         UNCHANGED records \/ (Emit(rec, ok) /\ rec.line > q.line)
  <2>1. Rec(0, "turn", "error") \in Record
    BY RecType
  <2>2. QED
    BY <2>1
<1>5. PICK rec \in Record, ok \in BOOLEAN :
          UNCHANGED records \/ (Emit(rec, ok) /\ rec.line > q.line)
  BY <1>4
<1>6. rec.line \in Nat /\ q.line \in Nat
  <2>1. Len(script) \in Nat
    BY AccountTypes
  <2>2. q.line \in Nat
    BY <2>1
  <2>3. rec.line \in Nat
    BY DEF Record
  <2>4. QED
    BY <2>2, <2>3
<1>7. \/ UNCHANGED records
      \/ /\ Emit(rec, ok) /\ rec.line >= q.line
         /\ rec.line = q.line /\ rec.status = "ok" => rec.trimmed = k
  BY <1>5, <1>6
<1>8. QED
  BY <1>1, <1>2, <1>3, <1>7, ExplainedStill

LEMMA FlightAskedStep ==
    ASSUME TurnInv, FlightAsked, [Next]_vars, AccountStep
    PROVE  FlightAsked'
<1>1. LoopInv /\ Len(requests) \in Nat
      /\ requests \in Seq([line : Nat, late : BOOLEAN, messages : Seq(Message)])
  BY AccountTypes DEF TurnInv, AccountInv
<1>2. CASE Asks
  BY <1>1, <1>2 DEF Asks, FlightAsked
<1>3. CASE ~Asks
  <2>1. requests' = requests
    BY <1>3 DEF AccountStep, Pauses, Delivers, Finishes, Skips, Handles, Answers, Records,
                Concludes
  <2>2. ~StartTurn
    <3>1. ASSUME StartTurn PROVE FALSE
      <4>1. \E q : requests' = Append(requests, q)
        BY <3>1 DEF StartTurn
      <4>2. Len(requests') = Len(requests) + 1
        BY <1>1, <4>1
      <4>3. QED
        BY <1>1, <2>1, <4>2
    <3>2. QED
      BY <3>1
  <2>3. ~InFlight' \/ TurnKept
    BY <1>1, <2>2, TurnSorts
  <2>4. QED
    BY <2>1, <2>3 DEF FlightAsked, TurnKept, InFlight
<1>4. QED
  BY <1>2, <1>3

LEMMA ExplainedStep ==
    ASSUME ReplayInv, AccountStep, (TurnInv /\ RecordsReplayToHistory /\ FlightAsked)'
    PROVE  (\A i \in 1..Len(requests) : Explained(requests[i]))'
<1>1. /\ TurnInv /\ LoopInv /\ Aligned /\ Requested /\ Len(requests) \in Nat
      /\ lineNo \in Nat /\ Len(script) \in Nat /\ lineNo <= Len(script)
  BY AccountTypes DEF ReplayInv, TurnInv, AccountInv, Aligned
<1>2. \A i \in 1..Len(requests) : requests[i].line \in 1..lineNo
  BY <1>1 DEF Requested
<1>3. \A i \in 1..Len(script) : script'[i] = script[i]
  <2>1. CASE Delivers
    BY <1>1, <2>1, DeliversEffect
  <2>2. CASE script' = script
    BY <2>2
  <2>3. QED
    BY <2>1, <2>2 DEF AccountStep, Pauses, Finishes, Skips, Handles, Asks, Answers, Records,
                      Concludes
\* What was explained and has no record to come is explained.
<1>4. ASSUME NEW i \in 1..Len(requests), requests'[i] = requests[i],
             \/ UNCHANGED records
             \/ \E rec \in Record, ok \in BOOLEAN : Emit(rec, ok) /\ rec.line > requests[i].line
      PROVE  Explained(requests[i])'
  <2>1. PICK q : q = requests[i]
    OBVIOUS
  <2>2. Explained(q)
    BY <2>1 DEF ReplayInv
  <2>3. q.line \in 1..Len(script)
    BY <1>1, <1>2, <2>1
  <2>4. Explained(q)'
    BY <1>1, <1>3, <1>4, <2>1, <2>2, <2>3, ExplainedKept
  <2>5. QED
    BY <1>4, <2>1, <2>4 DEF Explained, EarlierRecords, ExplainedBy
<1>5. CASE UNCHANGED <<requests, recordVars>>
  BY <1>4, <1>5 DEF recordVars
<1>6. CASE Asks
  <2>1. /\ Len(requests') = Len(requests) + 1
        /\ \A i \in 1..Len(requests) : requests'[i] = requests[i]
    BY <1>1, <1>6, AsksEffect
  <2>2. InFlight' /\ UNCHANGED records
    BY <1>6 DEF Asks, InFlight, recordVars
  <2>3. (TurnInv /\ RecordsReplayToHistory /\ FlightAsked /\ InFlight
            => Explained(requests[Len(requests)]))'
    BY FlightIsExplained, PTL
  <2>4. Explained(requests[Len(requests)])'
    BY <2>2, <2>3
  <2>5. ASSUME NEW i \in 1..Len(requests') PROVE Explained(requests[i])'
    <3>1. CASE i \in 1..Len(requests)
      BY <1>4, <2>1, <2>2, <3>1
    <3>2. CASE i = Len(requests')
      BY <2>4, <3>2 DEF Explained, EarlierRecords, ExplainedBy
    <3>3. QED
      BY <1>1, <2>1, <3>1, <3>2
  <2>6. QED
    BY <2>5
<1>7. ASSUME NEW rec \in Record, NEW ok \in BOOLEAN, Records(rec, ok)
      PROVE  (\A i \in 1..Len(requests) : Explained(requests[i]))'
  <2>1. requests' = requests /\ Emit(rec, ok) /\ rec.line = lineNo + 1
    BY <1>7 DEF Records, Handles
  <2>2. \A i \in 1..Len(requests) : rec.line > requests[i].line
    BY <1>1, <1>2, <2>1
  <2>3. QED
    BY <1>4, <2>1, <2>2
<1>8. ASSUME NEW rec \in Record, NEW ok \in BOOLEAN, Concludes(rec, ok)
      PROVE  (\A i \in 1..Len(requests) : Explained(requests[i]))'
  <2>1. /\ requests' = requests /\ Emit(rec, ok) /\ rec.line = lineNo /\ InFlight
        /\ rec.status = "ok" => rec.trimmed = staged.trimmed
    BY <1>8 DEF Concludes, InFlight
  <2>2. requests # <<>> /\ requests[Len(requests)].line = lineNo
    BY <1>1, <2>1 DEF Requested
  <2>3. ASSUME NEW i \in 1..Len(requests) PROVE Explained(requests[i])'
    <3>1. CASE i < Len(requests)
      <4>1. requests[i].line < requests[Len(requests)].line
        BY <1>1, <3>1 DEF Requested, NoRetry
      <4>2. rec.line > requests[i].line
        BY <1>1, <1>2, <2>1, <2>2, <4>1
      <4>3. QED
        BY <1>4, <2>1, <4>2
    <3>2. CASE i = Len(requests)
      <4>1. PICK q : q = requests[i]
        OBVIOUS
      <4>2. PICK k : k = staged.trimmed
        OBVIOUS
      <4>3. PICK b : b = history
        OBVIOUS
      <4>4. PICK m : m = Len(records)
        OBVIOUS
      <4>5. /\ EarlierRecords(requests[Len(requests)], Len(records))
            /\ Replay(SubSeq(records, 1, Len(records))) = history
            /\ staged.trimmed \in 0..(Len(history) \div 2)
            /\ ExplainedBy(requests[Len(requests)], history, staged.trimmed)
        BY <2>1, FlightExplained DEF ReplayInv
      <4>6. /\ EarlierRecords(q, m) /\ b = Replay(SubSeq(records, 1, m))
            /\ k \in 0..(Len(b) \div 2) /\ ExplainedBy(q, b, k)
        BY <3>2, <4>1, <4>2, <4>3, <4>4, <4>5
      <4>7. m \in 0..Len(records) /\ q.line \in 1..Len(script)
        BY <1>1, <1>2, <4>1, <4>4, AccountTypes
      <4>8. /\ Emit(rec, ok) /\ rec.line >= q.line
            /\ rec.line = q.line /\ rec.status = "ok" => rec.trimmed = k
        BY <1>1, <2>1, <2>2, <3>2, <4>1, <4>2
      <4>9. Explained(q)'
        BY <1>1, <1>3, <4>6, <4>7, <4>8, ExplainedStill
      <4>10. QED
        BY <2>1, <4>1, <4>9 DEF Explained, EarlierRecords, ExplainedBy
    <3>3. QED
      BY <1>1, <3>1, <3>2
  <2>4. QED
    BY <2>1, <2>3
<1>9. CASE Pauses \/ Delivers \/ Finishes \/ Skips \/ Answers
  BY <1>5, <1>9 DEF Pauses, Delivers, Finishes, Skips, Handles, Answers
<1>10. QED
  BY <1>6, <1>7, <1>8, <1>9 DEF AccountStep

LEMMA ReplayInvAlways == Spec => []ReplayInv
<1>1. Init => ReplayInv
  <2> SUFFICES ASSUME Init PROVE ReplayInv
    OBVIOUS
  <2>1. /\ TurnInv /\ Len(requests) = 0 /\ records = <<>> /\ history = <<>> /\ ~InFlight
    BY InitTurnInv DEF Init, ConvInit, InFlight
  <2>2. QED
    BY <2>1, ReplayNone DEF ReplayInv, RecordsReplayToHistory, FlightAsked
<1>2. ReplayInv /\ [Next]_vars => ReplayInv'
  <2> SUFFICES ASSUME ReplayInv, [Next]_vars PROVE ReplayInv'
    OBVIOUS
  <2>1. TurnInv /\ LoopInv /\ RecordsReplayToHistory /\ FlightAsked
    BY DEF ReplayInv, TurnInv, AccountInv
  <2>2. AccountStep /\ TurnInv'
    BY <2>1, NextIsAccountStep, NextTurnInv
  <2>3. RecordsReplayToHistory' /\ FlightAsked'
    BY <2>1, <2>2, ReplaysStep, FlightAskedStep
  <2>4. (\A i \in 1..Len(requests) : Explained(requests[i]))'
    BY <2>2, <2>3, ExplainedStep
  <2>5. QED
    BY <2>2, <2>3, <2>4 DEF ReplayInv
<1>3. QED
  BY <1>1, <1>2, PTL DEF Spec

-----------------------------------------------------------------------------
(* The theorems.                                                           *)

\* Whatever mix of commands, blank, rejected, failed and completed lines the
\* input holds, and whatever the writes do, the result file has one record per
\* nonblank line the loop is done with, in order, under its physical number.
THEOREM AlwaysOneRecordPerLine == Spec => []OneRecordPerLine
<1>1. AccountInv => OneRecordPerLine
  BY DEF AccountInv, Recorded
<1>2. QED
  BY <1>1, AccountInvAlways, PTL

\* No line is sent twice and nothing but a message line is sent; what the file
\* calls sent, completed or interrupted was.
THEOREM NeverARetry == Spec => []NoRetry
<1>1. AccountInv => NoRetry
  BY DEF AccountInv, Requested
<1>2. QED
  BY <1>1, AccountInvAlways, PTL

\* An interrupted turn is the end of the file and of the run, and a request
\* made when the context was already done comes to nothing else.
THEOREM InterruptAlwaysEndsTheRun == Spec => []InterruptEndsTheRun
<1>1. AccountInv => InterruptEndsTheRun
  BY DEF AccountInv, Interrupts
<1>2. QED
  BY <1>1, AccountInvAlways, PTL

\* Status 0 means the input was read to its end, or to a quit, with no failed
\* line; status 1 means a failed line, a failed read or a failed write.
THEOREM ExitCodeAlwaysMeans == Spec => []ExitCodeMeaning
<1>1. AccountInv => ExitCodeMeaning
  BY DEF AccountInv, Exits
<1>2. QED
  BY <1>1, AccountInvAlways, PTL

\* Until a write fails, the records tell the conversation in memory: no commit,
\* clear or trim goes unrecorded and no failed turn leaves anything behind.
THEOREM RecordsAlwaysReplay == Spec => []RecordsReplayToHistory
<1>1. ReplayInv => RecordsReplayToHistory
  BY DEF ReplayInv
<1>2. QED
  BY <1>1, ReplayInvAlways, PTL

\* Every request is what the records of the lines before it explain.
THEOREM RequestsAlwaysExplained == Spec => []RequestsExplainedByRecords
<1>1. ReplayInv => RequestsExplainedByRecords
  BY DEF ReplayInv, TurnInv, AccountInv, Requested, RequestsExplainedByRecords, Explained
<1>2. QED
  BY <1>1, ReplayInvAlways, PTL

-----------------------------------------------------------------------------
(* The turns of a history.                                                 *)

LEMMA SameElements ==
    ASSUME NEW S, NEW s \in Seq(S), NEW t \in Seq(S), Len(s) = Len(t),
           \A i \in 1..Len(s) : s[i] = t[i]
    PROVE  s = t
<1>1. s \in [1..Len(s) -> S] /\ t \in [1..Len(s) -> S]
  OBVIOUS
<1>2. QED
  BY <1>1

LEMMA AppendTwo ==
    ASSUME NEW S, NEW s \in Seq(S), NEW a \in S, NEW b \in S
    PROVE  /\ s \o <<a, b>> \in Seq(S) /\ Len(s \o <<a, b>>) = Len(s) + 2
           /\ \A i \in 1..Len(s) : (s \o <<a, b>>)[i] = s[i]
           /\ (s \o <<a, b>>)[Len(s) + 1] = a /\ (s \o <<a, b>>)[Len(s) + 2] = b
<1>1. ASSUME NEW t \in Seq(S), Len(t) = 2
      PROVE  /\ s \o t \in Seq(S) /\ Len(s \o t) = Len(s) + 2
             /\ \A i \in 1..Len(s) : (s \o t)[i] = s[i]
             /\ (s \o t)[Len(s) + 1] = t[1] /\ (s \o t)[Len(s) + 2] = t[2]
  <2>1. s \o t \in Seq(S) /\ Len(s \o t) = Len(s) + Len(t)
    OBVIOUS
  <2>2. \A i \in 1..Len(s) : (s \o t)[i] = s[i]
    OBVIOUS
  <2>3. \A i \in 1..Len(t) : (s \o t)[Len(s) + i] = t[i]
    OBVIOUS
  <2>4. 1 \in 1..Len(t) /\ 2 \in 1..Len(t)
    BY <1>1
  <2>5. QED
    BY <1>1, <2>1, <2>2, <2>3, <2>4
<1> DEFINE p == <<a, b>>
<1>2. p \in Seq(S) /\ Len(p) = 2 /\ p[1] = a /\ p[2] = b
  OBVIOUS
<1> HIDE DEF p
<1>3. /\ s \o p \in Seq(S) /\ Len(s \o p) = Len(s) + 2
      /\ \A i \in 1..Len(s) : (s \o p)[i] = s[i]
      /\ (s \o p)[Len(s) + 1] = a /\ (s \o p)[Len(s) + 2] = b
  BY <1>1, <1>2
<1>4. QED
  BY <1>3 DEF p

Turn == [user : Texts, reply : Texts]

LEMMA HalfOfEven ==
    ASSUME NEW n \in Nat, n % 2 = 0
    PROVE  n \div 2 \in Nat /\ 2 * (n \div 2) = n
  OBVIOUS

LEMMA TurnsType ==
    ASSUME NEW hist \in Seq(Message), IsPairs(hist)
    PROVE  /\ TurnsOf(hist) \in Seq(Turn)
           /\ Len(TurnsOf(hist)) \in Nat /\ 2 * Len(TurnsOf(hist)) = Len(hist)
           /\ \A i \in 1..Len(TurnsOf(hist)) :
                 TurnsOf(hist)[i] = [user |-> hist[2 * i - 1].content,
                                     reply |-> hist[2 * i].content]
<1> DEFINE n == Len(hist) \div 2
<1>1. n \in Nat /\ 2 * n = Len(hist)
  BY HalfOfEven DEF IsPairs
<1> HIDE DEF n
<1>2. TurnsOf(hist) = [i \in 1..n |-> [user |-> hist[2 * i - 1].content,
                                       reply |-> hist[2 * i].content]]
  BY DEF TurnsOf, n
<1>3. \A i \in 1..n : /\ 2 * i - 1 \in 1..Len(hist) /\ 2 * i \in 1..Len(hist)
  BY <1>1
<1>4. \A i \in 1..n : [user |-> hist[2 * i - 1].content,
                       reply |-> hist[2 * i].content] \in Turn
  <2>1. \A j \in 1..Len(hist) : hist[j] \in Message
    OBVIOUS
  <2>2. \A m \in Message : m.content \in Texts
    BY DEF Message
  <2>3. QED
    BY <1>3, <2>1, <2>2 DEF Turn
<1>5. TurnsOf(hist) \in [1..n -> Turn]
  BY <1>2, <1>4
<1>6. TurnsOf(hist) \in Seq(Turn) /\ Len(TurnsOf(hist)) = n
  BY <1>1, <1>5
<1>7. QED
  BY <1>1, <1>2, <1>6

LEMMA NoTurns == TurnsOf(<<>>) = <<>>
<1>1. Len(<<>>) = 0 /\ 0 \div 2 = 0 /\ 1..0 = {}
  OBVIOUS
<1>2. QED
  BY <1>1 DEF TurnsOf

\* Dropping pairs of messages drops turns.
LEMMA TurnsDrop ==
    ASSUME NEW hist \in Seq(Message), IsPairs(hist), NEW k \in Nat, 2 * k <= Len(hist)
    PROVE  /\ k <= Len(TurnsOf(hist))
           /\ TurnsOf(DropPairs(hist, k)) = SubSeq(TurnsOf(hist), k + 1, Len(TurnsOf(hist)))
<1> DEFINE d == DropPairs(hist, k)
           t == TurnsOf(hist)
           u == TurnsOf(d)
           s == SubSeq(t, k + 1, Len(t))
<1>1. /\ d \in Seq(Message) /\ IsPairs(d) /\ Len(d) = Len(hist) - 2 * k
      /\ \A i \in 1..Len(d) : d[i] = hist[2 * k + i]
  <2>1. /\ d \in Seq(Message) /\ IsPairs(d) /\ Len(d) = Len(hist) - 2 * k
    BY DropPairsProperties
  <2>2. \A i \in 1..Len(d) : d[i] = hist[2 * k + i]
    BY DEF DropPairs
  <2>3. QED
    BY <2>1, <2>2
<1>2. /\ t \in Seq(Turn) /\ Len(t) \in Nat /\ 2 * Len(t) = Len(hist)
      /\ \A i \in 1..Len(t) : t[i] = [user |-> hist[2 * i - 1].content,
                                      reply |-> hist[2 * i].content]
  BY TurnsType
<1>3. /\ u \in Seq(Turn) /\ Len(u) \in Nat /\ 2 * Len(u) = Len(d)
      /\ \A i \in 1..Len(u) : u[i] = [user |-> d[2 * i - 1].content,
                                      reply |-> d[2 * i].content]
  <2> HIDE DEF d
  <2>1. QED
    BY <1>1, TurnsType
<1> HIDE DEF d, t, u
<1>4. k <= Len(t) /\ Len(u) = Len(t) - k
  BY <1>1, <1>2, <1>3
<1>5. /\ s \in Seq(Turn) /\ Len(s) = Len(t) - k
      /\ \A i \in 1..(Len(t) - k) : s[i] = t[k + i]
  BY <1>2, <1>4
<1> HIDE DEF s
<1>6. ASSUME NEW i \in 1..Len(u) PROVE u[i] = s[i]
  <2>1. k + i \in 1..Len(t) /\ i \in 1..(Len(t) - k)
    BY <1>2, <1>4
  <2>2. 2 * i - 1 \in 1..Len(d) /\ 2 * i \in 1..Len(d)
    BY <1>1, <1>3
  <2>3. d[2 * i - 1] = hist[2 * (k + i) - 1] /\ d[2 * i] = hist[2 * (k + i)]
    <3>1. 2 * k + (2 * i - 1) = 2 * (k + i) - 1 /\ 2 * k + 2 * i = 2 * (k + i)
      OBVIOUS
    <3>2. QED
      BY <1>1, <2>2, <3>1
  <2>4. u[i] = [user |-> d[2 * i - 1].content, reply |-> d[2 * i].content]
    BY <1>3
  <2>5. t[k + i] = [user |-> hist[2 * (k + i) - 1].content, reply |-> hist[2 * (k + i)].content]
    BY <1>2, <2>1
  <2>6. QED
    BY <1>5, <2>1, <2>3, <2>4, <2>5
<1>7. u = s
  BY <1>3, <1>4, <1>5, <1>6, SameElements
<1>8. QED
  BY <1>4, <1>7 DEF d, t, u, s

\* One more pair of messages is one more turn.
LEMMA TurnsAppend ==
    ASSUME NEW hist \in Seq(Message), IsPairs(hist), NEW user \in Message,
           NEW answer \in Message, IsPairs(hist \o <<user, answer>>)
    PROVE  TurnsOf(hist \o <<user, answer>>) =
              Append(TurnsOf(hist), [user |-> user.content, reply |-> answer.content])
<1> DEFINE h == hist \o <<user, answer>>
           t == TurnsOf(hist)
           u == TurnsOf(h)
           new == [user |-> user.content, reply |-> answer.content]
           s == Append(t, new)
<1>1. /\ h \in Seq(Message) /\ Len(h) = Len(hist) + 2
      /\ \A i \in 1..Len(hist) : h[i] = hist[i]
      /\ h[Len(hist) + 1] = user /\ h[Len(hist) + 2] = answer
  BY AppendTwo
<1>2. /\ t \in Seq(Turn) /\ Len(t) \in Nat /\ 2 * Len(t) = Len(hist)
      /\ \A i \in 1..Len(t) : t[i] = [user |-> hist[2 * i - 1].content,
                                      reply |-> hist[2 * i].content]
  BY TurnsType
<1>3. /\ u \in Seq(Turn) /\ Len(u) \in Nat /\ 2 * Len(u) = Len(h)
      /\ \A i \in 1..Len(u) : u[i] = [user |-> h[2 * i - 1].content,
                                      reply |-> h[2 * i].content]
  <2>1. IsPairs(h)
    OBVIOUS
  <2> HIDE DEF h
  <2>2. QED
    BY <1>1, <2>1, TurnsType
<1>4. new \in Turn
  BY DEF Turn, Message
<1> HIDE DEF h, t, u, new
<1>5. /\ s \in Seq(Turn) /\ Len(s) = Len(t) + 1 /\ s[Len(t) + 1] = new
      /\ \A i \in 1..Len(t) : s[i] = t[i]
  BY <1>2, <1>4
<1> HIDE DEF s
<1>6. Len(u) = Len(t) + 1
  BY <1>1, <1>2, <1>3
<1>7. ASSUME NEW i \in 1..Len(u) PROVE u[i] = s[i]
  <2>1. u[i] = [user |-> h[2 * i - 1].content, reply |-> h[2 * i].content]
    BY <1>3
  <2>2. CASE i \in 1..Len(t)
    <3>1. 2 * i - 1 \in 1..Len(hist) /\ 2 * i \in 1..Len(hist)
      BY <1>2, <2>2
    <3>2. t[i] = [user |-> hist[2 * i - 1].content, reply |-> hist[2 * i].content]
      BY <1>2, <2>2
    <3>3. QED
      BY <1>1, <1>5, <2>1, <2>2, <3>1, <3>2
  <2>3. CASE i = Len(t) + 1
    <3>1. 2 * i - 1 = Len(hist) + 1 /\ 2 * i = Len(hist) + 2
      BY <1>2, <2>3
    <3>2. h[2 * i - 1] = user /\ h[2 * i] = answer
      BY <1>1, <3>1
    <3>3. QED
      BY <1>5, <2>1, <2>3, <3>2 DEF new
  <2>4. QED
    BY <1>2, <1>6, <2>2, <2>3
<1>8. u = s
  BY <1>3, <1>5, <1>6, <1>7, SameElements
<1>9. QED
  BY <1>8 DEF h, t, u, s, new

-----------------------------------------------------------------------------
(* The steps of the session are steps of the contract.                     *)

\* While the loop runs, the contract's run does, and its status at the end of
\* the input is the loop's.
LEMMA StillRunning ==
    ASSUME TurnInv, pc # "exited"
    PROVE  exitCode = -1 /\ EofExit(failedTurn) = Contract!AtEnd /\ failedTurn \in BOOLEAN
<1>1. exitCode = -1 /\ (failedTurn <=> HasFailure) /\ failedTurn \in BOOLEAN
  BY AccountTypes DEF TurnInv, AccountInv, Exits, ExitCodeMeaning, Running
<1>2. HasFailure <=> Contract!Failures # {}
  BY DEF HasFailure, Contract!Failures
<1>3. QED
  BY <1>1, <1>2 DEF EofExit, Contract!AtEnd, ExitOK, ExitError

\* A record that was written is one the contract allows.
LEMMA WrittenIsLogged ==
    ASSUME TurnInv, TurnInv', NEW rec \in Record, Emit(rec, TRUE)
    PROVE  /\ Contract!NewRecord = rec
           /\ Contract!Logs(rec.kind, rec.status)
<1>1. /\ records \in Seq(Record) /\ Len(records) \in Nat
      /\ records' = Append(records, rec)
  BY AccountTypes DEF TurnInv, AccountInv, Emit
<1>2. /\ Len(records') = Len(records) + 1 /\ records' # <<>>
      /\ records'[Len(records')] = rec /\ records'[Len(records) + 1] = rec
      /\ \A j \in 1..Len(records) : records'[j] = records[j]
  BY <1>1
<1>3. \A j \in 1..Len(records') : /\ records'[j].line \in 1..LinesDone'
                                  /\ \A k \in 1..(j - 1) : records'[k].line < records'[j].line
  BY DEF TurnInv, AccountInv, Recorded, OneRecordPerLine
<1>4. rec.line > Contract!LastLine
  <2>1. CASE records = <<>>
    BY <1>1, <1>2, <1>3, <2>1 DEF Contract!LastLine
  <2>2. CASE records # <<>>
    <3>1. Len(records) \in 1..(Len(records') - 1) /\ Len(records') \in 1..Len(records')
      BY <1>1, <1>2, <2>2
    <3>2. records'[Len(records)].line < rec.line
      BY <1>2, <1>3, <3>1
    <3>3. records'[Len(records)] = records[Len(records)]
      BY <1>1, <1>2, <3>1
    <3>4. QED
      BY <2>2, <3>2, <3>3 DEF Contract!LastLine
  <2>3. QED
    BY <2>1, <2>2
<1>5. Contract!NewRecord = rec
  BY <1>2 DEF Contract!NewRecord
<1>6. rec \in Contract!Record
  BY DEF Record, Contract!Record
<1>7. QED
  BY <1>1, <1>2, <1>4, <1>5, <1>6 DEF Contract!Logs

\* A completed turn is the contract's, whatever was trimmed.
LEMMA CommitIsTurn ==
    ASSUME TurnInv, CommitStaged(result.text), result.outcome = "ok", pc = "returned"
    PROVE  /\ staged.trimmed <= Len(TurnsOf(history))
           /\ TurnsOf(history)' =
                 Append(SubSeq(TurnsOf(history), staged.trimmed + 1, Len(TurnsOf(history))),
                        [user |-> cur.text, reply |-> result.text])
<1> DEFINE k == staged.trimmed
           user == staged.user
           answer == Assistant(result.text)
           h == staged.history
<1>1. /\ history \in Seq(Message) /\ IsPairs(history) /\ k \in Nat /\ 2 * k <= Len(history)
      /\ h = DropPairs(history, k) /\ user = User(cur.text) /\ user \in Message
  <2>1. staged \in StagedTurn /\ ConvInv /\ InFlight
    BY DEF TurnInv, AccountInv, LoopInv, ConvInv, ConvTypeOK, CommitStaged, InFlight
  <2>2. k \in Nat /\ user \in Message
    BY <2>1, TextAssumption DEF StagedTurn, Message, Roles
  <2>3. user = User(cur.text)
    BY <2>1 DEF TurnInv, StagedIsCurrent
  <2>4. QED
    BY <2>1, <2>2, <2>3 DEF ConvInv, ConvTypeOK, HistoryIsPairs, StagedIsLongestThatFits,
                            CommitStaged
<1>2. h \in Seq(Message) /\ IsPairs(h)
  BY <1>1, DropPairsProperties
<1>3. result.text \in Texts /\ answer \in Message /\ answer.content = result.text
  <2>1. result.text \in Texts
    BY TextAssumption DEF TurnInv, AccountInv, LoopInv
  <2>2. QED
    BY <2>1 DEF Assistant, Message, Roles
<1>4. user.role = "user" /\ user.content = cur.text
  BY <1>1 DEF User
<1>5. IsPairs(h \o <<user, answer>>)
  BY <1>1, <1>2, <1>3, <1>4, AppendPair
<1>6. TurnsOf(h \o <<user, answer>>) =
         Append(TurnsOf(h), [user |-> cur.text, reply |-> result.text])
  BY <1>1, <1>2, <1>3, <1>4, <1>5, TurnsAppend
<1>7. history' = h \o <<user, answer>>
  BY DEF CommitStaged
<1>8. TurnsOf(history)' = TurnsOf(history')
  BY DEF TurnsOf
<1>9. /\ k <= Len(TurnsOf(history))
      /\ TurnsOf(DropPairs(history, k)) =
            SubSeq(TurnsOf(history), k + 1, Len(TurnsOf(history)))
  BY <1>1, TurnsDrop
<1>10. QED
  BY <1>1, <1>6, <1>7, <1>8, <1>9

\* Every step of the session is one of the contract, or leaves its state alone.
LEMMA StepIsContractStep ==
    ASSUME TurnInv, [Next]_vars
    PROVE  [Contract!Next]_(Contract!contractVars)
<1> USE DEF Contract!contractVars, Running, ExitOK, ExitError, ExitInterrupt, ExitTerminated
<1>0. LoopInv /\ AccountStep /\ TurnInv'
  BY NextTurnInv, NextIsAccountStep DEF TurnInv, AccountInv
<1>1. history' = history => TurnsOf(history)' = TurnsOf(history)
  BY DEF TurnsOf
<1>2. CASE Pauses
  <2>1. UNCHANGED <<history, records>>
    BY <1>2 DEF Pauses, recordVars
  <2>2. CASE exitCode' = exitCode
    BY <1>1, <2>1, <2>2
  <2>3. CASE pc \in {"top", "read"} /\ exitCode' \in {ExitInterrupt, ExitTerminated}
    <3>1. Contract!Interrupted
      BY <1>1, <2>1, <2>3 DEF Contract!Interrupted
    <3>2. QED
      BY <2>3, <3>1, StillRunning DEF Contract!Next, Contract!Running
  <2>4. QED
    BY <1>2, <2>2, <2>3 DEF Pauses
<1>3. CASE Delivers \/ Asks \/ Answers
  BY <1>1, <1>3 DEF Delivers, Asks, Answers, recordVars
<1>4. CASE Finishes \/ Skips
  <2>1. /\ UNCHANGED <<history, records>> /\ pc # "exited"
        /\ exitCode' \in {-1, ExitError, EofExit(failedTurn)}
    BY <1>4 DEF Finishes, Skips, Handles, ExitOrLoop, recordVars
  <2>2. exitCode = -1 /\ EofExit(failedTurn) = Contract!AtEnd
    BY <2>1, StillRunning
  <2>3. exitCode' = -1 \/ Contract!InputEnds \/ Contract!InputUnreadable
    BY <1>1, <2>1, <2>2 DEF Contract!InputEnds, Contract!InputUnreadable
  <2>4. QED
    BY <1>1, <2>1, <2>2, <2>3 DEF Contract!Next, Contract!Running
<1>5. ASSUME NEW rec \in Record, NEW ok \in BOOLEAN, Records(rec, ok)
      PROVE  Contract!Next
  <2>1. pc # "exited" /\ exitCode = -1 /\ failedTurn \in BOOLEAN
        /\ EofExit(failedTurn) = Contract!AtEnd
    BY <1>5, StillRunning DEF Records, Handles
  <2>2. CASE ~ok
    <3>1. Contract!WriteLost
      BY <1>5, <2>2 DEF Records, Emit, ExitOrLoop, Contract!WriteLost
    <3>2. QED
      BY <2>1, <3>1 DEF Contract!Next, Contract!Running
  <2>3. CASE ok
    <3>1. Emit(rec, TRUE)
      BY <1>5, <2>3 DEF Records
    <3>2. /\ Contract!Logs(rec.kind, rec.status) /\ Contract!NewRecord = rec
      BY <1>0, <3>1, WrittenIsLogged
    <3>3. /\ rec.kind = RecordKindOf(mailbox) /\ mailbox.kind \in LineKinds \ {"blank"}
          /\ rec.status = (IF rec.kind = "turn" THEN "error" ELSE "")
          /\ history' = (IF rec.kind = "clear" THEN <<>> ELSE history)
          /\ exitCode' \in {-1, IF mailbox.kind = "quit" THEN ExitOK ELSE EofExit(failedTurn')}
          /\ mailbox.kind = "quit" => exitCode' = ExitOK
          /\ failedTurn' = (failedTurn \/ Fails(rec))
      BY <1>5, <2>3 DEF Records, ExitOrLoop
    <3>4. CASE mailbox.kind = "quit"
      <4>1. Contract!Quits
        BY <1>1, <3>2, <3>3, <3>4 DEF RecordKindOf, Contract!Quits
      <4>2. QED
        BY <2>1, <4>1 DEF Contract!Next, Contract!Running
    <3>5. CASE mailbox.kind = "clear"
      <4>1. failedTurn' = failedTurn /\ rec.kind = "clear" /\ rec.status = ""
        BY <2>1, <3>3, <3>5 DEF Fails, RecordKindOf
      <4>2. TurnsOf(history)' = <<>>
        <5>1. history' = <<>>
          BY <3>3, <4>1
        <5>2. QED
          BY <5>1, NoTurns
      <4>3. Contract!Clears
        BY <2>1, <3>2, <3>3, <3>5, <4>1, <4>2 DEF Contract!Clears, Contract!Running
      <4>4. QED
        BY <2>1, <4>3 DEF Contract!Next, Contract!Running
    <3>6. CASE mailbox.kind \in {"message", "long", "unknown"}
      <4>1. \/ rec.kind = "turn" /\ rec.status = "error"
            \/ rec.kind = "command_error" /\ rec.status = ""
        <5>1. rec.kind = (IF mailbox.kind = "unknown" THEN "command_error" ELSE "turn")
          BY <3>3, <3>6 DEF RecordKindOf
        <5>2. rec.status = (IF rec.kind = "turn" THEN "error" ELSE "")
          BY <3>3
        <5>3. QED
          BY <5>1, <5>2
      <4>2. history' = history
        BY <3>3, <4>1
      <4>3. exitCode' \in {-1, 1}
        <5>1. failedTurn' = TRUE
          BY <2>1, <3>3, <4>1 DEF Fails
        <5>2. exitCode' \in {-1, EofExit(failedTurn')}
          BY <3>3, <3>6
        <5>3. EofExit(failedTurn') = 1
          BY <5>1 DEF EofExit
        <5>4. QED
          BY <5>2, <5>3
      <4>4. Contract!LineFails
        BY <1>1, <3>2, <4>1, <4>2, <4>3 DEF Contract!LineFails, Contract!Running
      <4>5. QED
        BY <2>1, <4>4 DEF Contract!Next, Contract!Running
    <3>7. QED
      BY <3>3, <3>4, <3>5, <3>6 DEF LineKinds
  <2>4. QED
    BY <2>2, <2>3
<1>6. ASSUME NEW rec \in Record, NEW ok \in BOOLEAN, Concludes(rec, ok)
      PROVE  Contract!Next
  <2>1. pc = "returned" /\ exitCode = -1 /\ failedTurn \in BOOLEAN
        /\ EofExit(failedTurn) = Contract!AtEnd
    BY <1>6, StillRunning DEF Concludes
  <2>2. CASE rec.status = "interrupted" /\ exitCode' \in {ExitInterrupt, ExitTerminated}
    <3>1. history' = history
      BY <1>6, <2>2 DEF Concludes
    <3>2. records' = records \/ Contract!Logs("turn", "interrupted")
      <4>1. CASE ok
        <5>1. Emit(rec, TRUE) /\ rec.kind = "turn"
          BY <1>6, <4>1 DEF Concludes
        <5>2. Contract!Logs(rec.kind, rec.status)
          BY <1>0, <5>1, WrittenIsLogged
        <5>3. QED
          BY <2>2, <5>1, <5>2
      <4>2. CASE ~ok
        BY <1>6, <4>2 DEF Concludes, Emit
      <4>3. QED
        BY <4>1, <4>2
    <3>3. Contract!Interrupted
      BY <1>1, <2>2, <3>1, <3>2 DEF Contract!Interrupted
    <3>4. QED
      BY <2>1, <3>3 DEF Contract!Next, Contract!Running
  <2>3. CASE ~ok /\ rec.status # "interrupted"
    <3>1. Contract!WriteLost
      BY <1>6, <2>3 DEF Concludes, Emit, ExitOrLoop, Contract!WriteLost
    <3>2. QED
      BY <2>1, <3>1 DEF Contract!Next, Contract!Running
  <2>4. CASE ok /\ rec.status # "interrupted"
    <3>1. Emit(rec, TRUE) /\ rec.kind = "turn" /\ rec.status \in {"ok", "error"}
          /\ rec.input = cur.text
          /\ failedTurn' = (failedTurn \/ rec.status = "error")
          /\ exitCode' \in {-1, EofExit(failedTurn')}
      BY <1>6, <2>4 DEF Concludes, ExitOrLoop
    <3>2. /\ Contract!Logs(rec.kind, rec.status) /\ Contract!NewRecord = rec
      BY <1>0, <3>1, WrittenIsLogged
    <3>3. CASE rec.status = "error"
      <4>1. history' = history /\ exitCode' \in {-1, 1}
        BY <1>6, <2>1, <3>1, <3>3 DEF Concludes, EofExit
      <4>2. Contract!LineFails
        BY <1>1, <3>1, <3>2, <3>3, <4>1 DEF Contract!LineFails, Contract!Running
      <4>3. QED
        BY <2>1, <4>2 DEF Contract!Next, Contract!Running
    <3>4. CASE rec.status = "ok"
      <4>1. /\ rec.output = result.text /\ rec.trimmed = staged.trimmed
            /\ result.outcome = "ok" /\ CommitStaged(result.text)
        BY <1>6, <3>4 DEF Concludes
      <4>2. /\ rec.trimmed <= Len(TurnsOf(history))
            /\ TurnsOf(history)' =
                  Append(SubSeq(TurnsOf(history), rec.trimmed + 1, Len(TurnsOf(history))),
                         [user |-> rec.input, reply |-> rec.output])
        BY <2>1, <3>1, <4>1, CommitIsTurn
      <4>3. rec.output # NoText
        BY <4>1 DEF TurnInv, AnswerIsText
      <4>4. exitCode' \in {-1, Contract!AtEnd}
        <5>1. failedTurn' = failedTurn
          BY <2>1, <3>1, <3>4
        <5>2. QED
          BY <2>1, <3>1, <5>1
      <4>5. Contract!TurnCompletes
        BY <3>1, <3>2, <3>4, <4>2, <4>3, <4>4 DEF Contract!TurnCompletes, Contract!Running
      <4>6. QED
        BY <2>1, <4>5 DEF Contract!Next, Contract!Running
    <3>5. QED
      BY <3>1, <3>3, <3>4
  <2>5. QED
    BY <1>6, <2>2, <2>3, <2>4 DEF Concludes
<1>7. QED
  BY <1>0, <1>2, <1>3, <1>4, <1>5, <1>6 DEF AccountStep

\* A session is one run of the contract: whatever the input, the replies, the
\* failures, the writes and the signals, what its file and its exit status say
\* is what batch.md lets a reader conclude, and nothing else ever happens.
THEOREM SessionImplementsContract == Spec => ImplementsContract
<1>1. Init => Contract!Init
  BY NoTurns DEF Init, ConvInit, Contract!Init, Running, Contract!Running
<1>2. Spec => []TurnInv
  BY InitTurnInv, NextTurnInv, PTL DEF Spec
<1>3. TurnInv /\ [Next]_vars => [Contract!Next]_(Contract!contractVars)
  BY StepIsContractStep
<1>4. QED
  BY <1>1, <1>2, <1>3, PTL DEF Spec, ImplementsContract, Contract!Spec

=============================================================================
