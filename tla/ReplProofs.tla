------------------------------ MODULE ReplProofs ------------------------------
(***************************************************************************)
(* Proofs about Repl: the session loop uses the conversation only as       *)
(* Conversation allows, so what is proved there holds of every session; a  *)
(* turn is staged exactly while its request is in flight; and the exit     *)
(* status names the first signal.                                          *)
(***************************************************************************)
EXTENDS Repl, ConversationProofs

-----------------------------------------------------------------------------
(* What the items of the input carry.                                      *)

LEMMA ItemType ==
    ASSUME NEW item \in Items \cup Ends
    PROVE  /\ item.eof \in BOOLEAN
           /\ item.text \in UserTexts \cup {NoText}
           /\ item.kind = "message" => item.text \in UserTexts
  BY DEF Items, Ends

\* The received item, where a Receive is taken.
LEMMA ReceiveType ==
    ASSUME TypeOK, NEW kind \in LineKinds \cup {"end", "readError"}, Receive(kind)
    PROVE  /\ mailbox \in Items \cup Ends
           /\ mailbox.eof \in BOOLEAN
           /\ mailbox.text \in UserTexts \cup {NoText}
           /\ kind = "message" => mailbox.text \in UserTexts
           /\ cur' \in Items \cup Ends
           /\ mailbox' = NoItem
           /\ lineNo' \in Nat
<1>1. mailbox \in Items \cup Ends /\ mailbox.kind = kind
  BY DEF TypeOK, Receive
<1>2. cur' = mailbox /\ mailbox' = NoItem
  BY DEF Receive
<1>3. lineNo' \in Nat
  <2>1. lineNo \in Nat
    BY DEF TypeOK
  <2>2. lineNo' = lineNo + 1 \/ lineNo' = lineNo
    BY Zenon DEF Receive
  <2>3. QED
    BY <2>1, <2>2
<1>4. QED
  BY <1>1, <1>2, <1>3, ItemType

\* Every record the loop writes is one.
LEMMA RecType ==
    ASSUME NEW line \in Nat, NEW kind \in {"turn", "clear", "quit", "command_error"},
           NEW status \in {"", "ok", "error", "interrupted"}
    PROVE  Rec(line, kind, status) \in Record
  BY DEF Rec, Record

LEMMA EmitType ==
    ASSUME records \in Seq(Record), NEW rec \in Record, NEW ok \in BOOLEAN, Emit(rec, ok)
    PROVE  records' \in Seq(Record) /\ writeFailed' \in BOOLEAN
  BY DEF Emit

-----------------------------------------------------------------------------
(* The inductive invariant: the types, what is known of the conversation,  *)
(* and how the staged turn, the current item and the result go with pc.    *)

LoopInv ==
    /\ TypeOK
    /\ ConvInv
    /\ StagedIffInFlight
    /\ InFlight => cur \in Items \cup Ends
    /\ result.outcome = "ok" => result.text \in Replies

LEMMA InitLoopInv == Init => LoopInv
<1> SUFFICES ASSUME Init PROVE LoopInv
  OBVIOUS
<1>1. ConvInv
  BY ConvInitInv DEF Init
<1>2. NoResult \in Result
  BY DEF NoResult, Result
<1>3. TypeOK
  <2>1. ConvTypeOK
    BY <1>1 DEF ConvInv
  <2>2. \A S : <<>> \in Seq(S)
    OBVIOUS
  <2>3. /\ records \in Seq(Record)
        /\ script \in Seq(Items \cup Ends)
        /\ requests \in Seq([line : Nat, late : BOOLEAN, messages : Seq(Message)])
    BY <2>2, Zenon DEF Init
  <2>4. QED
    BY <1>2, <2>1, <2>2, <2>3 DEF Init, TypeOK
<1>4. StagedIffInFlight /\ ~InFlight /\ result.outcome # "ok"
  BY DEF Init, ConvInit, StagedIffInFlight, InFlight, NoResult
<1>5. QED
  BY <1>1, <1>3, <1>4 DEF LoopInv

\* Every step of the session is a call of the conversation, or none.
LEMMA StepIsConvStep ==
    ASSUME LoopInv, [Next]_vars
    PROVE  [ConvNext]_convVars
<1>1. CASE UNCHANGED vars
  BY <1>1 DEF vars
<1>2. CASE TopCancelled \/ ReadInterrupted
  BY <1>2 DEF TopCancelled, ReadInterrupted, abortIfStaged, ConvNext
<1>3. CASE StartRead \/ DeliverLine \/ InputEnds \/ InputBreaks \/ BlankLine
             \/ LineTooLong \/ Quit \/ UnknownCommand
  BY <1>3 DEF StartRead, DeliverLine, InputEnds, InputBreaks, BlankLine, LineTooLong,
              Quit, UnknownCommand
<1>4. CASE ClearCommand
  BY <1>4 DEF ClearCommand, ConvNext
<1>5. CASE StageRefused \/ StartTurn
  <2>1. Receive("message")
    BY <1>5 DEF StageRefused, StartTurn
  <2>2. mailbox.text \in UserTexts
    BY <2>1, ReceiveType DEF LoopInv, LineKinds
  <2>3. Stage(mailbox.text)
    BY <1>5 DEF StageRefused, StartTurn, Stage
  <2>4. QED
    BY <2>2, <2>3 DEF ConvNext
<1>6. CASE AnyStreamReturn
  BY <1>6 DEF AnyStreamReturn, StreamReturns
<1>7. CASE TurnSucceeds
  <2>1. result.text \in Replies
    BY <1>7 DEF TurnSucceeds, LoopInv
  <2>2. QED
    BY <1>7, <2>1 DEF TurnSucceeds, ConvNext
<1>8. CASE TurnInterrupted \/ TurnFails
  BY <1>8 DEF TurnInterrupted, TurnFails, ConvNext
<1>9. CASE Handler \/ \E sig \in Signals : SignalArrives(sig)
  BY <1>9 DEF Handler, HandlerReceives, HandlerStores, HandlerCancels, SignalArrives,
              loopVars
<1>10. CASE Exited
  BY <1>10 DEF Exited, vars
<1>11. QED
  BY <1>1, <1>2, <1>3, <1>4, <1>5, <1>6, <1>7, <1>8, <1>9, <1>10
     DEF Next, ReadSteps, EndTurn

-----------------------------------------------------------------------------
(* The invariant is preserved: first what a turn's request and the staged  *)
(* turn look like, then one lemma per kind of step.                        *)

LEMMA StagingTypes ==
    ASSUME LoopInv, NEW text \in UserTexts, StageFits(text), ConvInv'
    PROVE  /\ staged' # NoTurn
           /\ prefix(staged'.history, staged'.user) \in Seq(Message)
<1>1. PICK k \in Nat : 2 * k <= Len(history)
                       /\ staged' = [history |-> DropPairs(history, k),
                                     user |-> User(text), trimmed |-> k]
  BY StageFitsEffect DEF LoopInv
<1>2. DropPairs(history, k) \in Seq(Message)
  BY <1>1, DropPairsProperties DEF LoopInv, ConvInv, ConvTypeOK
<1>3. staged' \in StagedTurn
  BY <1>1, <1>2 DEF StagedTurn, User
<1>4. staged' # NoTurn
  BY <1>3, NoTurnAssumption
<1>5. staged'.history \in Seq(Message) /\ staged'.user \in Message
  BY <1>3, TextAssumption DEF StagedTurn, Message, Roles
<1>6. QED
  BY <1>4, <1>5, SystemType DEF prefix

\* The parts of the type invariant, so that a step shows only those it touches.
LoopTypes ==
    /\ pc \in {"top", "read", "streaming", "returned", "exited"}
    /\ cur \in Items \cup Ends \cup {NoItem}
    /\ lineNo \in Nat /\ failedTurn \in BOOLEAN
    /\ exitCode \in {Running, ExitOK, ExitError, ExitInterrupt, ExitTerminated}
    /\ mailbox \in Items \cup Ends \cup {NoItem}
RecordTypes == records \in Seq(Record) /\ writeFailed \in BOOLEAN
CallTypes ==
    /\ result \in Result
    /\ requests \in Seq([line : Nat, late : BOOLEAN, messages : Seq(Message)])
SignalTypes ==
    /\ sigs \in Signals \cup {""} /\ held \in Signals \cup {""}
    /\ cause \in Signals \cup {""} /\ firstSig \in Signals \cup {""}
    /\ handler \in {"waiting", "got", "stored", "done"}
    /\ cancelled \in BOOLEAN /\ nsig \in Nat
ScriptType == script \in Seq(Items \cup Ends)

LEMMA TypeParts ==
    ASSUME TypeOK
    PROVE  ConvTypeOK /\ LoopTypes /\ RecordTypes /\ CallTypes /\ SignalTypes /\ ScriptType
  BY DEF TypeOK, LoopTypes, RecordTypes, CallTypes, SignalTypes, ScriptType

LEMMA TypeFromParts ==
    ASSUME ConvTypeOK', LoopTypes', RecordTypes', CallTypes', SignalTypes', ScriptType'
    PROVE  TypeOK'
  BY DEF TypeOK, LoopTypes, RecordTypes, CallTypes, SignalTypes, ScriptType

\* The parts that a step leaves alone.
LEMMA KeptTypes ==
    /\ RecordTypes /\ UNCHANGED recordVars => RecordTypes'
    /\ CallTypes /\ UNCHANGED <<result, requests>> => CallTypes'
    /\ SignalTypes /\ UNCHANGED signalVars => SignalTypes'
    /\ ScriptType /\ UNCHANGED script => ScriptType'
<1>1. RecordTypes /\ UNCHANGED recordVars => RecordTypes'
  BY DEF RecordTypes, recordVars
<1>2. CallTypes /\ UNCHANGED <<result, requests>> => CallTypes'
  BY DEF CallTypes
<1>3. SignalTypes /\ UNCHANGED signalVars => SignalTypes'
  BY DEF SignalTypes, signalVars
<1>4. ScriptType /\ UNCHANGED script => ScriptType'
  BY DEF ScriptType
<1>5. QED
  BY <1>1, <1>2, <1>3, <1>4

\* Steps of the signal goroutine and of the outside change nothing of the loop.
LEMMA SignalStepInv ==
    ASSUME LoopInv, ConvInv',
           Handler \/ \E sig \in Signals : SignalArrives(sig)
    PROVE  LoopInv'
<1>1. UNCHANGED loopVars
  BY DEF Handler, HandlerReceives, HandlerStores, HandlerCancels, SignalArrives
<1>2. SignalTypes'
  <2>1. SignalTypes
    BY TypeParts DEF LoopInv
  <2>2. CASE HandlerReceives
    BY <2>1, <2>2 DEF HandlerReceives, SignalTypes
  <2>3. CASE HandlerStores
    BY <2>1, <2>3 DEF HandlerStores, SignalTypes
  <2>4. CASE HandlerCancels
    BY <2>1, <2>4 DEF HandlerCancels, SignalTypes
  <2>5. ASSUME NEW sig \in Signals, SignalArrives(sig) PROVE SignalTypes'
    <3>1. nsig' = nsig + 1 /\ UNCHANGED <<handler, held, cause, cancelled>>
      BY <2>5 DEF SignalArrives
    <3>2. sigs' \in {sig, sigs} /\ firstSig' \in {sig, firstSig}
      BY <2>5, Zenon DEF SignalArrives
    <3>3. sigs' \in Signals \cup {""} /\ firstSig' \in Signals \cup {""}
      BY <2>1, <3>2 DEF SignalTypes
    <3>4. nsig' \in Nat
      <4>1. nsig \in Nat
        BY <2>1 DEF SignalTypes
      <4>2. nsig' = nsig + 1
        BY <3>1
      <4>3. QED
        BY <4>1, <4>2
    <3>5. QED
      BY <2>1, <3>1, <3>3, <3>4 DEF SignalTypes
  <2>6. QED
    BY <2>2, <2>3, <2>4, <2>5 DEF Handler
<1>3. TypeOK'
  <2>1. TypeOK /\ ConvTypeOK'
    BY DEF LoopInv, ConvInv
  <2>2. LoopTypes' /\ RecordTypes' /\ CallTypes' /\ ScriptType'
    BY <1>1, <2>1, TypeParts, KeptTypes DEF LoopTypes, loopVars, sessionVars
  <2>3. QED
    BY <1>2, <2>1, <2>2, TypeFromParts
<1>4. QED
  BY <1>1, <1>3 DEF LoopInv, loopVars, sessionVars, convVars, StagedIffInFlight, InFlight

ExitCodes == {Running, ExitOK, ExitError, ExitInterrupt, ExitTerminated}

\* Between two turns nothing is staged.
LEMMA NothingStaged ==
    ASSUME LoopInv, pc \notin {"streaming", "returned"}
    PROVE  staged = NoTurn
  BY DEF LoopInv, StagedIffInFlight, InFlight

\* A line that is handled without a request, or the end of the input.
LEMMA LineStepInv ==
    ASSUME LoopInv, ConvInv', staged' = NoTurn, UNCHANGED <<result, requests>>,
           NEW kind \in LineKinds \cup {"end", "readError"}, Receive(kind),
           pc' \in {"exited", "top"}, exitCode' \in ExitCodes, failedTurn' \in BOOLEAN,
           records' \in Seq(Record), writeFailed' \in BOOLEAN
    PROVE  LoopInv'
<1>1. TypeOK
  BY DEF LoopInv
<1>2. /\ cur' \in Items \cup Ends
      /\ mailbox' = NoItem
      /\ lineNo' \in Nat
  BY <1>1, ReceiveType
<1>3. UNCHANGED <<signalVars, script>>
  BY DEF Receive
<1>4. TypeOK'
  <2>1. ConvTypeOK'
    BY DEF ConvInv
  <2>2. LoopTypes' /\ RecordTypes'
    BY <1>2 DEF LoopTypes, RecordTypes, ExitCodes
  <2>3. CallTypes' /\ SignalTypes' /\ ScriptType'
    BY <1>1, <1>3, TypeParts, KeptTypes
  <2>4. QED
    BY <2>1, <2>2, <2>3, TypeFromParts
<1>5. StagedIffInFlight' /\ ~InFlight'
  BY DEF StagedIffInFlight, InFlight
<1>6. QED
  BY <1>4, <1>5 DEF LoopInv

\* A turn that is over, whichever way it ended.
LEMMA TurnStepInv ==
    ASSUME LoopInv, ConvInv', staged' = NoTurn, TurnOver,
           pc' \in {"exited", "top"}, exitCode' \in ExitCodes, failedTurn' \in BOOLEAN,
           records' \in Seq(Record), writeFailed' \in BOOLEAN
    PROVE  LoopInv'
<1>1. TypeOK'
  <2>1. TypeOK /\ ConvTypeOK'
    BY DEF LoopInv, ConvInv
  <2>2. UNCHANGED <<cur, lineNo, mailbox>>
    BY DEF TurnOver
  <2>3. LoopTypes' /\ RecordTypes'
    BY <2>1, <2>2, TypeParts DEF LoopTypes, RecordTypes, ExitCodes
  <2>4. CallTypes' /\ SignalTypes' /\ ScriptType'
    BY <2>1, TypeParts, KeptTypes DEF TurnOver
  <2>5. QED
    BY <2>1, <2>3, <2>4, TypeFromParts
<1>2. StagedIffInFlight' /\ ~InFlight'
  BY DEF StagedIffInFlight, InFlight
<1>3. QED
  BY <1>1, <1>2 DEF LoopInv, TurnOver

\* The steps that stop the loop because ctx is done.
LEMMA CancelStepInv ==
    ASSUME LoopInv, ConvInv', TopCancelled \/ ReadInterrupted
    PROVE  LoopInv'
<1>1. staged = NoTurn
  BY NothingStaged DEF TopCancelled, ReadInterrupted
<1>2. staged' = NoTurn /\ pc' = "exited" /\ exitCode' = interruptExit
  BY <1>1 DEF TopCancelled, ReadInterrupted, abortIfStaged, convVars, Exit
<1>3. UNCHANGED <<cur, lineNo, failedTurn, result, mailbox, recordVars, signalVars,
                  script, requests>>
  BY DEF TopCancelled, ReadInterrupted
<1>4. TypeOK'
  <2>1. TypeOK /\ ConvTypeOK'
    BY DEF LoopInv, ConvInv
  <2>2. exitCode' \in {ExitInterrupt, ExitTerminated}
    BY <1>2 DEF interruptExit
  <2>3. LoopTypes'
    BY <1>2, <1>3, <2>1, <2>2, TypeParts DEF LoopTypes
  <2>4. RecordTypes' /\ CallTypes' /\ SignalTypes' /\ ScriptType'
    BY <1>3, <2>1, TypeParts, KeptTypes
  <2>5. QED
    BY <2>1, <2>3, <2>4, TypeFromParts
<1>5. QED
  BY <1>2, <1>3, <1>4 DEF LoopInv, StagedIffInFlight, InFlight

\* The steps of ReadLine up to the select.
LEMMA ReadStepInv ==
    ASSUME LoopInv, ConvInv', StartRead \/ DeliverLine
    PROVE  LoopInv'
<1>1. staged = NoTurn /\ staged' = staged /\ pc' = "read"
  BY NothingStaged DEF StartRead, DeliverLine, convVars, sessionVars
<1>2. mailbox' \in Items \cup Ends \cup {NoItem} /\ script' \in Seq(Items \cup Ends)
  <2>1. mailbox \in Items \cup Ends \cup {NoItem} /\ script \in Seq(Items \cup Ends)
    BY DEF LoopInv, TypeOK
  <2>2. CASE StartRead
    BY <2>1, <2>2 DEF StartRead
  <2>3. CASE DeliverLine
    <3>1. PICK item \in Items \cup Ends : mailbox' = item /\ script' = Append(script, item)
      BY <2>3 DEF DeliverLine
    <3>2. QED
      BY <2>1, <3>1
  <2>4. QED
    BY <2>2, <2>3
<1>3. UNCHANGED <<cur, lineNo, failedTurn, result, exitCode, recordVars, signalVars,
                  requests>>
  BY DEF StartRead, DeliverLine, sessionVars
<1>4. TypeOK'
  <2>1. TypeOK /\ ConvTypeOK'
    BY DEF LoopInv, ConvInv
  <2>2. LoopTypes'
    BY <1>1, <1>2, <1>3, <2>1, TypeParts DEF LoopTypes
  <2>3. RecordTypes' /\ CallTypes' /\ SignalTypes'
    BY <1>3, <2>1, TypeParts, KeptTypes
  <2>4. ScriptType'
    BY <1>2 DEF ScriptType
  <2>5. QED
    BY <2>1, <2>2, <2>3, <2>4, TypeFromParts
<1>5. QED
  BY <1>1, <1>3, <1>4 DEF LoopInv, StagedIffInFlight, InFlight

\* Stage succeeds and the request goes out.
LEMMA StartTurnInv ==
    ASSUME LoopInv, ConvInv', StartTurn
    PROVE  LoopInv'
<1>1. TypeOK /\ Receive("message")
  BY DEF LoopInv, StartTurn
<1>2. /\ mailbox.text \in UserTexts
      /\ cur' \in Items \cup Ends /\ mailbox' = NoItem /\ lineNo' \in Nat
  BY <1>1, ReceiveType DEF LineKinds
<1>3. staged' # NoTurn /\ prefix(staged'.history, staged'.user) \in Seq(Message)
  BY <1>2, StagingTypes DEF StartTurn
<1>4. UNCHANGED <<signalVars, script, failedTurn, result, exitCode, recordVars>>
  BY DEF StartTurn, Receive
<1>5. requests' \in Seq([line : Nat, late : BOOLEAN, messages : Seq(Message)])
  <2>1. [line |-> lineNo', late |-> cancelled,
         messages |-> prefix(staged'.history, staged'.user)]
            \in [line : Nat, late : BOOLEAN, messages : Seq(Message)]
    BY <1>1, <1>2, <1>3 DEF TypeOK
  <2>2. QED
    BY <1>1, <2>1, Zenon, AppendProperties DEF TypeOK, StartTurn
<1>6. pc' = "streaming"
  BY DEF StartTurn
<1>7. TypeOK'
  <2>1. ConvTypeOK'
    BY DEF ConvInv
  <2>2. LoopTypes'
    BY <1>1, <1>2, <1>4, <1>6, TypeParts DEF LoopTypes
  <2>3. RecordTypes' /\ SignalTypes' /\ ScriptType'
    BY <1>1, <1>4, TypeParts, KeptTypes
  <2>4. CallTypes'
    BY <1>1, <1>4, <1>5, TypeParts DEF CallTypes
  <2>5. QED
    BY <2>1, <2>2, <2>3, <2>4, TypeFromParts
<1>8. QED
  BY <1>2, <1>3, <1>4, <1>6, <1>7 DEF LoopInv, StagedIffInFlight, InFlight

LEMMA StreamReturnsInv ==
    ASSUME LoopInv, ConvInv', AnyStreamReturn
    PROVE  LoopInv'
<1>1. PICK outcome \in {"ok", "failed", "canceled"}, text \in Replies \cup {NoText},
           sent \in BOOLEAN : StreamReturns(outcome, text, sent)
  BY DEF AnyStreamReturn
<1>2. /\ result' = [outcome |-> outcome, text |-> text, sent |-> sent]
      /\ (outcome = "ok") = (text # NoText)
      /\ pc = "streaming" /\ pc' = "returned"
  BY <1>1 DEF StreamReturns
<1>3. UNCHANGED <<convVars, cur, lineNo, failedTurn, exitCode, mailbox, recordVars,
                  signalVars, script, requests>>
  BY <1>1 DEF StreamReturns
<1>4. result' \in Result /\ (result'.outcome = "ok" => result'.text \in Replies)
  BY <1>2 DEF Result
<1>5. TypeOK'
  <2>1. TypeOK /\ ConvTypeOK'
    BY DEF LoopInv, ConvInv
  <2>2. LoopTypes'
    BY <1>2, <1>3, <2>1, TypeParts DEF LoopTypes
  <2>3. CallTypes'
    BY <1>3, <1>4, <2>1, TypeParts DEF CallTypes
  <2>4. RecordTypes' /\ SignalTypes' /\ ScriptType'
    BY <1>3, <2>1, TypeParts, KeptTypes
  <2>5. QED
    BY <2>1, <2>2, <2>3, <2>4, TypeFromParts
<1>6. QED
  BY <1>2, <1>3, <1>4, <1>5 DEF LoopInv, StagedIffInFlight, InFlight, convVars

\* A record of the line just received.
LEMMA LineRecord ==
    ASSUME LoopInv, NEW kind \in LineKinds, Receive(kind), NEW ok \in BOOLEAN,
           NEW rkind \in {"turn", "clear", "quit", "command_error"},
           NEW status \in {"", "error"}, Emit(Rec(lineNo', rkind, status), ok)
    PROVE  records' \in Seq(Record) /\ writeFailed' \in BOOLEAN
<1>1. lineNo' \in Nat /\ records \in Seq(Record)
  BY ReceiveType DEF LoopInv, TypeOK
<1>2. QED
  BY <1>1, RecType, EmitType

\* The lines that end without a request keep the invariant.
LEMMA LineStepsInv ==
    ASSUME LoopInv, ConvInv',
           \/ InputEnds \/ InputBreaks \/ BlankLine \/ LineTooLong
           \/ Quit \/ ClearCommand \/ UnknownCommand \/ StageRefused
    PROVE  LoopInv'
<1> DEFINE keeps == failedTurn' \in BOOLEAN /\ UNCHANGED <<result, requests>>
           exits == pc' \in {"exited", "top"} /\ exitCode' \in ExitCodes
           writes == records' \in Seq(Record) /\ writeFailed' \in BOOLEAN
<1> USE DEF Exit, ExitOrLoop, EofExit, ExitCodes
<1>1. staged = NoTurn
  BY NothingStaged DEF InputEnds, InputBreaks, BlankLine, LineTooLong, Quit,
                       ClearCommand, UnknownCommand, StageRefused, Receive
<1>3. records \in Seq(Record) /\ writeFailed \in BOOLEAN /\ failedTurn \in BOOLEAN
  BY DEF LoopInv, TypeOK
<1>4. CASE InputEnds \/ InputBreaks
  <2>1. staged' = NoTurn /\ keeps /\ exits /\ writes
    BY <1>1, <1>3, <1>4 DEF InputEnds, InputBreaks, convVars, recordVars
  <2>2. QED
    BY <1>4, <2>1, LineStepInv DEF InputEnds, InputBreaks
<1>5. CASE BlankLine
  <2>1. staged' = NoTurn /\ keeps /\ exits /\ writes
    BY <1>1, <1>3, <1>5 DEF BlankLine, convVars, recordVars
  <2>2. QED
    BY <1>5, <2>1, LineStepInv DEF BlankLine, LineKinds
<1>6. CASE LineTooLong
  <2>1. staged' = NoTurn /\ keeps /\ exits
    BY <1>1, <1>6 DEF LineTooLong, convVars
  <2>2. writes
    BY <1>6, LineRecord DEF LineTooLong, LineKinds
  <2>3. QED
    BY <1>6, <2>1, <2>2, LineStepInv DEF LineTooLong, LineKinds
<1>7. CASE Quit
  <2>1. staged' = NoTurn /\ keeps /\ exits
    BY <1>1, <1>3, <1>7 DEF Quit, convVars
  <2>2. writes
    BY <1>7, LineRecord DEF Quit, LineKinds
  <2>3. QED
    BY <1>7, <2>1, <2>2, LineStepInv DEF Quit, LineKinds
<1>8. CASE ClearCommand
  <2>1. staged' = NoTurn /\ keeps /\ exits
    BY <1>3, <1>8 DEF ClearCommand, Clear
  <2>2. writes
    BY <1>8, LineRecord DEF ClearCommand, LineKinds
  <2>3. QED
    BY <1>8, <2>1, <2>2, LineStepInv DEF ClearCommand, LineKinds
<1>9. CASE UnknownCommand
  <2>1. staged' = NoTurn /\ keeps /\ exits
    BY <1>1, <1>9 DEF UnknownCommand, convVars
  <2>2. writes
    BY <1>9, LineRecord DEF UnknownCommand, LineKinds
  <2>3. QED
    BY <1>9, <2>1, <2>2, LineStepInv DEF UnknownCommand, LineKinds
<1>10. CASE StageRefused
  <2>1. staged' = NoTurn /\ keeps /\ exits
    BY <1>1, <1>10 DEF StageRefused, StageFails, StageAgain
  <2>2. mailbox.text \in UserTexts /\ lineNo' \in Nat
    BY <1>10, ReceiveType DEF StageRefused, LoopInv, LineKinds
  <2>3. [Rec(lineNo', "turn", "error") EXCEPT !.input = mailbox.text] \in Record
    BY <2>2 DEF Rec, Record
  <2>4. writes
    BY <1>3, <1>10, <2>3, EmitType DEF StageRefused
  <2>5. QED
    BY <1>10, <2>1, <2>4, LineStepInv DEF StageRefused, LineKinds
<1>11. QED
  BY <1>4, <1>5, <1>6, <1>7, <1>8, <1>9, <1>10

\* The steps that end a turn.
LEMMA EndTurnInv ==
    ASSUME LoopInv, ConvInv', EndTurn
    PROVE  LoopInv'
<1> DEFINE exits == pc' \in {"exited", "top"} /\ exitCode' \in ExitCodes
           writes == records' \in Seq(Record) /\ writeFailed' \in BOOLEAN
<1> USE DEF Exit, ExitOrLoop, EofExit, ExitCodes
<1>1. /\ records \in Seq(Record) /\ failedTurn \in BOOLEAN /\ lineNo \in Nat
      /\ result \in Result
  BY DEF LoopInv, TypeOK
<1>2. cur.text \in UserTexts \cup {NoText} /\ result.sent \in BOOLEAN
  <2>1. cur \in Items \cup Ends
    BY DEF EndTurn, TurnSucceeds, TurnInterrupted, TurnFails, LoopInv, InFlight
  <2>2. QED
    BY <1>1, <2>1, ItemType DEF Result
<1>3. \A status \in {"ok", "error", "interrupted"} : TurnRec(status) \in Record
  <2>1. ASSUME NEW r \in Record, NEW text \in UserTexts \cup {NoText}, NEW sent \in BOOLEAN
        PROVE  [r EXCEPT !.input = text, !.sent = sent] \in Record
    BY DEF Record
  <2>2. QED
    BY <1>1, <1>2, <2>1, RecType DEF TurnRec
<1>4. CASE TurnSucceeds
  <2>1. staged' = NoTurn /\ exits /\ failedTurn' \in BOOLEAN
    BY <1>1, <1>4 DEF TurnSucceeds, CommitStaged
  <2>2. staged.trimmed \in Nat /\ result.text \in Replies
    BY <1>4 DEF TurnSucceeds, CommitStaged, LoopInv, TypeOK, ConvTypeOK, StagedTurn
  <2>3. CompletedRec \in Record
    <3>1. ASSUME NEW r \in Record, NEW text \in Replies, NEW n \in Nat
          PROVE  [r EXCEPT !.sent = FALSE, !.output = text, !.trimmed = n] \in Record
      BY DEF Record
    <3>2. QED
      BY <1>3, <2>2, <3>1 DEF CompletedRec
  <2>4. writes
    BY <1>1, <1>4, <2>3, EmitType DEF TurnSucceeds
  <2>5. QED
    BY <1>4, <2>1, <2>4, TurnStepInv DEF TurnSucceeds
<1>5. CASE TurnInterrupted
  <2>1. staged' = NoTurn /\ exits /\ failedTurn' \in BOOLEAN
    BY <1>1, <1>5 DEF TurnInterrupted, Abort, interruptExit
  <2>2. writes
    BY <1>1, <1>3, <1>5, EmitType DEF TurnInterrupted
  <2>3. QED
    BY <1>5, <2>1, <2>2, TurnStepInv DEF TurnInterrupted
<1>6. CASE TurnFails
  <2>1. staged' = NoTurn /\ exits /\ failedTurn' \in BOOLEAN
    BY <1>6 DEF TurnFails, Abort
  <2>2. writes
    BY <1>1, <1>3, <1>6, EmitType DEF TurnFails
  <2>3. QED
    BY <1>6, <2>1, <2>2, TurnStepInv DEF TurnFails
<1>7. QED
  BY <1>4, <1>5, <1>6 DEF EndTurn

LEMMA NextLoopInv ==
    ASSUME LoopInv, [Next]_vars
    PROVE  LoopInv'
<1>1. ConvInv'
  BY StepIsConvStep, ConvNextInv DEF LoopInv
<1>2. CASE UNCHANGED vars
  <2>1. UNCHANGED loopVars /\ UNCHANGED signalVars
    BY <1>2 DEF vars, loopVars
  <2>2. TypeOK'
    <3>1. ConvTypeOK' /\ TypeOK
      BY <1>1 DEF ConvInv, LoopInv
    <3>2. /\ records' \in Seq(Record) /\ writeFailed' \in BOOLEAN
          /\ requests' \in Seq([line : Nat, late : BOOLEAN, messages : Seq(Message)])
          /\ script' \in Seq(Items \cup Ends)
          /\ mailbox' \in Items \cup Ends \cup {NoItem}
      BY <2>1, <3>1 DEF TypeOK, loopVars, recordVars
    <3>3. /\ cur' \in Items \cup Ends \cup {NoItem} /\ lineNo' \in Nat
          /\ failedTurn' \in BOOLEAN /\ exitCode' \in ExitCodes /\ result' \in Result
          /\ pc' \in {"top", "read", "streaming", "returned", "exited"}
      BY <2>1, <3>1 DEF TypeOK, ExitCodes, loopVars, sessionVars
    <3>4. QED
      BY <2>1, <3>1, <3>2, <3>3 DEF TypeOK, ExitCodes, signalVars
  <2>3. QED
    BY <1>1, <2>1, <2>2 DEF LoopInv, loopVars, sessionVars, convVars, StagedIffInFlight,
                            InFlight
<1>3. CASE TopCancelled \/ ReadInterrupted
  BY <1>1, <1>3, CancelStepInv
<1>4. CASE StartRead \/ DeliverLine
  BY <1>1, <1>4, ReadStepInv
<1>5. CASE \/ InputEnds \/ InputBreaks \/ BlankLine \/ LineTooLong
           \/ Quit \/ ClearCommand \/ UnknownCommand \/ StageRefused
  BY <1>1, <1>5, LineStepsInv
<1>6. CASE StartTurn
  BY <1>1, <1>6, StartTurnInv
<1>7. CASE AnyStreamReturn
  BY <1>1, <1>7, StreamReturnsInv
<1>8. CASE EndTurn
  BY <1>1, <1>8, EndTurnInv
<1>9. CASE Handler \/ \E sig \in Signals : SignalArrives(sig)
  BY <1>1, <1>9, SignalStepInv
<1>10. CASE Exited
  BY <1>2, <1>10 DEF Exited
<1>11. QED
  BY <1>2, <1>3, <1>4, <1>5, <1>6, <1>7, <1>8, <1>9, <1>10 DEF Next, ReadSteps

LEMMA LoopInvAlways == Spec => []LoopInv
  BY InitLoopInv, NextLoopInv, PTL DEF Spec

-----------------------------------------------------------------------------
(* The results about the loop.                                             *)

\* Type correctness of whole sessions.
THEOREM ReplTypeCorrect == Spec => []TypeOK
<1>1. LoopInv => TypeOK
  BY DEF LoopInv
<1>2. QED
  BY <1>1, LoopInvAlways, PTL

\* The session loop implements Conversation: every session makes its calls of
\* Stage, Commit, Abort and Clear as that module allows.
THEOREM SessionsUseConversation == Spec => ConvSpec
<1>1. Init => ConvInit
  BY DEF Init
<1>2. LoopInv /\ [Next]_vars => [ConvNext]_convVars
  BY StepIsConvStep
<1>3. QED
  BY <1>1, <1>2, LoopInvAlways, PTL DEF Spec, ConvSpec

\* In every session: the history a commit leaves is at most one reply over a
\* request that was checked to fit the budget.
THEOREM SessionHistoryBounded == Spec => []HistoryWasARequest
  BY SessionsUseConversation, HistoryBoundedAlways, PTL

\* In every session, whatever fails or is interrupted in it, a turn is staged
\* exactly while its request is in flight.
THEOREM StagedAlwaysInFlight == Spec => []StagedIffInFlight
<1>1. LoopInv => StagedIffInFlight
  BY DEF LoopInv
<1>2. QED
  BY <1>1, LoopInvAlways, PTL

-----------------------------------------------------------------------------
(* The first signal.                                                       *)

\* While the signal goroutine waits, its channel holds the first signal or
\* nothing has been sent; afterwards it has the first signal in hand, stores
\* it before it cancels, and a result says "canceled" only when it has.
SignalInv ==
    /\ handler = "waiting" => sigs = firstSig
    /\ handler # "waiting" => held = firstSig /\ firstSig # ""
    /\ handler \in {"stored", "done"} => cause = firstSig
    /\ cancelled => handler = "done"
    /\ result.outcome = "canceled" => cancelled
    /\ FirstSignalDecides

LEMMA InitSignalInv == Init => SignalInv
<1> SUFFICES ASSUME Init PROVE SignalInv
  OBVIOUS
<1>1. exitCode \notin {ExitInterrupt, ExitTerminated}
  <2>1. exitCode = Running
    BY DEF Init
  <2>2. QED
    BY <2>1 DEF Running, ExitInterrupt, ExitTerminated
<1>2. /\ handler = "waiting" /\ sigs = firstSig /\ ~cancelled
      /\ result.outcome # "canceled"
  BY DEF Init, NoResult
<1>3. QED
  BY <1>1, <1>2 DEF SignalInv, FirstSignalDecides

\* A loop step that exits with a signal's status does so once ctx is done.
LEMMA LoopStepSignal ==
    ASSUME LoopInv, SignalInv, UNCHANGED signalVars,
           result' = result \/ (result'.outcome = "canceled" => cancelled),
           \/ exitCode' \in {exitCode, Running, ExitOK, ExitError}
           \/ exitCode' = interruptExit /\ cancelled
    PROVE  SignalInv'
<1>1. result'.outcome = "canceled" => cancelled
  BY DEF SignalInv
<1>2. FirstSignalDecides'
  <2>1. CASE exitCode' = exitCode
    BY <2>1 DEF SignalInv, FirstSignalDecides, signalVars
  <2>2. CASE exitCode' \in {Running, ExitOK, ExitError}
    <3>1. exitCode' \notin {ExitInterrupt, ExitTerminated}
      BY <2>2 DEF Running, ExitOK, ExitError, ExitInterrupt, ExitTerminated
    <3>2. QED
      BY <3>1 DEF FirstSignalDecides
  <2>3. CASE exitCode' = interruptExit /\ cancelled
    <3>1. cause = firstSig /\ firstSig # ""
      BY <2>3 DEF SignalInv
    <3>2. QED
      BY <2>3, <3>1 DEF interruptExit, FirstSignalDecides, signalVars
  <2>4. QED
    BY <2>1, <2>2, <2>3
<1>3. QED
  BY <1>1, <1>2 DEF SignalInv, signalVars

LEMMA NextSignalInv ==
    ASSUME LoopInv, SignalInv, [Next]_vars
    PROVE  SignalInv'
<1> USE DEF Exit, ExitOrLoop, EofExit
<1>1. CASE UNCHANGED vars
  BY <1>1, LoopStepSignal DEF vars, sessionVars
<1>2. CASE TopCancelled \/ ReadInterrupted
  BY <1>2, LoopStepSignal DEF TopCancelled, ReadInterrupted
<1>3. CASE StartRead \/ DeliverLine
  BY <1>3, LoopStepSignal DEF StartRead, DeliverLine, sessionVars
<1>4. CASE InputEnds \/ InputBreaks \/ BlankLine
  BY <1>4, LoopStepSignal DEF InputEnds, InputBreaks, BlankLine, Receive
<1>5. CASE LineTooLong \/ Quit \/ ClearCommand
  BY <1>5, LoopStepSignal DEF LineTooLong, Quit, ClearCommand, Receive
<1>6. CASE UnknownCommand \/ StageRefused \/ StartTurn
  BY <1>6, LoopStepSignal DEF UnknownCommand, StageRefused, StartTurn, Receive
<1>7. CASE AnyStreamReturn
  <2>1. /\ result'.outcome = "canceled" => cancelled
        /\ exitCode' = exitCode /\ UNCHANGED signalVars
    BY <1>7 DEF AnyStreamReturn, StreamReturns
  <2>2. QED
    BY <2>1, LoopStepSignal
<1>8. CASE TurnSucceeds \/ TurnFails
  BY <1>8, LoopStepSignal DEF TurnSucceeds, TurnFails, TurnOver
<1>9. CASE TurnInterrupted
  <2>1. cancelled
    BY <1>9 DEF TurnInterrupted, SignalInv
  <2>2. QED
    BY <1>9, <2>1, LoopStepSignal DEF TurnInterrupted, TurnOver
<1>10. ASSUME NEW sig \in Signals, SignalArrives(sig) PROVE SignalInv'
  <2>1. UNCHANGED <<handler, held, cause, cancelled, result, exitCode>>
    BY <1>10 DEF SignalArrives, loopVars, sessionVars
  <2>2. /\ sig # ""
        /\ sigs' = IF sigs = "" THEN sig ELSE sigs
        /\ firstSig' = IF firstSig = "" THEN sig ELSE firstSig
    BY <1>10, Zenon DEF SignalArrives, Signals
  <2>3. QED
    BY <2>1, <2>2 DEF SignalInv, FirstSignalDecides
<1>11. CASE Handler
  <2>1. result' = result /\ exitCode' = exitCode /\ firstSig' = firstSig
    BY <1>11 DEF Handler, HandlerReceives, HandlerStores, HandlerCancels, loopVars,
                 sessionVars
  <2>2. FirstSignalDecides'
    BY <2>1 DEF SignalInv, FirstSignalDecides
  <2>3. CASE HandlerReceives
    BY <2>1, <2>2, <2>3 DEF HandlerReceives, SignalInv
  <2>4. CASE HandlerStores
    BY <2>1, <2>2, <2>4 DEF HandlerStores, SignalInv
  <2>5. CASE HandlerCancels
    BY <2>1, <2>2, <2>5 DEF HandlerCancels, SignalInv
  <2>6. QED
    BY <1>11, <2>3, <2>4, <2>5 DEF Handler
<1>12. CASE Exited
  BY <1>1, <1>12 DEF Exited
<1>13. QED
  BY <1>1, <1>2, <1>3, <1>4, <1>5, <1>6, <1>7, <1>8, <1>9, <1>10, <1>11, <1>12
     DEF Next, ReadSteps, EndTurn

\* A run stopped by a signal exits with the status of the first one, however
\* many signals are sent and wherever they find the loop.
THEOREM FirstSignalAlwaysDecides == Spec => []FirstSignalDecides
<1>1. Init => LoopInv /\ SignalInv
  BY InitLoopInv, InitSignalInv
<1>2. LoopInv /\ SignalInv /\ [Next]_vars => (LoopInv /\ SignalInv)'
  BY NextLoopInv, NextSignalInv
<1>3. LoopInv /\ SignalInv => FirstSignalDecides
  BY DEF SignalInv
<1>4. QED
  BY <1>1, <1>2, <1>3, PTL DEF Spec

=============================================================================
