------------------------------ MODULE StreamProofs ------------------------------
(***************************************************************************)
(* Proofs about Stream, for any limits, idle time and number of events:    *)
(* the text, the outcome, who is blamed for it, and what Repl relies on.   *)
(***************************************************************************)
EXTENDS Stream, TLAPS

-----------------------------------------------------------------------------
(* The inductive invariant.                                                *)

Decoding == {"top", "top2", "reading", "output", "error", "error2"}

\* Before Do returns nothing watches the stream; a connection that is gone was
\* ended by the server or closed because the stream's context is done.
Phases ==
    /\ pc = "done" <=> outcome # "none"
    /\ pc = "done" => clock = Off /\ closer # "armed"
    /\ pc \in {"start", "dialing"} => conn = "none"
    /\ pc \in {"start", "dialing", "waiting"} => closer = "off" /\ clock = Off /\ ~fired
    /\ pc = "waiting" => conn # "none"
    /\ pc \in Decoding => conn # "none" /\ header = "ok"
    /\ pc = "draining" => header = "refused"
    /\ pc \in {"error", "error2"} => conn # "open"
    /\ conn \in Lost => ended = conn
    /\ conn = "closed" /\ pc # "done" => closer = "ran"
    /\ closer = "ran" => streamDone

\* What the goroutine of the callback has told doStream.
Told ==
    /\ pc \in {"start", "dialing"} => write = "none"
    /\ requestSent => write = "ok"
    /\ sent => requestSent
    /\ lateStart => parentDone /\ pc \in {"start", "done"}

\* Each outcome with its cause.
Causes ==
    /\ outcome = "canceled" => parentDone
    /\ outcome = "idle" => streamDone \/ ended = "timeout"
    /\ outcome = "truncated" => ended = "fin" /\ ~streamDone
    /\ lateStart /\ pc = "done" => outcome = "canceled" /\ ~sent

\* An event decoded late is the last one before the top of the loop.
Late ==
    /\ lateEvents \in {0, 1}
    /\ lateEvents = 1 => streamDone /\ pc \in {"top", "top2", "output", "done"}

\* The deltas and the events decoded so far.
Text ==
    /\ TextIsTheStream
    /\ pc \notin {"output", "done"} => printed = assembled
    /\ pc = "output" => assembled # <<>> /\ assembled = Append(printed, assembled[Len(assembled)])
    /\ outcome # "failed" => total <= MaxStream
    /\ \A i \in 1..total : stream[i] \in {"done", "bad"} => i = total /\ outcome \in {"ok", "failed"}
    /\ outcome # "failed" /\ finish # "bad" =>
          \A i \in 1..total :
              stream[i] = "finishBad" => \E j \in (i + 1)..total : stream[j] = "finishOk"
    /\ outcome = "ok" =>
          total > 0 /\ stream[total] = "done" /\ printed = assembled /\ finish # "bad"

StreamInv == TypeOK /\ Phases /\ Told /\ Causes /\ Late /\ Text

LEMMA InitStreamInv == Init => StreamInv
<1> SUFFICES ASSUME Init PROVE StreamInv
  OBVIOUS
<1> USE DEF Init
<1>1. TypeOK
  <2>1. stream \in Seq(Kinds) /\ Len(stream) = 0 /\ assembled \in Seq(Nat) /\ printed \in Seq(Nat)
    OBVIOUS
  <2>2. nread \in 0..Len(stream) /\ total \in 0..nread /\ silence \in 0..IdleTicks
    BY <2>1, StreamAssumption
  <2>3. QED
    BY <2>1, <2>2 DEF TypeOK, Outcomes
<1>2. Phases /\ Told /\ Causes /\ Late
  BY DEF Phases, Told, Causes, Late, Decoding, streamDone, Lost
<1>3. Text
  BY StreamAssumption DEF Text, TextIsTheStream, Assembled, DeltasUpTo
<1>4. QED
  BY <1>1, <1>2, <1>3 DEF StreamInv

-----------------------------------------------------------------------------
(* Types.                                                                  *)

\* Returning keeps the types of what it assigns.
LEMMA ReturnsType ==
    ASSUME TypeOK, NEW class \in Outcomes, NEW wasSent \in BOOLEAN, Returns(class, wasSent)
    PROVE  /\ pc' = "done" /\ outcome' = class /\ sent' = wasSent /\ clock' = Off
           /\ closer' \in {"off", "ran"} /\ conn' \in {"none", "closed"}
           /\ UNCHANGED <<requestSent, write, header, stream, silence, ended, nread, fired,
                          quiet, parentDone, lateStart>>
  BY DEF Returns, TypeOK

LEMMA ReturnsKeepsType ==
    ASSUME TypeOK, NEW class \in Outcomes, NEW wasSent \in BOOLEAN, Returns(class, wasSent),
           UNCHANGED decodeVars
    PROVE  TypeOK'
  BY ReturnsType DEF TypeOK, decodeVars, Outcomes

LEMMA NextTypeOK ==
    ASSUME TypeOK, Text, [Next]_vars
    PROVE  TypeOK'
<1> USE StreamAssumption DEF Outcomes
<1>1. CASE UNCHANGED vars
  BY <1>1 DEF TypeOK, vars, resultVars, netVars, decodeVars, timerVars
<1>2. CASE Do
  <2>1. ASSUME DoFails PROVE TypeOK'
    BY <2>1, ReturnsKeepsType DEF DoFails, TypeOK
  <2>2. CASE DoStarts
    BY <2>2 DEF DoStarts, TypeOK, resultVars, netVars, decodeVars, timerVars
  <2>3. CASE Connects
    BY <2>3 DEF Connects, TypeOK, resultVars, netVars, decodeVars, timerVars
  <2>4. CASE DoReturns
    BY <2>4 DEF DoReturns, TypeOK, resultVars, netVars, decodeVars, timerVars
  <2>5. QED
    BY <1>2, <2>1, <2>2, <2>3, <2>4 DEF Do, DoRefused, DialFails, WaitFails, RedirectRefused
<1>3. CASE DrainEnds
  BY <1>3, ReturnsKeepsType DEF DrainEnds, TypeOK
<1>4. CASE TopParent \/ TopIdle \/ ErrorParent \/ ErrorIdle
  <2>1. CASE pc' \in {"top2", "reading", "error2"} /\ stay
    BY <2>1 DEF stay, TypeOK, resultVars, netVars, decodeVars, timerVars
  <2>2. CASE \E class \in Outcomes : DecodeReturns(class) /\ UNCHANGED decodeVars
    BY <2>2, ReturnsKeepsType DEF DecodeReturns, TypeOK
  <2>3. CASE TopParent \/ TopIdle \/ ErrorParent
    BY <2>1, <2>2, <2>3 DEF TopParent, TopIdle, ErrorParent
  <2>4. CASE ErrorIdle
    BY <2>2, <2>4 DEF ErrorIdle
  <2>5. QED
    BY <1>4, <2>3, <2>4
<1>5. CASE ReadsBytes
  <2>1. PICK n \in 1..Readable : nread' = nread + n
    BY <1>5 DEF ReadsBytes
  <2>2. nread' \in 0..Len(stream)
    BY <2>1 DEF Readable, TypeOK
  <2>3. clock' \in {clock, 0}
    BY <1>5 DEF ReadsBytes, resetIdle
  <2>4. QED
    BY <1>5, <2>1, <2>2, <2>3 DEF ReadsBytes, TypeOK, resultVars, netVars, decodeVars
<1>6. CASE ReadError
  BY <1>6 DEF ReadError, stay, TypeOK, resultVars, netVars, decodeVars, timerVars
<1>7. CASE \E kind \in Kinds : EventFails(kind) \/ Textless(kind)
  <2>0. ASSUME NEW kind \in Kinds, Event(kind)
        PROVE  total' \in 0..nread /\ lateEvents' \in Nat
    <3>1. total \in Nat /\ nread \in Nat /\ lateEvents \in Nat
      BY DEF TypeOK
    <3>2. QED
      BY <2>0, <3>1 DEF Event
  <2>1. PICK kind \in Kinds : EventFails(kind) \/ Textless(kind)
    BY <1>7
  <2>2. CASE EventFails(kind)
    <3>1. DecodeReturns("failed") /\ total' \in 0..nread /\ lateEvents' \in Nat
      BY <2>0, <2>2 DEF EventFails
    <3>2. QED
      BY <2>2, <3>1, ReturnsType DEF EventFails, DecodeReturns, TypeOK
  <2>3. CASE Textless(kind)
    <3>1. pc' = "top" /\ total' \in 0..nread /\ lateEvents' \in Nat
      BY <2>0, <2>3 DEF Textless
    <3>2. sawChoice' \in BOOLEAN /\ finish' \in {"none", "ok", "bad"}
      BY <2>3 DEF Textless, TypeOK
    <3>3. UNCHANGED <<resultVars, requestSent, netVars, nread, assembled, printed, flushFailed,
                     timerVars, closer, parentDone, lateStart>>
      BY <2>3 DEF Textless
    <3>4. QED
      BY <3>1, <3>2, <3>3 DEF TypeOK, resultVars, netVars, timerVars
  <2>4. QED
    BY <2>1, <2>2, <2>3
<1>8. CASE Delta
  BY <1>8 DEF Delta, Event, TypeOK, resultVars, netVars, timerVars
<1>9. CASE Completes
  <2>1. DecodeReturns("ok") /\ total' \in 0..nread /\ lateEvents' \in Nat
    BY <1>9 DEF Completes, Event, TypeOK
  <2>2. QED
    BY <1>9, <2>1, ReturnsType DEF Completes, DecodeReturns, TypeOK
<1>19. CASE FlushFails
  <2>1. DecodeReturns("failed") /\ total' \in 0..nread /\ lateEvents' \in Nat
    BY <1>19 DEF FlushFails, Event, TypeOK
  <2>2. QED
    BY <1>19, <2>1, ReturnsType DEF FlushFails, DecodeReturns, TypeOK
<1>10. CASE OutputFails
  BY <1>10, ReturnsKeepsType DEF OutputFails, DecodeReturns, TypeOK
<1>11. CASE OutputWritten
  <2>1. assembled[Len(assembled)] \in Nat
    BY <1>11 DEF OutputWritten, Text, TypeOK
  <2>2. QED
    BY <1>11, <2>1 DEF OutputWritten, TypeOK, resultVars, netVars, timerVars
<1>12. CASE RequestWritten \/ WroteRequest \/ WriteFails
  <2>1. CASE RequestWritten
    BY <2>1 DEF RequestWritten, beside, TypeOK, resultVars, decodeVars, timerVars
  <2>2. CASE WroteRequest
    BY <2>2 DEF WroteRequest, beside, TypeOK, resultVars, decodeVars, timerVars
  <2>3. CASE WriteFails
    BY <2>3 DEF WriteFails, beside, TypeOK, resultVars, decodeVars, timerVars
  <2>4. QED
    BY <1>12, <2>1, <2>2, <2>3
<1>13. CASE TimerFires \/ CloserRuns \/ ParentCancels
  <2>1. CASE TimerFires
    BY <2>1 DEF TimerFires, beside, TypeOK, resultVars, decodeVars, netVars
  <2>2. CASE CloserRuns
    BY <2>2 DEF CloserRuns, beside, TypeOK, resultVars, decodeVars, timerVars
  <2>3. CASE ParentCancels
    BY <2>3 DEF ParentCancels, beside, TypeOK, resultVars, decodeVars, netVars, timerVars
  <2>4. QED
    BY <1>13, <2>1, <2>2, <2>3
<1>14. CASE Tick
  <2>1. clock' \in 0..IdleTicks /\ silence' \in 0..IdleTicks /\ quiet' \in BOOLEAN
    BY <1>14 DEF Tick, TypeOK, Off
  <2>2. QED
    BY <1>14, <2>1 DEF Tick, beside, TypeOK, resultVars, decodeVars
<1>15. CASE \E kind \in {"ok", "refused", "redirect"} : ServerAnswers(kind)
  BY <1>15 DEF ServerAnswers, beside, TypeOK, resultVars, decodeVars, timerVars
<1>16. CASE \E kind \in Kinds : ServerSends(kind)
  BY <1>16 DEF ServerSends, beside, TypeOK, resultVars, decodeVars, timerVars
<1>17. CASE \E how \in Lost : ServerEnds(how)
  BY <1>17 DEF ServerEnds, beside, TypeOK, resultVars, decodeVars, timerVars
<1>18. QED
  BY <1>1, <1>2, <1>3, <1>4, <1>5, <1>6, <1>7, <1>8, <1>9, <1>10, <1>11, <1>12, <1>13, <1>14,
     <1>15, <1>16, <1>17, <1>19 DEF Next, Decode, Output, Finished

-----------------------------------------------------------------------------
(* Phases, what the callback told, causes and promptness.                  *)

\* What a step of the goroutines beside the call leaves alone.
LEMMA BesideStep ==
    ASSUME Phases, Told, Causes, Late, beside, TypeOK,
           RequestWritten \/ WroteRequest \/ WriteFails \/ TimerFires \/ CloserRuns
               \/ ParentCancels \/ Tick
               \/ (\E kind \in {"ok", "refused", "redirect"} : ServerAnswers(kind))
               \/ (\E kind \in Kinds : ServerSends(kind))
               \/ (\E how \in Lost : ServerEnds(how))
    PROVE  Phases' /\ Told' /\ Causes' /\ Late'
<1> USE DEF beside, Phases, Told, Causes, Late, resultVars, decodeVars, streamDone, Decoding, Lost
<1>1. CASE RequestWritten
  BY <1>1 DEF RequestWritten, timerVars
<1>2. CASE WroteRequest
  BY <1>2 DEF WroteRequest, timerVars
<1>3. CASE WriteFails
  BY <1>3 DEF WriteFails, timerVars
<1>4. CASE TimerFires
  <2>1. pc # "done" /\ pc \notin {"start", "dialing", "waiting"}
    BY <1>4, StreamAssumption DEF TimerFires, Off
  <2>2. QED
    BY <1>4, <2>1 DEF TimerFires, netVars
<1>5. CASE CloserRuns
  BY <1>5 DEF CloserRuns, timerVars
<1>6. CASE ParentCancels
  BY <1>6 DEF ParentCancels, netVars, timerVars
<1>7. CASE Tick
  BY <1>7 DEF Tick
<1>8. CASE \E kind \in {"ok", "refused", "redirect"} : ServerAnswers(kind)
  BY <1>8 DEF ServerAnswers, timerVars
<1>9. CASE \E kind \in Kinds : ServerSends(kind)
  BY <1>9 DEF ServerSends, timerVars
<1>10. CASE \E how \in Lost : ServerEnds(how)
  BY <1>10 DEF ServerEnds, timerVars
<1>11. QED
  BY <1>1, <1>2, <1>3, <1>4, <1>5, <1>6, <1>7, <1>8, <1>9, <1>10

\* A return ends the call with the outcome it gives.
LEMMA ReturnStep ==
    ASSUME TypeOK, Phases, Told, Late, pc # "done",
           NEW class \in Outcomes \ {"none"}, NEW wasSent \in BOOLEAN, Returns(class, wasSent),
           wasSent => requestSent,
           class = "canceled" => parentDone,
           class = "idle" => streamDone \/ ended = "timeout",
           class = "truncated" => ended = "fin" /\ ~streamDone,
           lateStart => class = "canceled" /\ ~wasSent,
           lateEvents' = lateEvents \/ (pc = "reading" /\ lateEvents' \in {0, 1}
                                         /\ (lateEvents' = 1 => streamDone))
    PROVE  Phases' /\ Told' /\ Causes' /\ Late'
<1>1. /\ pc' = "done" /\ outcome' = class /\ sent' = wasSent /\ clock' = Off
      /\ closer' \in {"off", "ran"} /\ conn' \in {"none", "closed"}
      /\ UNCHANGED <<requestSent, write, header, stream, silence, ended, nread, fired,
                     quiet, parentDone, lateStart>>
  BY ReturnsType DEF Outcomes
<1>2. closer' = "ran" => closer = "ran"
  BY DEF Returns
<1>3. Phases' /\ Told'
  BY <1>1, <1>2 DEF Phases, Told, streamDone, Decoding, Lost
<1>4. Causes'
  BY <1>1 DEF Causes, streamDone
<1>5. Late'
  BY <1>1 DEF Late, streamDone
<1>6. QED
  BY <1>3, <1>4, <1>5

LEMMA NextPhases ==
    ASSUME StreamInv, [Next]_vars
    PROVE  Phases' /\ Told' /\ Causes' /\ Late'
<1> USE DEF StreamInv
<1>1. CASE UNCHANGED vars
  BY <1>1 DEF vars, resultVars, netVars, decodeVars, timerVars, Phases, Told, Causes, Late,
              streamDone, Decoding
<1>2. CASE Do
  <2>1. ASSUME DoFails, pc # "done", lateStart => parentDone
        PROVE  Phases' /\ Told' /\ Causes' /\ Late'
    <3> DEFINE class == IF parentDone THEN "canceled" ELSE "failed"
    <3>1. /\ Returns(class, requestSent) /\ lateEvents' = lateEvents
          /\ class \in Outcomes \ {"none"} /\ (class = "canceled" => parentDone)
          /\ class # "idle" /\ class # "truncated"
      BY <2>1 DEF DoFails, decodeVars, Outcomes
    <3>2. lateStart => class = "canceled" /\ ~requestSent
      BY <2>1 DEF Told
    <3>3. requestSent \in BOOLEAN
      BY DEF TypeOK
    <3> HIDE DEF class
    <3>4. QED
      BY <2>1, <3>1, <3>2, <3>3, ReturnStep
  <2>2. lateStart => parentDone
    BY DEF Told
  <2>3. CASE DoStarts
    BY <2>3 DEF DoStarts, resultVars, netVars, decodeVars, timerVars, Phases, Told, Causes, Late,
                streamDone, Decoding, Lost
  <2>4. CASE Connects
    BY <2>4 DEF Connects, resultVars, netVars, decodeVars, timerVars, Phases, Told, Causes, Late,
                streamDone, Decoding, Lost
  <2>5. CASE DoReturns
    BY <2>5 DEF DoReturns, resultVars, netVars, decodeVars, timerVars, Phases, Told, Causes, Late,
                streamDone, Decoding, TypeOK, Off
  <2>6. QED
    BY <1>2, <2>1, <2>2, <2>3, <2>4, <2>5 DEF Do, DoRefused, DialFails, WaitFails, RedirectRefused
<1>3. CASE DrainEnds
  <2>1. Returns("failed", sent) /\ lateEvents' = lateEvents /\ pc = "draining" /\ sent \in BOOLEAN
    BY <1>3 DEF DrainEnds, decodeVars, TypeOK
  <2>2. (sent => requestSent) /\ ~lateStart
    BY <2>1 DEF Told
  <2>3. QED
    BY <2>1, <2>2, ReturnStep DEF Outcomes
<1>4. CASE TopParent \/ TopIdle \/ ErrorParent \/ ErrorIdle
  <2>1. CASE /\ pc \in {"top", "top2", "error"} /\ stay
             /\ \/ pc = "top" /\ ~parentDone /\ pc' = "top2"
                \/ pc = "top2" /\ ~streamDone /\ pc' = "reading"
                \/ pc = "error" /\ ~parentDone /\ pc' = "error2"
    BY <2>1 DEF stay, resultVars, netVars, decodeVars, timerVars, Phases, Told, Causes, Late,
                streamDone, Decoding
  <2>2. ASSUME NEW class \in {"canceled", "idle", "truncated", "failed"},
               pc \in Decoding, DecodeReturns(class), UNCHANGED decodeVars,
               class = "canceled" => parentDone,
               class = "idle" => streamDone \/ ended = "timeout",
               class = "truncated" => ended = "fin" /\ ~streamDone
        PROVE  Phases' /\ Told' /\ Causes' /\ Late'
    <3>1. requestSent \in BOOLEAN /\ ~lateStart /\ lateEvents' = lateEvents /\ pc # "done"
      BY <2>2 DEF TypeOK, Told, decodeVars, Decoding
    <3>2. QED
      BY <2>2, <3>1, ReturnStep DEF DecodeReturns, Outcomes
  <2>3. CASE TopParent \/ TopIdle \/ ErrorParent
    BY <2>1, <2>2, <2>3 DEF TopParent, TopIdle, ErrorParent, Decoding
  <2>4. CASE ErrorIdle
    <3>1. pc = "error2" /\ UNCHANGED decodeVars
      BY <2>4 DEF ErrorIdle
    <3>2. conn \in Lost \cup {"closed"} /\ (conn = "closed" => streamDone)
      BY <3>1 DEF Phases, Decoding, TypeOK, Lost
    <3>3. conn \in Lost => ended = conn
      BY DEF Phases
    <3>4. CASE streamDone \/ conn = "timeout"
      <4>1. DecodeReturns("idle")
        BY <2>4, <3>4 DEF ErrorIdle
      <4>2. streamDone \/ ended = "timeout"
        BY <3>3, <3>4 DEF Lost
      <4>3. QED
        BY <2>2, <3>1, <4>1, <4>2 DEF Decoding
    <3>5. CASE ~streamDone /\ conn = "rst"
      <4>1. DecodeReturns("failed")
        BY <2>4, <3>5 DEF ErrorIdle
      <4>2. QED
        BY <2>2, <3>1, <4>1 DEF Decoding
    <3>6. CASE ~streamDone /\ conn = "fin"
      <4>1. DecodeReturns("truncated")
        BY <2>4, <3>6 DEF ErrorIdle
      <4>2. QED
        BY <2>2, <3>1, <3>3, <3>6, <4>1 DEF Decoding, Lost
    <3>7. QED
      BY <3>2, <3>4, <3>5, <3>6 DEF Lost
  <2>5. QED
    BY <1>4, <2>3, <2>4
<1>5. CASE ReadsBytes
  BY <1>5 DEF ReadsBytes, resetIdle, resultVars, netVars, decodeVars, Phases, Told, Causes, Late,
              streamDone, Decoding
<1>6. CASE ReadError
  BY <1>6 DEF ReadError, ReadEnds, stay, resultVars, netVars, decodeVars, timerVars, Phases, Told,
              Causes, Late, streamDone, Decoding
<1>7. ASSUME NEW kind \in Kinds, Event(kind)
      PROVE  /\ lateEvents' \in {0, 1} /\ (lateEvents' = 1 => streamDone)
             /\ pc = "reading" /\ requestSent \in BOOLEAN /\ ~lateStart
  BY <1>7 DEF Event, Late, Told, TypeOK
<1>8. CASE \E kind \in Kinds : EventFails(kind)
  BY <1>7, <1>8, ReturnStep DEF EventFails, DecodeReturns, Outcomes
<1>9. CASE Completes \/ FlushFails
  BY <1>7, <1>9, ReturnStep DEF Completes, FlushFails, DecodeReturns, Outcomes, Kinds
<1>10. CASE \E kind \in Kinds : Textless(kind)
  <2>1. PICK kind \in Kinds : Textless(kind)
    BY <1>10
  <2>2. QED
    BY <1>7, <2>1 DEF Textless, resultVars, netVars, timerVars, Phases, Told, Causes, Late,
                      streamDone, Decoding
<1>11. CASE Delta
  <2>1. "delta" \in Kinds
    BY DEF Kinds
  <2>2. QED
    BY <1>7, <1>11, <2>1 DEF Delta, resultVars, netVars, timerVars, Phases, Told, Causes, Late,
                      streamDone, Decoding
<1>12. CASE OutputWritten
  BY <1>12 DEF OutputWritten, resultVars, netVars, timerVars, Phases, Told, Causes, Late,
               streamDone, Decoding
<1>13. CASE OutputFails
  <2>1. requestSent \in BOOLEAN /\ ~lateStart /\ lateEvents' = lateEvents
    BY <1>13 DEF OutputFails, TypeOK, Told, decodeVars
  <2>2. QED
    BY <1>13, <2>1, ReturnStep DEF OutputFails, DecodeReturns, Outcomes
<1>14. QED
  BY <1>1, <1>2, <1>3, <1>4, <1>5, <1>6, <1>8, <1>9, <1>10, <1>11, <1>12, <1>13, BesideStep
     DEF Next, Decode, Output, Finished, RequestWritten, WroteRequest, WriteFails, TimerFires,
         CloserRuns, ParentCancels, Tick, ServerAnswers, ServerSends, ServerEnds

-----------------------------------------------------------------------------
(* The text.                                                               *)

\* A step that decodes nothing keeps the text, whatever it does to the rest.
LEMMA TextKept ==
    ASSUME TypeOK, Phases, Text,
           UNCHANGED <<total, assembled, printed, finish>>,
           \A i \in 1..total : stream'[i] = stream[i],
           pc' # pc => pc # "done" /\ pc' # "output" /\ (pc = "output" => pc' = "done"),
           outcome' = outcome \/ (outcome = "none" /\ outcome' # "ok")
    PROVE  Text'
<1>1. /\ DeltasUpTo(total)' = DeltasUpTo(total) /\ DeltasUpTo(total - 1)' = DeltasUpTo(total - 1)
      /\ Assembled' = Assembled
  <2>1. total \in Nat /\ (total - 1)' = total - 1
    BY DEF TypeOK
  <2>2. \A i \in 1..(total - 1) : i \in 1..total
    BY <2>1
  <2>3. DeltasUpTo(total)' = DeltasUpTo(total)
    BY DEF DeltasUpTo
  <2>4. DeltasUpTo(total - 1)' = DeltasUpTo(total - 1)
    BY <2>1, <2>2 DEF DeltasUpTo
  <2>5. QED
    BY <2>3, <2>4 DEF Assembled
<1>2. outcome # "failed" \/ outcome' = "failed"
  OBVIOUS
<1>3. TextIsTheStream'
  BY <1>1, <1>2 DEF Text, TextIsTheStream
<1>4. \A i \in 1..total :
         stream[i] \in {"done", "bad"} => i = total /\ outcome' \in {"ok", "failed"}
  BY DEF Text
<1>5. outcome' # "failed" /\ finish # "bad" =>
         \A i \in 1..total :
             stream[i] = "finishBad" => \E j \in (i + 1)..total : stream[j] = "finishOk"
  BY <1>2 DEF Text
<1>6. \A i \in 1..total : \A j \in (i + 1)..total : j \in 1..total
  BY DEF TypeOK
<1>7. outcome' = "ok" =>
         total > 0 /\ stream'[total] = "done" /\ printed = assembled /\ finish # "bad"
  BY DEF Text, TypeOK
<1>8. /\ pc' \notin {"output", "done"} => printed = assembled
      /\ pc' = "output" => assembled # <<>> /\ assembled = Append(printed, assembled[Len(assembled)])
      /\ outcome' # "failed" => total <= MaxStream
  BY <1>2 DEF Text
<1>9. \A i \in 1..total :
         stream'[i] \in {"done", "bad"} => i = total /\ outcome' \in {"ok", "failed"}
  BY <1>4
<1>10. outcome' # "failed" /\ finish # "bad" =>
         \A i \in 1..total :
             stream'[i] = "finishBad" => \E j \in (i + 1)..total : stream'[j] = "finishOk"
  BY <1>5, <1>6
<1>11. QED
  BY <1>3, <1>7, <1>8, <1>9, <1>10 DEF Text

\* What an event adds to the positions.
LEMMA EventStep ==
    ASSUME TypeOK, Phases, Text, NEW kind \in Kinds, Event(kind), stream' = stream
    PROVE  /\ total' = total + 1 /\ total \in Nat /\ pc = "reading" /\ outcome = "none"
           /\ stream[total + 1] = kind /\ printed = assembled /\ total <= MaxStream
           /\ DeltasUpTo(total - 1)' = DeltasUpTo(total) /\ Assembled = DeltasUpTo(total)
           /\ DeltasUpTo(total)' = DeltasUpTo(total) \cup
                                      (IF kind = "delta" THEN {total + 1} ELSE {})
           /\ \A i \in 1..total : stream[i] \notin {"done", "bad"}
<1>1. total' = total + 1 /\ total \in Nat /\ pc = "reading" /\ stream[total + 1] = kind
  BY DEF Event, TypeOK
<1>2. outcome = "none"
  BY <1>1 DEF Phases
<1>3. /\ DeltasUpTo(total - 1)' = DeltasUpTo(total)
      /\ DeltasUpTo(total)' = DeltasUpTo(total) \cup (IF kind = "delta" THEN {total + 1} ELSE {})
  BY <1>1 DEF DeltasUpTo
<1>4. QED
  BY <1>1, <1>2, <1>3 DEF Text, TextIsTheStream

LEMMA EventFailsText ==
    ASSUME TypeOK, Phases, Text, NEW kind \in Kinds, EventFails(kind)
    PROVE  Text'
<1>1. pc' = "done" /\ outcome' = "failed" /\ UNCHANGED <<stream, assembled, printed, finish>>
  BY ReturnsType DEF EventFails, DecodeReturns, Returns
<1>2. Event(kind)
  BY DEF EventFails
<1>3. TextIsTheStream'
  BY <1>1, <1>2, EventStep DEF Text, TextIsTheStream, Assembled
<1>4. \A i \in 1..total' : stream'[i] \in {"done", "bad"} => i = total'
  BY <1>1, <1>2, EventStep
<1>5. QED
  BY <1>1, <1>3, <1>4 DEF Text

LEMMA CompletesText ==
    ASSUME TypeOK, Phases, Text, Completes
    PROVE  Text'
<1>1. pc' = "done" /\ outcome' = "ok" /\ UNCHANGED <<stream, assembled, printed, finish>>
  BY DEF Completes, DecodeReturns, Returns
<1>2. Event("done") /\ "done" \in Kinds /\ finish # "bad" /\ ~TooMuch
  BY DEF Completes, Kinds
<1>3. TextIsTheStream'
  BY <1>1, <1>2, EventStep DEF Text, TextIsTheStream, Assembled
<1>4. total' <= MaxStream /\ total' > 0 /\ stream'[total'] = "done" /\ printed' = assembled'
  BY <1>1, <1>2, EventStep, StreamAssumption DEF TooMuch
<1>5. \A i \in 1..total' : stream'[i] \in {"done", "bad"} => i = total'
  BY <1>1, <1>2, EventStep
<1>6. \A i \in 1..total' :
         stream'[i] = "finishBad" => \E j \in (i + 1)..total' : stream'[j] = "finishOk"
  <2> SUFFICES ASSUME NEW i \in 1..total', stream'[i] = "finishBad"
               PROVE  \E j \in (i + 1)..total' : stream'[j] = "finishOk"
    OBVIOUS
  <2>1. total' = total + 1 /\ total \in Nat /\ stream[total + 1] = "done" /\ outcome = "none"
    BY <1>1, <1>2, EventStep
  <2>2. i \in 1..total /\ stream[i] = "finishBad"
    BY <1>1, <2>1
  <2>3. PICK j \in (i + 1)..total : stream[j] = "finishOk"
    BY <1>2, <2>1, <2>2 DEF Text
  <2>4. QED
    BY <1>1, <2>1, <2>3
<1>7. QED
  BY <1>1, <1>2, <1>3, <1>4, <1>5, <1>6 DEF Text

LEMMA FlushFailsText ==
    ASSUME TypeOK, Phases, Text, FlushFails
    PROVE  Text'
<1>1. pc' = "done" /\ outcome' = "failed" /\ UNCHANGED <<stream, assembled, printed, finish>>
  BY DEF FlushFails, DecodeReturns, Returns
<1>2. Event("done") /\ "done" \in Kinds
  BY DEF FlushFails, Kinds
<1>3. TextIsTheStream'
  BY <1>1, <1>2, EventStep DEF Text, TextIsTheStream, Assembled
<1>4. \A i \in 1..total' : stream'[i] \in {"done", "bad"} => i = total'
  BY <1>1, <1>2, EventStep
<1>5. QED
  BY <1>1, <1>3, <1>4 DEF Text

LEMMA TextlessText ==
    ASSUME TypeOK, Phases, Text, NEW kind \in Kinds, Textless(kind)
    PROVE  Text'
<1>1. /\ pc' = "top" /\ UNCHANGED <<stream, assembled, printed, outcome>>
      /\ kind \in {"comment", "role", "finishOk", "finishBad"} /\ Event(kind) /\ ~TooMuch
  BY DEF Textless, resultVars, netVars
<1>2. TextIsTheStream'
  BY <1>1, EventStep DEF Text, TextIsTheStream, Assembled
<1>3. total' <= MaxStream /\ printed' = assembled' /\ outcome' = "none"
  BY <1>1, EventStep, StreamAssumption DEF TooMuch
<1>4. \A i \in 1..total' : stream'[i] \notin {"done", "bad"}
  BY <1>1, EventStep
<1>5. ASSUME finish' # "bad"
      PROVE  \A i \in 1..total' :
                stream'[i] = "finishBad" => \E j \in (i + 1)..total' : stream'[j] = "finishOk"
  <2> SUFFICES ASSUME NEW i \in 1..total', stream'[i] = "finishBad"
               PROVE  \E j \in (i + 1)..total' : stream'[j] = "finishOk"
    OBVIOUS
  <2>1. kind # "finishBad" /\ (kind # "finishOk" => finish # "bad")
    BY <1>1, <1>5 DEF Textless
  <2>2. i \in 1..total /\ stream[i] = "finishBad"
    BY <1>1, <2>1, EventStep
  <2>3. CASE kind = "finishOk"
    BY <1>1, <2>2, <2>3, EventStep
  <2>4. CASE kind # "finishOk"
    <3>1. PICK j \in (i + 1)..total : stream[j] = "finishOk"
      BY <1>1, <2>1, <2>2, <2>4, EventStep DEF Text
    <3>2. QED
      BY <1>1, <3>1, EventStep
  <2>5. QED
    BY <2>3, <2>4
<1>6. QED
  BY <1>1, <1>2, <1>3, <1>4, <1>5 DEF Text

LEMMA DeltaText ==
    ASSUME TypeOK, Phases, Text, Delta
    PROVE  Text'
<1>1. /\ pc' = "output" /\ UNCHANGED <<stream, printed, outcome, finish>>
      /\ assembled' = Append(assembled, total + 1)
      /\ "delta" \in Kinds /\ Event("delta") /\ ~TooMuch /\ ~TooLong
  BY DEF Delta, resultVars, netVars, Kinds
<1>2. /\ total' = total + 1 /\ total \in Nat /\ stream[total + 1] = "delta" /\ outcome' = "none"
      /\ printed = assembled /\ total' <= MaxStream
      /\ \A i \in 1..total : stream[i] \notin {"done", "bad"}
  BY <1>1, EventStep, StreamAssumption DEF TooMuch
<1>3. /\ assembled \in Seq(Nat) /\ Len(assembled') = Len(assembled) + 1
      /\ \A i \in 1..Len(assembled) : assembled'[i] = assembled[i]
      /\ assembled'[Len(assembled')] = total + 1 /\ assembled' # <<>>
      /\ assembled' = Append(printed', assembled'[Len(assembled')])
  BY <1>1, <1>2 DEF TypeOK
<1>4. Assembled' = Assembled \cup {total + 1}
  <2>1. Assembled' = {assembled'[i] : i \in 1..(Len(assembled) + 1)}
    BY <1>3 DEF Assembled
  <2>2. 1..(Len(assembled) + 1) = 1..Len(assembled) \cup {Len(assembled) + 1}
    BY <1>3
  <2>3. Assembled = {assembled'[i] : i \in 1..Len(assembled)}
    BY <1>3 DEF Assembled
  <2>4. assembled'[Len(assembled) + 1] = total + 1
    BY <1>3
  <2>5. QED
    BY <2>1, <2>2, <2>3, <2>4
<1>5. \A i \in 1..Len(assembled) : assembled[i] \in 1..total
  BY <1>1, EventStep DEF Assembled, DeltasUpTo
<1>6. \A i, j \in 1..Len(assembled') : i < j => assembled'[i] < assembled'[j]
  <2> SUFFICES ASSUME NEW i \in 1..Len(assembled'), NEW j \in 1..Len(assembled'), i < j
               PROVE  assembled'[i] < assembled'[j]
    OBVIOUS
  <2>0. Len(assembled) \in Nat /\ Len(assembled') = Len(assembled) + 1
    BY <1>3
  <2>1. i \in 1..Len(assembled)
    BY <2>0
  <2>2. CASE j \in 1..Len(assembled)
    <3>1. assembled[i] < assembled[j]
      BY <2>1, <2>2 DEF Text, TextIsTheStream
    <3>2. QED
      BY <1>3, <2>1, <2>2, <3>1
  <2>3. CASE j = Len(assembled')
    <3>1. assembled'[i] \in 1..total /\ assembled'[j] = total + 1
      BY <1>3, <1>5, <2>1, <2>3
    <3>2. QED
      BY <1>2, <3>1
  <2>4. QED
    BY <2>0, <2>2, <2>3
<1>7. /\ Assembled' = DeltasUpTo(total)' /\ DeltasUpTo(total - 1)' \subseteq Assembled'
      /\ Len(assembled') <= OutputLimit
  BY <1>1, <1>3, <1>4, EventStep, StreamAssumption DEF TooLong
<1>8. TextIsTheStream'
  BY <1>3, <1>6, <1>7 DEF TextIsTheStream
<1>9. \A i \in 1..total' : stream'[i] \notin {"done", "bad"}
  BY <1>1, <1>2
<1>10. ASSUME finish' # "bad"
       PROVE  \A i \in 1..total' :
                 stream'[i] = "finishBad" => \E j \in (i + 1)..total' : stream'[j] = "finishOk"
  <2> SUFFICES ASSUME NEW i \in 1..total', stream'[i] = "finishBad"
               PROVE  \E j \in (i + 1)..total' : stream'[j] = "finishOk"
    OBVIOUS
  <2>1. i \in 1..total /\ stream[i] = "finishBad"
    BY <1>1, <1>2
  <2>2. PICK j \in (i + 1)..total : stream[j] = "finishOk"
    BY <1>1, <1>2, <1>10, <2>1 DEF Text
  <2>3. QED
    BY <1>1, <1>2, <2>2
<1>11. QED
  BY <1>1, <1>2, <1>3, <1>8, <1>9, <1>10 DEF Text

LEMMA OutputText ==
    ASSUME TypeOK, Phases, Text, OutputWritten
    PROVE  Text'
<1>1. /\ pc = "output" /\ pc' = "top" /\ printed' = assembled
      /\ UNCHANGED <<stream, assembled, outcome, finish, total>>
  BY DEF OutputWritten, resultVars, netVars, Text
<1>2. outcome = "none"
  BY <1>1 DEF Phases
<1>3. QED
  BY <1>1, <1>2 DEF Text, TextIsTheStream, Assembled, DeltasUpTo

LEMMA NextText ==
    ASSUME StreamInv, [Next]_vars
    PROVE  Text'
<1> USE DEF StreamInv
<1> DEFINE kept ==
      /\ UNCHANGED <<total, assembled, printed, finish>>
      /\ stream' = stream \/ \E kind \in Kinds : stream' = Append(stream, kind)
      /\ pc' # pc => pc # "done" /\ pc' # "output" /\ (pc = "output" => pc' = "done")
      /\ outcome' = outcome \/ (outcome = "none" /\ outcome' # "ok")
<1>1. ASSUME kept PROVE Text'
  <2>1. stream \in Seq(Kinds) /\ \A i \in 1..total : i \in 1..Len(stream)
    BY DEF TypeOK
  <2>2. CASE \E kind \in Kinds : stream' = Append(stream, kind)
    BY <1>1, <2>1, <2>2, TextKept
  <2>3. QED
    BY <1>1, <2>2, TextKept
<1>2. ASSUME NEW class \in {"canceled", "idle", "truncated", "failed"}, NEW wasSent \in BOOLEAN,
             Returns(class, wasSent), UNCHANGED decodeVars, pc # "done"
      PROVE  kept
  BY <1>2, ReturnsType DEF decodeVars, Outcomes, Phases
<1>3. CASE UNCHANGED vars
  BY <1>1, <1>3 DEF vars, resultVars, netVars, decodeVars, timerVars
<1>4. CASE Do
  <2>1. ASSUME DoFails, pc # "done" PROVE kept
    <3>1. \E class \in {"canceled", "failed"} : Returns(class, requestSent)
      BY <2>1 DEF DoFails
    <3>2. requestSent \in BOOLEAN /\ UNCHANGED decodeVars
      BY <2>1 DEF DoFails, TypeOK
    <3> HIDE DEF kept
    <3>3. QED
      BY <1>2, <2>1, <3>1, <3>2
  <2>2. CASE DoStarts \/ Connects \/ DoReturns
    <3>1. kept
      BY <2>2 DEF DoStarts, Connects, DoReturns, resultVars, netVars, decodeVars, timerVars
    <3>2. QED
      BY <1>1, <3>1
  <2>3. QED
    BY <1>1, <1>4, <2>1, <2>2 DEF Do, DoRefused, DialFails, WaitFails, RedirectRefused
<1>5. CASE DrainEnds \/ OutputFails
  BY <1>1, <1>2, <1>5 DEF DrainEnds, OutputFails, DecodeReturns, TypeOK
<1>6. CASE TopParent \/ TopIdle \/ ErrorParent \/ ErrorIdle \/ ReadError
  <2>1. CASE stay /\ pc' \in {"top2", "reading", "error2", "error"}
                  /\ pc \in {"top", "top2", "error", "reading"}
    BY <1>1, <2>1 DEF stay, resultVars, netVars, decodeVars, timerVars
  <2>2. CASE \E class \in {"canceled", "idle", "truncated", "failed"} :
               DecodeReturns(class) /\ UNCHANGED decodeVars /\ pc # "done"
    BY <1>1, <1>2, <2>2 DEF DecodeReturns, TypeOK
  <2>3. CASE ErrorIdle
    BY <2>2, <2>3 DEF ErrorIdle
  <2>4. CASE TopParent \/ TopIdle \/ ErrorParent \/ ReadError
    BY <2>1, <2>2, <2>4 DEF TopParent, TopIdle, ErrorParent, ReadError
  <2>5. QED
    BY <1>6, <2>3, <2>4
<1>7. CASE ReadsBytes
  BY <1>1, <1>7 DEF ReadsBytes, resultVars, netVars, decodeVars
<1>8. CASE (\E kind \in Kinds : EventFails(kind) \/ Textless(kind)) \/ Delta \/ Completes \/ FlushFails
  BY <1>8, EventFailsText, TextlessText, DeltaText, CompletesText, FlushFailsText
<1>9. CASE OutputWritten
  BY <1>9, OutputText
<1>10. CASE RequestWritten \/ WroteRequest \/ WriteFails \/ TimerFires \/ CloserRuns
              \/ ParentCancels \/ Tick
              \/ (\E kind \in {"ok", "refused", "redirect"} : ServerAnswers(kind))
              \/ (\E kind \in Kinds : ServerSends(kind))
              \/ (\E how \in Lost : ServerEnds(how))
  <2>1. beside /\ (stream' = stream \/ \E kind \in Kinds : stream' = Append(stream, kind))
    BY <1>10 DEF RequestWritten, WroteRequest, WriteFails, TimerFires, CloserRuns, ParentCancels,
                 Tick, ServerAnswers, ServerSends, ServerEnds, netVars
  <2>2. QED
    BY <1>1, <2>1 DEF beside, resultVars, decodeVars
<1>11. QED
  BY <1>3, <1>4, <1>5, <1>6, <1>7, <1>8, <1>9, <1>10 DEF Next, Decode, Output, Finished

LEMMA NextStreamInv == StreamInv /\ [Next]_vars => StreamInv'
  BY NextTypeOK, NextPhases, NextText DEF StreamInv

LEMMA StreamInvAlways == Spec => []StreamInv
  BY InitStreamInv, NextStreamInv, PTL DEF Spec

-----------------------------------------------------------------------------
\* Type correctness of a call.
THEOREM StreamTypeCorrect == Spec => []TypeOK
<1>1. StreamInv => TypeOK
  BY DEF StreamInv
<1>2. QED
  BY <1>1, StreamInvAlways, PTL

\* Whatever the server sends and however reads, timers and cancels fall, the
\* text of a turn is the text of the server, once and in order.
THEOREM TextIsAlwaysTheStream == Spec => []TextIsTheStream
<1>1. StreamInv => TextIsTheStream
  BY DEF StreamInv, Text
<1>2. QED
  BY <1>1, StreamInvAlways, PTL

\* Success means a complete stream.
THEOREM AlwaysCompleteOrNothing == Spec => []CompleteOrNothing
<1>1. StreamInv => CompleteOrNothing
  <2> SUFFICES ASSUME StreamInv, outcome = "ok" PROVE CompleteOrNothing
    BY DEF CompleteOrNothing
  <2>1. total \in Nat /\ \A i \in 1..total : stream[i] \in {"done", "bad"} => i = total
    BY DEF StreamInv, TypeOK, Text
  <2>2. QED
    BY <2>1 DEF StreamInv, Text, TextIsTheStream, CompleteOrNothing
<1>2. QED
  BY <1>1, StreamInvAlways, PTL

\* The server is blamed only for what the server did.
THEOREM BlameAlwaysRight == Spec => []BlameIsRight
<1>1. StreamInv => BlameIsRight
  BY DEF StreamInv, Causes, Text, BlameIsRight, streamDone
<1>2. QED
  BY <1>1, StreamInvAlways, PTL

\* What the session loop takes for granted of a call.
THEOREM ReplContractAlwaysKept == Spec => []ReplContract
<1>1. StreamInv => ReplContract
  BY DEF StreamInv, Phases, Told, Causes, ReplContract
<1>2. QED
  BY <1>1, StreamInvAlways, PTL

\* At most one event is decoded after the context is done.
THEOREM AlwaysStopsPromptly == Spec => []StopsPromptly
<1>1. StreamInv => StopsPromptly
  BY DEF StreamInv, Late, StopsPromptly
<1>2. QED
  BY <1>1, StreamInvAlways, PTL

-----------------------------------------------------------------------------
(* Idle timeouts, when the output does not wait.                           *)

\* A clock that ran has seen the server silent for as long, or has bytes of it
\* to read; the timer has fired only after a tick at which nothing was left.
Silent ==
    /\ outcome = "idle" => header = "ok"
    /\ header # "refused" =>
          /\ clock > 0 /\ ~fired => silence >= clock \/ nread < Len(stream)
          /\ clock = IdleTicks \/ fired => quiet

LEMMA NextSilent ==
    ASSUME ~SlowOutput, StreamInv, Silent, [Next]_vars
    PROVE  Silent'
<1> USE DEF StreamInv, Silent, Off
<1>1. CASE UNCHANGED vars
  BY <1>1 DEF vars, resultVars, netVars, decodeVars, timerVars
<1>2. ASSUME NEW class \in Outcomes, NEW wasSent \in BOOLEAN, Returns(class, wasSent),
             class = "idle" => header = "ok"
      PROVE  Silent'
  BY <1>2, ReturnsType, StreamAssumption
<1>3. CASE Do
  <2>1. ASSUME DoFails PROVE Silent'
    <3>1. \E class \in {"canceled", "failed"} : Returns(class, requestSent)
      BY <2>1 DEF DoFails
    <3>2. requestSent \in BOOLEAN
      BY DEF TypeOK
    <3>3. QED
      BY <1>2, <3>1, <3>2 DEF Outcomes
  <2>2. CASE DoStarts
    BY <2>2 DEF DoStarts, resultVars, netVars, decodeVars, timerVars
  <2>3. CASE Connects
    BY <2>3 DEF Connects, resultVars, timerVars
  <2>4. CASE DoReturns
    BY <2>4, StreamAssumption DEF DoReturns, Phases, netVars
  <2>5. QED
    BY <1>3, <2>1, <2>2, <2>3, <2>4 DEF Do, DoRefused, DialFails, WaitFails, RedirectRefused
<1>4. CASE DrainEnds
  BY <1>2, <1>4 DEF DrainEnds, Outcomes, TypeOK
<1>5. CASE pc \in Decoding /\ \E class \in Outcomes : DecodeReturns(class)
  BY <1>2, <1>5 DEF DecodeReturns, Phases, TypeOK
<1>6. CASE TopParent \/ TopIdle \/ ErrorParent \/ ErrorIdle \/ ReadError
  <2>1. CASE stay
    BY <2>1 DEF stay, resultVars, netVars, timerVars
  <2>2. CASE ErrorIdle
    BY <1>5, <2>2 DEF ErrorIdle, Outcomes, Decoding
  <2>3. QED
    BY <1>5, <1>6, <2>1, <2>2 DEF TopParent, TopIdle, ErrorParent, ReadError, Outcomes, Decoding
<1>7. CASE ReadsBytes
  BY <1>7, StreamAssumption DEF ReadsBytes, resetIdle, resultVars, netVars
<1>8. CASE (\E kind \in Kinds : EventFails(kind)) \/ Completes \/ FlushFails \/ OutputFails
  BY <1>5, <1>8 DEF EventFails, Completes, FlushFails, OutputFails, Event, Outcomes, Decoding
<1>9. CASE (\E kind \in Kinds : Textless(kind)) \/ Delta \/ OutputWritten
  BY <1>9 DEF Textless, Delta, OutputWritten, resultVars, netVars, timerVars
<1>10. CASE RequestWritten \/ WroteRequest \/ WriteFails
  BY <1>10 DEF RequestWritten, WroteRequest, WriteFails, beside, resultVars, timerVars
<1>11. CASE TimerFires
  BY <1>11 DEF TimerFires, beside, resultVars, netVars
<1>12. CASE CloserRuns \/ ParentCancels
  BY <1>12 DEF CloserRuns, ParentCancels, beside, resultVars, netVars, timerVars
<1>13. CASE Tick
  <2>1. CASE pc = "draining"
    BY <1>13, <2>1 DEF Tick, beside, resultVars, Phases
  <2>2. CASE pc = "reading"
    <3>1. total <= MaxStream /\ total = nread /\ Readable = 0 /\ conn = "open"
      BY <1>13, <2>2 DEF Tick, Phases, Text
    <3>2. nread = Len(stream)
      BY <3>1, StreamAssumption DEF Readable, TypeOK
    <3>3. clock' = clock + 1 /\ clock < IdleTicks /\ ~fired /\ fired' = fired /\ header' = header
      BY <1>13 DEF Tick
    <3>4. header # "refused" /\ clock' > 0 => silence' >= clock'
      BY <1>13, <3>2, <3>3, StreamAssumption DEF Tick, TypeOK
    <3>5. header # "refused" /\ clock' = IdleTicks => quiet'
      <4>1. silence' \in 0..IdleTicks
        BY <1>13, StreamAssumption DEF Tick, TypeOK
      <4>2. header # "refused" /\ clock' = IdleTicks => silence' = IdleTicks
        BY <3>4, <4>1, StreamAssumption
      <4>3. total = Len(stream) /\ quiet' = (silence' = IdleTicks /\ total = Len(stream))
        BY <1>13, <3>1, <3>2 DEF Tick
      <4>4. QED
        BY <4>2, <4>3
    <3>6. outcome' = outcome
      BY <1>13 DEF Tick, beside, resultVars
    <3>7. QED
      BY <3>3, <3>4, <3>5, <3>6
  <2>3. QED
    BY <1>13, <2>1, <2>2 DEF Tick
<1>14. CASE \E kind \in {"ok", "refused", "redirect"} : ServerAnswers(kind)
  BY <1>14, StreamAssumption DEF ServerAnswers, Phases, beside, resultVars, timerVars
<1>15. CASE \E kind \in Kinds : ServerSends(kind)
  <2>1. nread < Len(stream')
    BY <1>15 DEF ServerSends, beside, TypeOK
  <2>2. QED
    BY <1>15, <2>1 DEF ServerSends, beside, resultVars, timerVars
<1>16. CASE \E how \in Lost : ServerEnds(how)
  BY <1>16 DEF ServerEnds, beside, resultVars, timerVars
<1>17. QED
  BY <1>1, <1>3, <1>4, <1>6, <1>7, <1>8, <1>9, <1>10, <1>11, <1>12, <1>13, <1>14, <1>15, <1>16
     DEF Next, Decode, Output, Finished

\* An idle timeout means a silent server, provided that the output is taken at
\* once; without that it does not (the idle timer runs while onDelta writes).
THEOREM IdleAlwaysMeansSilence ==
    ASSUME ~SlowOutput
    PROVE  Spec => []IdleMeansSilence
<1>1. Init => Silent
  BY StreamAssumption DEF Init, Silent, Off
<1>2. StreamInv /\ Silent /\ [Next]_vars => Silent'
  BY NextSilent
<1>3. StreamInv /\ Silent => IdleMeansSilence
  BY DEF StreamInv, Causes, Silent, IdleMeansSilence, streamDone
<1>4. QED
  BY <1>1, <1>2, <1>3, StreamInvAlways, PTL DEF Spec

=============================================================================
