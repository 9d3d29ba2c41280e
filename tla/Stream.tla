-------------------------------- MODULE Stream --------------------------------
(***************************************************************************)
(* One call of StreamResult: doStream and decodeStream of                  *)
(* src/internal/client with what runs beside them, the write loop of the   *)
(* HTTP transport, the idle timer, the goroutine that closes the           *)
(* connection when the stream's context is done, the parent context and    *)
(* the server.  An event of the stream is one unit of its kind; bytes,     *)
(* JSON and the wording of errors are left out.                            *)
(***************************************************************************)
EXTENDS Integers, Sequences, FiniteSets, SequencesExt

CONSTANTS
    MaxStream,      \* Options.MaxStreamBytes, in events
    OutputLimit,    \* outputLimit, in deltas
    IdleTicks,      \* Options.IdleReadTimeout, in ticks of the clock
    SlowOutput,     \* whether the terminal or pipe may take time to write
    MaxEvents       \* bound: events the server sends

ASSUME StreamAssumption ==
    /\ MaxStream \in Nat /\ OutputLimit \in Nat \ {0}
    /\ IdleTicks \in Nat \ {0}
    /\ SlowOutput \in BOOLEAN
    /\ MaxEvents \in Nat

\* A content delta, an event without a choice (comments, blank data, an empty
\* choices list), a choice without text that has no, an accepted or a refused
\* finish_reason, an event the decoder rejects, and [DONE].
Kinds == {"delta", "comment", "role", "finishOk", "finishBad", "bad", "done"}

\* How a connection ends but for us: with the end of the response, by a reset or
\* a close before that end, or given up by the network (a timeout of keep-alive).
Lost == {"fin", "rst", "timeout"}

Outcomes == {"none", "ok", "canceled", "idle", "truncated", "failed"}

VARIABLES
    pc,             \* where doStream is
    outcome,        \* class of the result
    sent,           \* RequestSent of the result
    requestSent,    \* the variable the WroteRequest callback sets
    write,          \* the write loop: "none", "busy", "written", "ok", "failed"
    conn,           \* "none", "open", one of Lost, or "closed" by us
    header,         \* response header: "none", "ok", "refused" or "redirect"
    nread,          \* events taken from the connection into the bufio.Reader
    total,          \* events decoded (totalRead)
    assembled,      \* deltas assembled, by their position in the stream
    printed,        \* deltas handed to the output
    sawChoice,
    finish,         \* the last finish_reason: "none", "ok", "bad"
    clock,          \* ticks since the idle timer was set, or Off
    fired,          \* the idle timer cancelled the stream's context
    closer,         \* AfterFunc(streamCtx, closeReq): "off", "armed", "ran"
    parentDone,     \* the caller's context is done
    \* The server and history variables.
    stream,         \* every event the server sent
    silence,        \* ticks since it last sent bytes, at most IdleTicks
    ended,          \* how the connection ended, or "no"
    quiet,          \* at the last tick it had been silent for IdleTicks and
                    \* nothing of it was left to decode
    lateStart,      \* the call was made with its context already done
    flushFailed,    \* the last write of the filter failed
    lateEvents      \* events decoded after the stream's context was done

Off == -1

resultVars == <<outcome, sent>>
netVars == <<write, conn, header, stream, silence, ended>>
decodeVars == <<total, assembled, printed, sawChoice, finish, flushFailed, lateEvents>>
timerVars == <<clock, fired, quiet>>
vars == <<pc, resultVars, requestSent, netVars, nread, decodeVars, timerVars, closer,
          parentDone, lateStart>>

-----------------------------------------------------------------------------
\* The stream's context: a child of the caller's, cancelled by the timer.
streamDone == parentDone \/ fired

\* Mutant: what was read already is counted again.
ReadableAgain == IF conn \in {"open", "fin", "timeout"} THEN Len(stream) ELSE 0

\* Bytes a Read can return: sent, not lost to a reset, not beyond the limit of
\* the LimitReader, which allows one event more than MaxStream.
Readable ==
    IF conn \in {"open", "fin", "timeout"}
    THEN (IF Len(stream) <= MaxStream + 1 THEN Len(stream) ELSE MaxStream + 1) - nread
    ELSE 0

\* Read returns an error or the end of the stream.
ReadEnds == Readable = 0 /\ conn # "open"

Init ==
    /\ pc = "start" /\ outcome = "none" /\ sent = FALSE /\ requestSent = FALSE
    /\ write = "none" /\ conn = "none" /\ header = "none"
    /\ nread = 0 /\ total = 0 /\ assembled = <<>> /\ printed = <<>>
    /\ sawChoice = FALSE /\ finish = "none" /\ flushFailed = FALSE
    /\ clock = Off /\ fired = FALSE /\ closer = "off"
    /\ parentDone \in BOOLEAN
    /\ stream = <<>> /\ silence = 0 /\ ended = "no" /\ quiet = FALSE
    /\ lateStart = parentDone /\ lateEvents = 0

-----------------------------------------------------------------------------
(* Returning: the deferred calls stop the watch and the timer and close the *)
(* body, and with it the connection, keep-alives being disabled.            *)

Returns(class, wasSent) ==
    /\ pc' = "done"
    /\ outcome' = class
    /\ sent' = wasSent
    /\ clock' = Off
    /\ closer' = IF closer = "armed" THEN "off" ELSE closer
    /\ conn' = IF conn = "none" THEN "none" ELSE "closed"
    /\ UNCHANGED <<requestSent, write, header, stream, silence, ended, nread, fired, quiet,
                   parentDone, lateStart>>

\* Do failed: transportError reports the caller's context first.  requestSent
\* is read here, whether or not the callback has run yet.
DoFails ==
    /\ Returns(IF parentDone THEN "canceled" ELSE "failed", requestSent)
    /\ UNCHANGED decodeVars

-----------------------------------------------------------------------------
(* http.Client.Do.                                                         *)

\* The transport looks at the context before it dials.
DoRefused == pc = "start" /\ parentDone /\ DoFails

DoStarts ==
    /\ pc = "start" /\ ~parentDone
    /\ pc' = "dialing"
    /\ UNCHANGED <<resultVars, requestSent, netVars, nread, decodeVars, timerVars,
                   closer, parentDone, lateStart>>

\* The connection is made (dial, TLS) and the write loop starts.
Connects ==
    /\ pc = "dialing"
    /\ pc' = "waiting"
    /\ conn' = "open" /\ write' = "busy"
    /\ UNCHANGED <<resultVars, requestSent, header, stream, silence, ended, nread, decodeVars,
                   timerVars, closer, parentDone, lateStart>>

\* The dial is refused, times out, or is cancelled.
DialFails == pc = "dialing" /\ DoFails

\* Mutant: the request does not carry the caller's context.
WaitFailsAlone ==
    /\ pc = "waiting"
    /\ header = "none" /\ (conn \in Lost \/ write \in {"ok", "failed"})
    /\ DoFails

\* While the response is awaited: the connection ends, the write fails, the
\* context is done, or the header timeout expires, which the transport arms
\* only when the request has been written.
WaitFails ==
    /\ pc = "waiting"
    /\ \/ header = "none" /\ (conn \in Lost \/ write \in {"ok", "failed"})
       \/ parentDone
    /\ DoFails

\* A redirect is an error of Do as well.
RedirectRefused == pc = "waiting" /\ header = "redirect" /\ DoFails

\* Do returns a response; the idle timer and the watch are set up.
DoReturns ==
    /\ pc = "waiting" /\ header \in {"ok", "refused"}
    /\ pc' = IF header = "ok" THEN "top" ELSE "draining"
    /\ sent' = requestSent
    /\ clock' = 0
    /\ closer' = "armed"
    /\ UNCHANGED <<outcome, requestSent, netVars, nread, decodeVars, fired, quiet,
                   parentDone, lateStart>>

\* A bad status or content type: some of the body is read, not through the
\* idleResetReader, then the turn fails with the RequestSent seen above.
DrainEnds ==
    /\ pc = "draining"
    /\ conn # "open" \/ stream # <<>>
    /\ Returns("failed", sent)
    /\ UNCHANGED decodeVars

-----------------------------------------------------------------------------
(* decodeStream.                                                           *)

\* Results of decodeStream are returned with requestSent as it is by then.
DecodeReturns(class) == Returns(class, requestSent)

stay == UNCHANGED <<resultVars, requestSent, netVars, nread, decodeVars, timerVars,
                    closer, parentDone, lateStart>>

\* The top of the loop looks at the caller's context, then at the stream's.
TopParent ==
    /\ pc = "top"
    /\ IF parentDone THEN DecodeReturns("canceled") /\ UNCHANGED decodeVars
                     ELSE pc' = "top2" /\ stay

\* Mutant: only reads notice the timer.
TopUnchecked == pc = "top2" /\ pc' = "reading" /\ stay

TopIdle ==
    /\ pc = "top2"
    /\ IF streamDone THEN DecodeReturns("idle") /\ UNCHANGED decodeVars
                     ELSE pc' = "reading" /\ stay

\* Mutant: progress does not restart the timer.
idleKeepsRunning == UNCHANGED clock

\* The reset function of withIdleCancel: a timer that has fired stays so.
resetIdle == clock' = IF fired THEN clock ELSE 0

\* The bufio.Reader is empty: a Read returns some of what has arrived, and
\* progress restarts the idle timer.
ReadsBytes ==
    /\ pc = "reading" /\ nread = total
    /\ \E n \in 1..Readable : nread' = nread + n
    /\ resetIdle
    /\ UNCHANGED <<pc, resultVars, requestSent, netVars, decodeVars, fired, quiet,
                   closer, parentDone, lateStart>>

ReadError ==
    /\ pc = "reading" /\ nread = total /\ ReadEnds
    /\ pc' = "error"
    /\ stay

\* After a read error: again the caller's context, the stream's, then the end
\* of the stream.  A read that was cut short by closeReq is one of the first two.
ErrorParent ==
    /\ pc = "error"
    /\ IF parentDone THEN DecodeReturns("canceled") /\ UNCHANGED decodeVars
                     ELSE pc' = "error2" /\ stay

\* Mutant: every end of the stream is blamed on the server.
ErrorBlamed == pc = "error2" /\ DecodeReturns("truncated") /\ UNCHANGED decodeVars

\* readSSELine gives a timeout of the network the words of the idle timer; an
\* error that is not the end of the stream is returned as it is.
ErrorIdle ==
    /\ pc = "error2"
    /\ DecodeReturns(IF streamDone \/ conn = "timeout" THEN "idle"
                     ELSE IF conn = "rst" THEN "failed" ELSE "truncated")
    /\ UNCHANGED decodeVars

\* The next event of the bufio.Reader.  The limits come before its meaning.
Event(kind) ==
    /\ pc = "reading" /\ nread > total
    /\ stream[total + 1] = kind
    /\ total' = total + 1
    /\ lateEvents' = IF streamDone THEN lateEvents + 1 ELSE lateEvents

\* Mutants: off by one.
TooMuchLate == total > MaxStream
TooLongLate == Len(assembled) > OutputLimit

\* The event or its text goes beyond a limit.
TooMuch == total + 1 > MaxStream
TooLong == Len(assembled) + 1 > OutputLimit

EventFails(kind) ==
    /\ Event(kind)
    /\ \/ TooMuch
       \/ kind = "bad"
       \/ kind = "delta" /\ TooLong
       \/ kind = "done" /\ (~sawChoice \/ finish = "bad")
    /\ DecodeReturns("failed")
    /\ UNCHANGED <<assembled, printed, sawChoice, finish, flushFailed>>

\* A delta is assembled and given to onDelta.
Delta ==
    /\ Event("delta") /\ ~TooMuch /\ ~TooLong
    /\ assembled' = Append(assembled, total + 1)
    /\ sawChoice' = TRUE
    /\ pc' = "output"
    /\ UNCHANGED <<resultVars, requestSent, netVars, nread, printed, finish, flushFailed,
                   timerVars, closer, parentDone, lateStart>>

OutputWritten ==
    /\ pc = "output"
    /\ printed' = Append(printed, assembled[Len(assembled)])
    /\ pc' = "top"
    /\ UNCHANGED <<resultVars, requestSent, netVars, nread, total, assembled, sawChoice,
                   finish, flushFailed, lateEvents, timerVars, closer, parentDone, lateStart>>

OutputFails ==
    /\ pc = "output"
    /\ DecodeReturns("failed")
    /\ UNCHANGED decodeVars

\* An event without text; the last finish_reason wins.
Textless(kind) ==
    /\ kind \in {"comment", "role", "finishOk", "finishBad"}
    /\ Event(kind) /\ ~TooMuch
    /\ sawChoice' = (sawChoice \/ kind # "comment")
    /\ finish' = CASE kind = "finishOk" -> "ok"
                   [] kind = "finishBad" -> "bad"
                   [] OTHER -> finish
    /\ pc' = "top"
    /\ UNCHANGED <<resultVars, requestSent, netVars, nread, assembled, printed, flushFailed,
                   timerVars, closer, parentDone, lateStart>>

Completes ==
    /\ Event("done") /\ ~TooMuch /\ sawChoice /\ finish # "bad"
    /\ DecodeReturns("ok")
    /\ UNCHANGED <<assembled, printed, sawChoice, finish, flushFailed>>

\* With a bearer token the filter may still hold back some of the text, and the
\* write of that may fail.
FlushFails ==
    /\ Event("done") /\ ~TooMuch /\ sawChoice /\ finish # "bad"
    /\ assembled # <<>>
    /\ flushFailed' = TRUE
    /\ DecodeReturns("failed")
    /\ UNCHANGED <<assembled, printed, sawChoice, finish>>

Decode ==
    \/ TopParent \/ TopIdle \/ ReadsBytes \/ ReadError \/ ErrorParent \/ ErrorIdle
    \/ \E kind \in Kinds : EventFails(kind) \/ Textless(kind)
    \/ Delta \/ Completes \/ FlushFails
-----------------------------------------------------------------------------
(* The goroutines beside it.                                               *)

beside == UNCHANGED <<pc, resultVars, nread, decodeVars, lateStart>>

\* The last byte of the request is written: the server, or the buffers on the
\* way to it, took all of it.
RequestWritten ==
    /\ pc # "done" /\ write = "busy" /\ conn \in {"open", "fin"}
    /\ write' = "written"
    /\ beside
    /\ UNCHANGED <<requestSent, conn, header, stream, silence, ended, timerVars, closer, parentDone>>

\* The WroteRequest callback; only then does the transport wait for a header.
WroteRequest ==
    /\ pc # "done" /\ write = "written"
    /\ requestSent' = TRUE
    /\ write' = "ok"
    /\ beside
    /\ UNCHANGED <<conn, header, stream, silence, ended, timerVars, closer, parentDone>>

\* Mutant: the callback does not look at the error.
WriteFailsUnseen ==
    /\ pc # "done" /\ write = "busy" /\ conn \in Lost \cup {"closed"}
    /\ write' = "failed" /\ requestSent' = TRUE
    /\ beside
    /\ UNCHANGED <<conn, header, stream, silence, ended, timerVars, closer, parentDone>>

\* The write fails: the callback sees the error and leaves requestSent alone.
WriteFails ==
    /\ pc # "done" /\ write = "busy" /\ conn \in Lost \cup {"closed"}
    /\ write' = "failed"
    /\ beside
    /\ UNCHANGED <<requestSent, conn, header, stream, silence, ended, timerVars, closer, parentDone>>

\* The idle timer: AfterFunc(idle, cancel).
TimerFires ==
    /\ clock = IdleTicks /\ ~fired
    /\ fired' = TRUE
    /\ beside
    /\ UNCHANGED <<requestSent, netVars, clock, quiet, closer, parentDone>>

\* Mutant: the connection is left open.
CloserIdles ==
    /\ closer = "armed" /\ streamDone
    /\ closer' = "ran"
    /\ beside
    /\ UNCHANGED <<requestSent, netVars, timerVars, parentDone>>

\* AfterFunc(streamCtx, closeReq): closes the body and the connection.
CloserRuns ==
    /\ closer = "armed" /\ streamDone
    /\ closer' = "ran"
    /\ conn' = "closed"
    /\ beside
    /\ UNCHANGED <<requestSent, write, header, stream, silence, ended, timerVars, parentDone>>

ParentCancels ==
    /\ pc # "done" /\ ~parentDone
    /\ parentDone' = TRUE
    /\ beside
    /\ UNCHANGED <<requestSent, netVars, timerVars, closer>>

\* Time passes while the client waits: for bytes, for the rest of an error
\* body, or for its own output when that may be slow.
Tick ==
    /\ \/ pc = "reading" /\ nread = total /\ Readable = 0 /\ conn = "open"
       \/ pc = "draining" /\ conn = "open"
       \/ pc = "output" /\ SlowOutput
    /\ clock < IdleTicks /\ ~fired
    /\ clock' = clock + 1
    /\ silence' = IF silence < IdleTicks THEN silence + 1 ELSE silence
    /\ quiet' = (silence' = IdleTicks /\ total = Len(stream))
    /\ beside
    /\ UNCHANGED <<requestSent, write, conn, header, stream, ended, fired, closer,
                   parentDone>>

-----------------------------------------------------------------------------
(* The server, of which nothing is assumed: it may answer before it has    *)
(* read the request, never read it, send anything, and stop at any point.  *)

ServerAnswers(kind) ==
    /\ pc = "waiting" /\ conn = "open" /\ header = "none"
    /\ header' = kind
    /\ silence' = 0
    /\ beside
    /\ UNCHANGED <<requestSent, write, conn, stream, ended, timerVars, closer, parentDone>>

\* After an event that ends the call nothing more is ever decoded.
ServerSends(kind) ==
    /\ pc # "done" /\ conn = "open" /\ Len(stream) < MaxEvents
    /\ \A i \in 1..Len(stream) : stream[i] \notin {"done", "bad"}
    /\ header = "ok" \/ (header = "refused" /\ kind = "comment")
    /\ stream' = Append(stream, kind)
    /\ silence' = 0
    /\ beside
    /\ UNCHANGED <<requestSent, write, conn, header, ended, timerVars, closer, parentDone>>

ServerEnds(how) ==
    /\ pc # "done" /\ conn = "open"
    /\ conn' = how
    /\ ended' = how
    /\ beside
    /\ UNCHANGED <<requestSent, write, header, stream, silence, timerVars, closer, parentDone>>

-----------------------------------------------------------------------------
Finished == pc = "done" /\ UNCHANGED vars

Do ==
    \/ DoRefused \/ DoStarts \/ Connects \/ DialFails
    \/ WaitFails \/ RedirectRefused \/ DoReturns

Output == OutputWritten \/ OutputFails

Next ==
    \/ Do \/ DrainEnds \/ Decode \/ Output
    \/ RequestWritten \/ WroteRequest \/ WriteFails
    \/ TimerFires \/ CloserRuns \/ ParentCancels \/ Tick
    \/ \E kind \in {"ok", "refused", "redirect"} : ServerAnswers(kind)
    \/ \E kind \in Kinds : ServerSends(kind)
    \/ \E how \in Lost : ServerEnds(how)
    \/ Finished

Spec == Init /\ [][Next]_vars

\* The goroutines run, the dial, header and idle timeouts expire, time passes
\* and the output takes what it is given.  The write of the request has no
\* timeout, so nothing is assumed of RequestWritten.
Fairness ==
    /\ WF_vars(Do) /\ WF_vars(DrainEnds) /\ WF_vars(Decode) /\ WF_vars(Output)
    /\ WF_vars(WroteRequest) /\ WF_vars(WriteFails)
    /\ WF_vars(TimerFires) /\ WF_vars(CloserRuns) /\ WF_vars(Tick)

FairSpec == Spec /\ Fairness

-----------------------------------------------------------------------------
TypeOK ==
    /\ pc \in {"start", "dialing", "waiting", "draining", "top", "top2", "reading",
               "output", "error", "error2", "done"}
    /\ outcome \in Outcomes
    /\ sent \in BOOLEAN /\ requestSent \in BOOLEAN
    /\ write \in {"none", "busy", "written", "ok", "failed"}
    /\ conn \in {"none", "open", "closed"} \cup Lost
    /\ header \in {"none", "ok", "refused", "redirect"}
    /\ nread \in 0..Len(stream) /\ total \in 0..nread
    /\ assembled \in Seq(Nat) /\ printed \in Seq(Nat)
    /\ sawChoice \in BOOLEAN /\ finish \in {"none", "ok", "bad"}
    /\ clock \in {Off} \cup 0..IdleTicks
    /\ fired \in BOOLEAN /\ quiet \in BOOLEAN /\ flushFailed \in BOOLEAN
    /\ ended \in {"no"} \cup Lost
    /\ closer \in {"off", "armed", "ran"}
    /\ parentDone \in BOOLEAN /\ lateStart \in BOOLEAN
    /\ stream \in Seq(Kinds)
    /\ silence \in 0..IdleTicks
    /\ lateEvents \in Nat

\* The positions of the deltas among the first n events.
DeltasUpTo(n) == {i \in 1..n : stream[i] = "delta"}

Assembled == {assembled[i] : i \in 1..Len(assembled)}

\* The text assembled is every delta decoded, once and in order, within the
\* limit (but for the event a failed call was rejected for), and what was
\* printed is that text or all of it but the delta being written: a turn never
\* shows or keeps text the server did not send, in another order or twice.
TextIsTheStream ==
    /\ \A i, j \in 1..Len(assembled) : i < j => assembled[i] < assembled[j]
    /\ Assembled \subseteq DeltasUpTo(total)
    /\ DeltasUpTo(total - 1) \subseteq Assembled
    /\ outcome # "failed" => Assembled = DeltasUpTo(total)
    /\ Len(assembled) <= OutputLimit
    /\ printed = assembled \/ assembled = Append(printed, assembled[Len(assembled)])

\* A turn succeeds only on a complete stream: the server sent [DONE], nothing
\* before it was an error, all of its text is in the result and was printed,
\* within both limits, and the last finish_reason is accepted.
CompleteOrNothing ==
    outcome = "ok" =>
        /\ total > 0 /\ stream[total] = "done"
        /\ \A i \in 1..total : stream[i] # "bad"
        /\ printed = assembled
        /\ total <= MaxStream /\ Len(assembled) <= OutputLimit
        /\ \A i \in 1..total :
              stream[i] = "finishBad" =>
                  \E j \in (i + 1)..total : stream[j] = "finishOk"

\* An error names its cause.  "Ended early" is said of a server that ended the
\* response without [DONE], never of a connection that was lost or that the
\* client closed itself; an idle timeout has the timer, the network's own timeout
\* or the caller behind it (a cancel that lands between the two checks is
\* reported as idle: Repl looks at ctx again).
BlameIsRight ==
    /\ outcome = "truncated" =>
          /\ ended = "fin" /\ ~fired /\ ~parentDone
          /\ \A i \in 1..total : stream[i] # "done"
    /\ outcome = "idle" => fired \/ parentDone \/ ended = "timeout"
    /\ outcome = "canceled" => parentDone

\* What Repl!StreamReturns takes for granted of a call: it has a result, it is
\* cancelled only by the caller's context, and "sent" is true only after the
\* HTTP request write succeeded (batch.md), even though the callback that says
\* so runs in another goroutine than the one that reads it.
ReplContract ==
    pc = "done" =>
        /\ outcome # "none"
        /\ sent => write = "ok"
        /\ outcome = "canceled" => parentDone
        /\ lateStart => outcome = "canceled" /\ ~sent

\* Once the context is done or the timer has fired, at most the event being
\* looked for is still decoded, however much is buffered behind it.
StopsPromptly == lateEvents <= 1

\* An idle timeout is a silent stall: the timer cut off a server that had sent
\* nothing for the whole idle time, with nothing of it left to decode, unless the
\* network itself had given the connection up
\* (protocol.md, Idle TCP read during a stream: "a healthy slow or fragmented
\* stream continues, a silent stall fails").
IdleMeansSilence == outcome = "idle" => quiet \/ parentDone \/ ended = "timeout"

\* A cancelled call returns, whatever the server does.
CancelEndsTurn == parentDone ~> (pc = "done")

\* Once the request is written the call returns, whatever the server does: it
\* may never answer, stall anywhere, or never end the stream.
EndsOnceWritten == (write = "ok") ~> (pc = "done")

\* Every call returns (protocol.md: "A stalled connection is cancelled and
\* closed").
EveryTurnEnds == <>(pc = "done")

=============================================================================
