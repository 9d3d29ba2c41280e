------------------------------ MODULE Scenarios ------------------------------
(***************************************************************************)
(* The client of Stream against the mock server of src/internal/mockllm:   *)
(* the catalogue of scenarios, what is recorded of a request, how the      *)
(* handler answers it, and the bytes it writes, which reach the client     *)
(* through the framing of SSE.  The client may still be cancelled, fail to *)
(* connect or to write; no scenario has a delay, so no time passes.        *)
(***************************************************************************)
EXTENDS Stream, SSE

CONSTANT Tokens     \* bearer credentials that are not empty

ASSUME TokensAssumption == "" \notin Tokens

-----------------------------------------------------------------------------
(* Wires.  A chunk is one event whose value has a byte for its content and *)
(* one for its finish_reason; [DONE] has two bytes; every other payload is *)
(* one byte that names it.                                                 *)

rawEvent(payload) == <<"data:", payload, "LF", "LF">>
chunk(content, reason) == <<"data:", content, reason, "LF", "LF">>
doneMarker == <<"data:", "[DO", "NE]", "LF", "LF">>

FragmentAt(wire) == <<wire>>
Fragment(wire, offset) == <<SubSeq(wire, 1, offset), SubSeq(wire, offset + 1, Len(wire))>>
FragmentEveryByte(wire) == [i \in DOMAIN wire |-> <<wire[i]>>]

\* Every LF that has no CR before it gets one.
crlf(wire) ==
    FlattenSeq([i \in DOMAIN wire |->
        IF wire[i] = "LF" /\ (i = 1 \/ wire[i - 1] # "CR") THEN <<"CR", "LF">> ELSE <<wire[i]>>])

stopped == chunk("text", "stop") \o doneMarker

-----------------------------------------------------------------------------
(* The catalogue.  texts is the number of deltas with text of a reply that *)
(* the scenario's note calls a success; what says which failure the note   *)
(* expects of another.                                                     *)

Scenario(name, note, texts, wire) ==
    [name |-> name, wire |-> wire, note |-> note, texts |-> texts, status |-> 200, type |-> "sse",
     redirect |-> FALSE, auth |-> FALSE, known |-> TRUE, mode |-> "http"]

Succeeds(name, texts, wire) == Scenario(name, "ok", texts, wire)
Fails(name, note, wire) == Scenario(name, note, 0, wire)
Refused(name, status, type, body) ==
    [Fails(name, "failed", FragmentAt(body)) EXCEPT !.status = status, !.type = type]

Untyped(s) == [s EXCEPT !.type = "none"]
Guarded(s) == [s EXCEPT !.auth = TRUE]
Redirected(s) == [s EXCEPT !.redirect = TRUE]
Raw(s) == [s EXCEPT !.mode = "raw"]

successWire(reason) == FragmentAt(chunk("text", "null") \o chunk("none", reason) \o doneMarker)

streamScenarios == {
    Succeeds("stream-success-basic", 1, successWire("stop")),
    Succeeds("stream-success-multibyte", 3,
        FragmentAt(chunk("text", "null") \o chunk("text", "null") \o stopped)),
    Succeeds("stream-success-length-finish", 1, successWire("length")),
    Succeeds("stream-success-role-only", 1,
        FragmentAt(chunk("none", "null") \o chunk("none", "null") \o stopped)),
    Succeeds("stream-success-crlf", 1, FragmentAt(crlf(stopped))),
    Succeeds("stream-success-comments", 1, FragmentAt(
        <<":", "keep-alive", "CR", "LF">>
        \o <<"event:", "message", "CR", "LF", "id:", "1", "CR", "LF", "retry:", "100", "CR", "LF">>
        \o chunk("text", "null") \o <<"LF">> \o chunk("none", "stop") \o doneMarker)),
    Untyped(Succeeds("stream-success-no-content-type", 1, successWire("stop"))),
    Succeeds("stream-success-empty-content", 0, FragmentAt(chunk("none", "stop") \o doneMarker))}

framingScenarios == {
    Succeeds("fragment-utf8-inside-rune", 1, Fragment(stopped, 2)),
    Succeeds("fragment-inside-crlf", 1, Fragment(crlf(stopped), 4)),
    Succeeds("fragment-inside-data-field", 1, Fragment(stopped, 1)),
    Succeeds("fragment-inside-done", 1, Fragment(stopped, 7)),
    Succeeds("fragment-byte-by-byte", 1, FragmentEveryByte(stopped)),
    Succeeds("fragment-multiple-events-one-write", 2, FragmentAt(
        chunk("text", "null") \o chunk("text", "null") \o chunk("none", "stop") \o doneMarker))}

malformedScenarios ==
    {Fails(name, "failed", FragmentAt(rawEvent(name) \o doneMarker)) : name \in
        {"malformed-json-event", "malformed-delta-content-not-string", "malformed-multiple-choices",
         "stream-error-object", "stream-error-non-object", "stream-tool-calls-rejected",
         "stream-function-call-rejected"}}
    \cup
    {Fails("malformed-early-termination", "truncated", <<chunk("text", "null"), <<>>>>),
     Fails("malformed-early-termination-mid-event", "truncated",
           <<chunk("text", "null"), <<"data:", "cut">>>>),
     Succeeds("stream-error-null-ignored", 1, FragmentAt(stopped)),
     Fails("stream-finish-content-filter", "failed",
           FragmentAt(chunk("none", "content_filter") \o doneMarker)),
     Fails("stream-finish-unsupported", "failed",
           FragmentAt(chunk("none", "weird_reason") \o doneMarker))}

httpErrorScenarios == {
    Refused("http-error-401", 401, "plain", <<"body">>),
    Refused("http-error-429", 429, "json", <<"body">>),
    Refused("http-error-500", 500, "html", <<"body">>),
    Refused("http-error-404-unknown-model", 404, "json", <<"body">>),
    Refused("non-sse-content-type", 200, "json", <<"body">>),
    Untyped(Fails("non-sse-empty-body", "truncated", <<>>))}

authScenarios ==
    {Guarded(Succeeds(name, 1, successWire("stop"))) : name \in
        {"auth-required-match", "auth-required-missing", "auth-required-mismatch",
         "auth-malformed-header"}}

redirectScenarios ==
    {Redirected(Fails(name, "failed", <<>>)) : name \in
        {"redirect-to-final-url", "redirect-with-query", "redirect-absolute"}}

contextScenarios ==
    {Succeeds(name, 1, successWire("stop")) : name \in
        {"context-system-retained", "context-pair-trimming", "context-exact-budget-boundary",
         "context-utf8-byte-accounting", "context-after-clear", "context-max-tokens-sent",
         "context-no-optional-fields"}}
    \cup {Fails("context-failed-turn-rollback", "truncated", <<chunk("text", "null"), <<>>>>)}

Catalog == streamScenarios \cup framingScenarios \cup malformedScenarios \cup httpErrorScenarios
           \cup authScenarios \cup redirectScenarios \cup contextScenarios

\* What the discovery tests register beside them: the scenario without a type,
\* in raw mode.
rawScenarios == {Raw(Untyped(Succeeds("p5-no-content-type-raw", 1, FragmentAt(stopped))))}

\* A path that names none of them.
unknownScenario == [Fails("", "failed", <<>>) EXCEPT !.known = FALSE]

-----------------------------------------------------------------------------
VARIABLES
    scenario,       \* the scenario the path of the request names
    bearer,         \* the client's credential
    expected,       \* Options.ExpectedBearer of the server
    tooLarge,       \* the body of the request is longer than maxRequestBody
    handler,        \* where the handler of the request is
    written,        \* segments of the wire it has written
    recs            \* Server.recs

mockVars == <<scenario, bearer, expected, tooLarge, handler, written, recs>>
scenarioVars == <<vars, mockVars>>

ScenarioInit ==
    /\ Init
    /\ scenario \in Catalog \cup rawScenarios \cup {unknownScenario}
    /\ bearer \in Tokens \cup {""}
    /\ expected \in Tokens \cup {""}
    /\ tooLarge \in BOOLEAN
    /\ handler = "reading" /\ written = 0 /\ recs = <<>>

\* The client sends "Bearer " and its token, or no header at all.
classifyAuth ==
    CASE bearer = "" -> "none"
      [] bearer # "" /\ expected \in {"", bearer} -> "match"
      [] OTHER -> "mismatch"

record(known) ==
    recs' = Append(recs, [scenario |-> IF known THEN scenario.name ELSE "", auth |-> classifyAuth])

handles == UNCHANGED <<scenario, bearer, expected, tooLarge>>

\* Mutant: only what is served is recorded.
HandlerReadsAuthorized ==
    /\ handler = "reading" /\ conn # "none"
    /\ scenario.known => ~tooLarge /\ write \in {"written", "ok"}
    /\ IF scenario.auth /\ classifyAuth # "match" THEN UNCHANGED recs ELSE record(scenario.known)
    /\ handler' = "answering"
    /\ handles /\ UNCHANGED <<vars, written>>

\* The body is read to its end and the request is recorded, whether or not the
\* client is still there; the body of an unknown scenario is not read.
HandlerReads ==
    /\ handler = "reading" /\ conn # "none"
    /\ scenario.known => ~tooLarge /\ write \in {"written", "ok"}
    /\ record(scenario.known)
    /\ handler' = "answering"
    /\ handles /\ UNCHANGED <<vars, written>>

\* A body is read no further than its limit: one that is longer is refused, with
\* the rest of it perhaps still to be written, and the request is recorded as that
\* of no scenario.
HandlerRefusesBody ==
    /\ handler = "reading" /\ conn # "none"
    /\ scenario.known /\ tooLarge
    /\ record(FALSE)
    /\ handler' = "answering"
    /\ handles /\ UNCHANGED <<vars, written>>

\* The client is gone before it has written the body: the request is recorded in
\* the same way.
HandlerCannotRead ==
    /\ handler = "reading" /\ conn = "closed" /\ scenario.known
    /\ write \notin {"written", "ok"}
    /\ record(FALSE)
    /\ handler' = "returned"
    /\ handles /\ UNCHANGED <<vars, written>>

\* The type a response without one gets when it has a body, unless the
\* connection was hijacked and the headers are the scenario's own.
contentType ==
    IF scenario.mode = "http" /\ scenario.type = "none" /\ FlattenSeq(scenario.wire) # <<>>
    THEN "plain" ELSE scenario.type

\* The client's view of the status and headers a scenario declares.
ownAnswer ==
    IF scenario.redirect THEN "redirect"
    ELSE IF scenario.status = 200 /\ contentType \in {"sse", "none"} THEN "ok" ELSE "refused"

\* Mutant: a credential is enough, whichever it is.
answersAnyone ==
    IF ~scenario.known \/ tooLarge \/ (scenario.auth /\ bearer = "") THEN "refused" ELSE ownAnswer

\* The handler answers 404, 400 or 401 itself.
refused == ~scenario.known \/ tooLarge \/ (scenario.auth /\ classifyAuth # "match")

answer == IF refused THEN "refused" ELSE ownAnswer

HandlerAnswers ==
    /\ handler = "answering"
    /\ IF conn = "open" THEN ServerAnswers(answer) ELSE UNCHANGED vars
    /\ handler' = "writing"
    /\ handles /\ UNCHANGED <<written, recs>>

\* One segment is written and flushed, to the response or to the hijacked
\* connection; a write error ends the handler.
HandlerWrites ==
    /\ handler = "writing" /\ ~refused /\ written < Len(scenario.wire)
    /\ IF conn = "open" THEN written' = written + 1 /\ UNCHANGED handler
                        ELSE handler' = "returned" /\ UNCHANGED written
    /\ handles /\ UNCHANGED <<vars, recs>>

\* What the decoder makes of an event: a chunk with text and a finish_reason is
\* two units of Stream.
unitsOf(v) ==
    LET reasonUnits(f) == CASE f \in {"stop", "length"} -> <<"finishOk">>
                            [] f = "null" -> IF v[1] = "none" THEN <<"role">> ELSE <<>>
                            [] OTHER -> <<"finishBad">>
    IN CASE v = <<>> -> <<"comment">>
         [] v = <<"[DO", "NE]">> -> <<"done">>
         [] OTHER ->
              IF Len(v) = 2 /\ v[1] \in {"text", "none"}
              THEN (IF v[1] = "text" THEN <<"delta">> ELSE <<>>) \o reasonUnits(v[2])
              ELSE <<"bad">>

bytesWritten == FlattenSeq(SubSeq(scenario.wire, 1, written))

unitsOfAll(events) == FlattenSeq([i \in DOMAIN events |-> unitsOf(FlattenSeq(events[i]))])

unitsWritten == unitsOfAll(Delivered(readEvents(bytesWritten, FALSE, Len(bytesWritten) + 1)))

\* The next unit of what was written reaches the client, however the bytes were
\* cut or joined on the way.
nextUnit(units) ==
    /\ Len(stream) < Len(units)
    /\ \E kind \in Kinds : kind = units[Len(stream) + 1] /\ ServerSends(kind)

Arrives ==
    /\ header = "ok"
    /\ nextUnit(unitsWritten)
    /\ UNCHANGED mockVars

\* Everything that will be decoded has arrived.
allArrived ==
    \/ header # "ok"
    \/ Len(stream) = Len(unitsWritten)
    \/ \E i \in 1..Len(stream) : stream[i] \in {"done", "bad"}

\* The handler returns: the response ends after all that was written.
HandlerReturns ==
    /\ handler = "writing" /\ (refused \/ written = Len(scenario.wire))
    /\ IF conn = "open" /\ pc # "done" THEN allArrived /\ ServerEnds("fin") ELSE UNCHANGED vars
    /\ handler' = "returned"
    /\ handles /\ UNCHANGED <<written, recs>>

\* The filter holds text back only for the sake of a token.
FiltersForToken == flushFailed' => bearer # ""

Client ==
    \/ Do \/ DrainEnds \/ Output \/ (Decode /\ FiltersForToken)
    \/ RequestWritten \/ WroteRequest \/ WriteFails \/ CloserRuns \/ ParentCancels

Handler ==
    \/ HandlerReads \/ HandlerRefusesBody \/ HandlerCannotRead
    \/ HandlerAnswers \/ HandlerWrites \/ Arrives \/ HandlerReturns

ScenarioFinished == pc = "done" /\ UNCHANGED scenarioVars

ScenarioNext == (Client /\ UNCHANGED mockVars) \/ Handler \/ ScenarioFinished

ScenarioSpec == ScenarioInit /\ [][ScenarioNext]_scenarioVars

-----------------------------------------------------------------------------
\* Success is what the note promises: a scenario that requires a credential,
\* with the one that is expected, and of a request whose body the mock takes.
PromisesSuccess ==
    /\ scenario.note = "ok" /\ ~tooLarge
    /\ scenario.auth => bearer # "" /\ expected \in {"", bearer}

\* Net/http adds a type to its response (docs/testing-phase-5.md:65); in raw
\* mode the same wire succeeds.
sniffed == scenario.name = "stream-success-no-content-type"

\* What a scenario's note says of the client is what it does, however the wire
\* is cut and wherever the answer, the request write and a cancel fall: only a
\* scenario that promises success succeeds, with all of its text printed; it
\* fails only if the client was cancelled, got no answer or could not print;
\* only one that ends before [DONE] is said to.
NotesHold ==
    pc = "done" =>
        /\ outcome = "ok" => PromisesSuccess /\ Len(printed) = scenario.texts
        /\ PromisesSuccess /\ ~sniffed =>
               \/ outcome = "ok" \/ parentDone \/ header = "none"
               \/ printed # assembled \/ flushFailed
        /\ outcome = "truncated" => scenario.note = "truncated"

\* A request that was answered was recorded first, once, so a test that looks at
\* Records after its call sees it: as one of the scenario that answers it, or as
\* one of none if it is refused for its path or for its size, and then it is never
\* answered with a stream.  The verdict recorded of its credential agrees with the
\* answer of a scenario that requires one.
AnsweredMeansRecorded ==
    header # "none" =>
        /\ Len(recs) = 1
        /\ recs[1].scenario = IF tooLarge THEN "" ELSE scenario.name
        /\ ~scenario.known \/ tooLarge => header = "refused"
        /\ scenario.auth /\ ~tooLarge => (header = "ok" <=> recs[1].auth = "match")
        /\ bearer = "" <=> recs[1].auth = "none"
=============================================================================
