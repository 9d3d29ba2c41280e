# RadiChat in TLA+

RadiChat is a small terminal client for OpenAI-compatible chat endpoints. It reads
lines, keeps a conversation within a budget of its own, streams one reply per
line and, in batch mode, writes one JSON record per line. This directory models
the parts of it where order, failure and arithmetic matter, checks them with TLC
on small instances and proves the central results with TLAPS.

Paths are relative to the repository. `PROJECT.json` maps every definition
that models code to its lines.

## 1. The system

| Component | Code | State | Operations |
|---|---|---|---|
| Accounting | `src/internal/chat/conversation.go:138-178` | none | `addUnits`, `Estimate`, `Fits` |
| Conversation | `src/internal/chat/conversation.go:19-135` | committed history, at most one staged turn | `Stage` (with trimming), `Commit`, `Abort`, `Clear` |
| Session loop | `src/internal/repl/repl.go`, `input.go`, `jsonl.go` | where the loop is, line number, `failedTurn`, records written | read a line, commands, a turn, exit |
| Signals | `src/main.go:18-34`, `src/internal/repl/signal.go` | channel of one signal, cause, context | receive, store the cause, cancel |
| Streaming client | `src/internal/client/client.go`, `stream.go` | the call: connection, request write, idle timer, watch, decoder | `StreamResult` |
| SSE framing | `src/internal/client/stream.go:137-234` | the buffered reader | `readSSEEvent`, `readSSELine`, `splitSSEField` |
| Redaction | `src/internal/client/client.go:306-362` | text that may be the start of the token | `push`, `flush`, `redactAssembled` |
| Mock server | `src/internal/mockllm/server.go` | `started`, `closed`, `ln`, `http`, `doneChan`, connections | `StartContext`, `Close`, `Shutdown`, `handle` |
| Startup | `src/main.go:36-159` | flags, files opened | flag, config, prompt fit, input and output checks, in this order |
| Configuration | `src/internal/config/config.go` | none | `Load` (opens and reads two files), `Parse` |
| Mock scenarios, recorder | `src/internal/mockllm/scenarios.go`, `fragment.go`, `recorder.go` | fixed wires, the list of requests | the handler of a request, one record per request |
| Mock command, discovery tests, image scripts | `src/cmd/radichat-mock`, `src/internal/discovery`, `src/scripts` | files | see section 7 |

How they interact. `main` starts one goroutine that turns the first signal into
a cancelled context, and calls `run`, which ends in the session loop. The loop
starts a goroutine per line read and waits for it or for the context. For a
message it calls `Stage`, then `StreamResult` in the same goroutine, then `Commit`
or `Abort`, and writes a record. `StreamResult` runs beside the transport's read and
write loops, an idle timer that cancels a child context, and a function that
closes the connection once that context is done. The mock server is the
endpoint of the tests, with callers of `Start`, `Close` and `Shutdown` in any goroutine; a handler per
request records it and then writes the wire of the scenario that its path names.

What is hard: the select between a line and a signal; the cause and the
context, set in two steps and read by the loop in any state; a turn that commits in
memory and then fails to write its record; the conversation's history, decided
at `Stage` and committed a stream later; a timer, a cancel, a server and a slow
output racing over one read; a flag set by a callback of another goroutine;
bytes cut anywhere, under a decoder that must neither wait nor split, and a token cut
anywhere under a filter that must not show it; fields of the mock server set outside its lock.

What makes each correct:

- *Accounting*: the int64 sum is the true sum, or an error; never a small wrong number.
- *Conversation*: whole pairs only; a staged turn fits and drops no more than it must; the history is bounded.
- *Session*: records, conversation, requests and exit status tell one story;
  one record per line; no retry; an interrupt ends the run, with the right code, once what it writes is read.
- *Stream*: the text is the server's text; success means a complete stream;
  an error names who caused it; every call ends.
- *Startup*: a session starts with what passed every check, whatever happens to the files; a result file has one
  writer; a failed start leaves nothing behind; no signal is lost.
- *Framing and redaction*: where bytes and deltas are split changes nothing; nothing
  that has arrived waits; the token is never shown; what is printed is what is kept.
- *Configuration*: with keys spelt as documented, accepted exactly when the documentation allows it, within the code's limits; and then what the others assume.
- *Mock server*: one listener, no use of a server that is not there, stops that are final, nobody waits for ever.
- *Scenarios*: what a scenario's note says of the client is what the client does, and an answer was recorded first.

## 2. Modules

```
Accounting <- Conversation <- Repl <- ReplRefinement --INSTANCE--> BatchContract
                   |            |           |
             MCConversation   MCRepl <- MCContract
Repl <- PausedOutput <- MCPaused -> MCRepl
Startup, Config <- MCStartup        (ends where Repl begins)
Stream                              (what Repl takes for granted of it: ReplContract)
Stream, SSE <- Scenarios <- MCScenarios -> SecretFilter
MockServer

ConversationProofs -> Conversation              StreamProofs     -> Stream
ReplProofs    -> Repl, ConversationProofs       MockServerProofs -> MockServer
SessionProofs -> ReplProofs, ReplRefinement     StartupProofs    -> MCStartup
DecoderProofs -> SSE, SecretFilter
ScenarioProofs -> MCScenarios, StreamProofs, DecoderProofs
```

`A <- B` and `B -> A` both say that B extends A.

| Module | Models | Notes |
|---|---|---|
| `Accounting` | the arithmetic | a text is a value with a `Size`; `MaxInt` is the width of int64 |
| `Conversation` | the four operations, in any order | `LoopStopsAt(k, user)` says that the trimming loop leaves at its k-th candidate; `err` is the error of the last call |
| `Repl` | `runOpts`, `ReadLine`, the signal goroutine | extends `Conversation` and uses its actions: `StartTurn` is `Stage`, `TurnSucceeds` is `Commit` and the record, and so on |
| `PausedOutput` | the session and whoever reads its output | adds `paused` to `Repl`; here is the fairness of the session |
| `BatchContract` | `docs/batch.md`, as a specification of file, turns and exit status | `ReplRefinement` maps `Repl` to it |
| `Stream` | one `StreamResult` | events for bytes, ticks for time |
| `Startup` | `run` up to the session, with the files of `config.Load` | several processes, and others who change the files |
| `MockServer` | the life of a server | `start[s]`, `stop[c]` are where each call is |
| `SSE` | the lines and events of the bytes that have arrived | functions; beside them the SSE standard's reading of the same bytes, by position |
| `SecretFilter` | the filter over the deltas of a reply | functions; `ReplaceSecret` is `strings.ReplaceAll` |
| `Scenarios` | the mock's handler and its catalogue of 47 scenarios and one in raw mode, with the client of `Stream` | extends `Stream`: its server's freedom is replaced by the wire of a scenario |
| `Config` | `Parse` | a function of the members of a document and of one variable of the environment |
| `MCConversation`, `MCRepl`, `MCPaused`, `MCContract`, `MCScenarios`, `MCStartup` | | values for TLC; the last two hold two systems each |
| `ConversationProofs`, `ReplProofs`, `SessionProofs` | | theorems about a conversation, the loop that uses it, and the records, requests and contract of a session |
| `StreamProofs`, `MockServerProofs`, `StartupProofs` | | theorems about a call, the mock server, and a start-up with its configuration |
| `DecoderProofs`, `ScenarioProofs` | | theorems about the filter and the framing, and about the mock in front of the client |

Operators under a comment that begins with "Mutant" are not used by any
specification. Each is a plausible bug: put in the place of the definition after it,
it makes the property that `PROJECT.json` pairs it with fail.

### Correspondence

`Repl.pc` is the place in the loop of `runOpts`: `top` (line 60), `read` (the select
of `ReadLine`), `streaming` (inside `StreamResult`), `returned` (line 155), `exited`
(`os.Exit`). The handling of a line that makes no request is one action, since
nothing in it is visible to another goroutine: `LineTooLong` is lines 78-85,
`StageRefused` 124-135, `Quit` and `ClearCommand` are `handleCommand` with the
`eof` tests that follow it. Every record write may fail (`Emit(rec, ok)`), leaving
the file torn. `mailbox` is the channel of `ReadLine`; a line in it when the
select takes `ctx.Done()` is lost, as in the code. `script`, `requests`, `firstSig`
and `nsig` are history variables: properties read them, no guard of the loop
does, except for `requests[..].late`, which says that a call was made after the
context was done. `PausedOutput` adds `paused`: a reader of standard output, standard error or the records
may stop for a while or for ever, and a step that writes need not be taken then.

`Stream.pc` follows `doStream`: `start`, `dialing` and `waiting` are inside
`http.Client.Do`; `draining` reads an error body; `top` and `top2` are the two
context checks at the head of `decodeStream`, `reading` the read of an event, `error`
and `error2` the two checks after a failed one, `output` the call of `onDelta`.
`write`, `requestSent`, `clock`, `closer` belong to the goroutines beside it.
A read takes any part of what has arrived into the `bufio.Reader`, which is what
resets the idle timer. The connection ends with the response (`fin`), by a reset or an early close (`rst`), or given up by the
network (`timeout`, which `readSSELine` words as an idle timeout); the error of a reset is returned as it is. `flushFailed` says that the write of what the
token's filter held back failed after `[DONE]` (`client.go:254-263`). `Startup.pc` names the next file operation: a Stat and the Open after it are two steps, so the
file may be replaced in between; `args` are the flags, `handle` the kind of file that was opened, `creator` who made the file at a path and `wfile` which file the records go to.
`MockServer` splits `StartContext` at each lock, unlock and
assignment another goroutine can see.

In `Scenarios` a wire is a sequence of segments of tokens, one for each byte that matters: a line end, a field name
with its colon, a content, a finish_reason. `handler` goes from reading the request through
recording and answering it to writing its segments, one flush each, to the response or to a hijacked connection, whose headers are the scenario's own.
`tooLarge` says that the request's body exceeds `maxRequestBody` (1 MiB): it is refused with 400, perhaps before it is all written, and recorded as one of no scenario. `Arrives` delivers the next
unit of what was written: the events are those `SSE.readEvents` finds in the bytes written so far, so a fragment that ends inside an
event delivers nothing until the rest is there. An event with a text and a finish_reason
is two units of `Stream`, which the decoder reads in this order.
`SSE` writes a read as a function of the bytes that have arrived and of whether more may come, with
`blocks` for a read that waits; `n` is what it took in, so that limits and positions
are the code's. In `SecretFilter` a reply is letters and the replacement a symbol that is none.
`Config` keeps a key as a name in one of two spellings, because duplicates are compared as spelt and
members are matched whatever the case of their letters; a URL is the sequence of its parts.

`MCScenarios` and `MCStartup` put two independent systems into one run each: the initial
state decides which of them moves, and the other's variables stay as they were. A run is worth its
time with some states in it, and neither the functions of `SSE` and `SecretFilter` nor `Parse` has any
of its own: the bytes, the deltas and the document are built up step by step instead.

### Simplifications

- A message, reply or prompt is a value with a length. JSON and wording are left out.
- `Repl` always has a record writer (`-output` given). Without one `emit` does
  nothing, which is `Emit` that always succeeds and is not looked at.
- An unknown command's text is not told from others; its record has no `input` here.
- An event of a stream stands for its bytes: `MaxStream` counts events. An event that cannot
  be told from another by the decoder's control flow has the same kind: all of malformed
  JSON, an error object, a second choice and tool calls are `bad`.
- Time passes only while the client waits, so a tick is never charged to the
  client's own computing. After `done` or `bad` the server sends nothing more,
  because nothing after them is ever decoded.
- The body of a refused response is one event or its end.
- JSON is left out of `SSE` and `Scenarios`: an event's value is one of the kinds the decoder tells
  apart. `Config` leaves out the lexical level: a document is an object, null, another value, malformed or blank.
- No scenario has a delay, so no time passes in `Scenarios` and no timeout fires there; time is in `Stream`.
- A request's body is too large for the mock or not, nothing more; what a refusal of the handler's own (400, 401, 404) says is not sent, as the client reads none of it into a reply.
- A request's body and headers are not compared with what a scenario expects of them (`checkExpect`).
- `net/http`, the clock and the endpoint are external: modelled from how the code
  relies on them. `http.Server` accepts a connection and registers it in one step here. It adds a
  sniffed type to a response that has a body and no type (`docs/testing-phase-5.md:65`), unless it is written in raw mode.

## 3. What is checked

| Run | Module | Question | Bounds, distinct states |
|---|---|---|---|
| `conv` | `MCConversation` | `ConvTypeOK`, `HistoryIsPairs`, `StagedIsLongestThatFits`, `HistoryWasARequest`, `TrimmingEnds`, `EstimateIsExact` in every order of calls | texts of 0, 1, 70 and 300 bytes, budget 420, width 450; 345 |
| `conv_refusal` | `MCConversation` | a refused message did not fit by itself: violated | budget 10000, reserve 9600, width 10030 |
| `repl` | `MCContract` | records, requests, conversation and exit status agree; which signal decides; an interrupt ends the run; the loop implements the contract | 3 lines, 2 signals at every point; 442k |
| `repl_liveness` | `MCPaused` | a signal ends the process, if what it writes is read again and again | 1 line, 2 signals; 6.7k |
| `stream` | `Stream` | text, success, blame, `RequestSent`, promptness, meaning of an idle timeout | 4 events sent, limit of 3, 2 deltas, idle time of 2 ticks; 12.6M |
| `stream_liveness` | `Stream` | a cancelled call returns; a call whose request was written returns | 2 events, 1 delta, output that may block; 120k |
| `stream_slow_output` | `Stream` | an idle timeout means silence, when the output may block: violated | |
| `stream_write_stall` | `Stream` | every call returns: violated | |
| `startup` | `MCStartup` | valid contents at the start of a session, one writer per result file and no existing file written to, no file left by a failed start, no signal lost; with keys spelt as documented `Parse` accepts what the documentation allows, within the code's limits | 2 processes, 1 change by others; documents 2 edits from a complete one; 549k |
| `mock_lifecycle` | `MockServer` | no use of a nil `s.http`, one listener, final stops, Done after every stop that found the server running | 2 starters, 2 stoppers, the context, 2 requests; 12.9k |
| `scenarios` | `MCScenarios` | every scenario's note is what the client does; answered means recorded; framing and redaction do not depend on where bytes are split | the catalogue and an unknown path, 2 tokens, bodies on both sides of the mock's limit; 6 bytes; replies of 5 letters, tokens of 4; 631k |
| `mock_close` | `MockServer` | a Close stops the server even during Start: violated | 1 starter, 1 stopper, 1 request |

Why the bounds are enough. `conv` has no bound on the number of calls: its state
space is finite, because histories are (`HistoryWasARequest`). Two to four pairs fill
the budget according to their texts, the longest line fails alone, an empty reply counts only its
overhead, and the width is a little over the budget so that one candidate fits, the next
is too big and a third overflows. In `Repl` the budget holds one or two turns, so
trims happen from the second turn on, and three lines allow a failure, a trim or a
clear before the line looked at; two signals are enough for the second to be dropped, to be queued
behind the first, and to come before or after the cause is stored. The theorems of section 4 hold for every
number of both. In `Stream` the server can
send one event more than the limit, a third delta goes beyond the output bound, and
two ticks let data arrive in the middle of an idle time.
`repl_liveness` is small because every fairness condition evaluates `Fits` again in each state.
In `startup` one change is enough to fall between a Stat and an Open, and every open file may also grow under its reader;
two processes meet at the output path. Two edits break two rules at once, repeat a member in either spelling, swap the
bounds of reserve and budget, and give a name to a token with or without a value; `MaxInt64` is 9, with the numbers on both sides of it.
In `scenarios` the catalogue is complete and needs no bound but those of the limits, which no scenario
reaches; six bytes hold two events, a CR LF cut in two, and an event of one byte more than every smaller limit;
five letters of two kinds hold every overlap of a token with itself (`aab` in `aaab`), cut in every way.
`mock_lifecycle` does not check deadlock: a mock server that nobody calls any more has stopped.

Fairness. `conv`, `repl`, `stream` and `scenarios` check safety and assume none. In `PausedOutput` the signal goroutine
and the steps of the loop that write nothing go on. A step that writes (a prompt, a delta, a notice, a record) goes on if it is possible again and again
while the readers of the output read; a write to a full pipe that nobody reads never ends, and the context does not interrupt it. Once the
context is done `StreamResult` returns, under the same condition, since the client's context is the caller's (`client.go:172`). Nothing is assumed of the input,
of a server that has not been cancelled, or of the readers: `SignalEndsTheRun` has as its premise that they read again and again. In `Stream` the goroutines run and the dial, header and idle timeouts expire
(`client.go:20-70`); time passes and an output takes what it is given, if late (the same provision on its readers as in `PausedOutput`); nothing is
assumed of the server, nor of the write of the request, which has no timeout. In `Startup` a process goes on unless
it waits for the other end of a FIFO or a device (in `MCStartup`, `Starts(p)`: the same step, in the half of the run where processes start). In `MockServer`
calls that have begun go on and the goroutines run; no caller has to call anything, and a
request may last for ever.

## 4. What is proved

For every value of the constants: budget, reserve and texts, number of lines and signals, limits and idle
time of a stream, processes and changes of files, callers and requests of the mock server, tokens, deltas of a reply, bytes of a stream,
edits of a document.

| Theorem | Module | States |
|---|---|---|
| `ConvTypeCorrect`, `ReplTypeCorrect`, `StreamTypeCorrect`, `StartupTypeCorrect`, `ServerTypeCorrect` | | the type invariants |
| `PairsAlways` | `ConversationProofs` | the history is whole user/assistant pairs |
| `StagedFitsAlways` | | a staged turn is the longest suffix that fits |
| `HistoryBoundedAlways`, `SessionHistoryBounded` | (and `ReplProofs`) | the history is a request that fitted and one reply, of a conversation and of a session |
| `TrimmingAlwaysEnds` | | the trimming loop never runs out of pairs |
| `EstimateAlwaysExact` | | the additions with a sticky overflow give the mathematical size of a candidate, or say that it is too wide |
| `OnlyOversizedRefused` | | if the budget is two messages below the integer width, only a message that does not fit alone is refused: how far finding 1 goes |
| `SessionsUseConversation` | `ReplProofs` | every behaviour of `Repl` is one of `ConvSpec` |
| `StagedAlwaysInFlight` | | a turn is staged exactly while its request is in flight |
| `FirstSignalAlwaysDecides` | | the exit status names the first signal |
| `AlwaysOneRecordPerLine` | `SessionProofs` | one record for each line handled, in the order of the lines |
| `NeverARetry` | | no line makes a second request |
| `InterruptAlwaysEndsTheRun` | | nothing follows an interrupted record |
| `ExitCodeAlwaysMeans` | | each exit status has its reason in the file and the signals |
| `RecordsAlwaysReplay` | | until a write fails, the records tell the conversation in memory |
| `RequestsAlwaysExplained` | | every request is the prompt, what the records before it left of the conversation, and the line |
| `SessionImplementsContract` | | `Repl` implements `BatchContract` |
| `TextIsAlwaysTheStream`, `AlwaysCompleteOrNothing` | `StreamProofs` | the text is the deltas decoded; success is a complete stream |
| `BlameAlwaysRight`, `ReplContractAlwaysKept` | | each outcome has its cause; what `Repl` assumes of a result holds |
| `AlwaysStopsPromptly` | | at most one event is decoded after the context is done |
| `IdleAlwaysMeansSilence` | | an idle timeout means a silent server, if the output does not block |
| `RedactionIsFaithful` | `DecoderProofs` | for every alphabet, token and split of a reply into deltas, what is shown holds no token and is what is kept |
| `FramingIsStandard` | | for every alphabet, bytes and limit of an event, the client reads the events of the SSE standard, each as soon as its end has arrived and whatever follows, and the limit touches only what is too long |
| `RedactionAlwaysWhole`, `SSEAlwaysReadsTheStandard`, `SSEAlwaysDeliversAtOnce` | `ScenarioProofs` | the same of the run, which lets tokens, deltas and bytes arrive one at a time |
| `MockIsAServer` | | the client in front of the mock is a behaviour of `Stream`, whose theorems hold of it |
| `AnsweredIsRecorded` | | a request that was answered had been recorded once, under its scenario with the verdict the answer agrees with, or under none if its body was too large, and then refused |
| `NotesAlwaysHold` | | every call of the catalogue with a body the mock takes ends as the note of its scenario says |
| `AlwaysAServer`, `AlwaysStartsOnce`, `StopAlwaysFinal` | `MockServerProofs` | nobody uses a nil `s.http`; one caller of Start goes on; a stopped server accepts and keeps nothing |
| `AlwaysOneWriterPerFile`, `FailureAlwaysLeavesNothing`, `SessionsAlwaysStartValid` | `StartupProofs` | no process writes to a file of somebody else's or of another process; a failed start leaves none; a session has contents that passed every check |
| `ParseAlwaysFollowsTheRules` | | of documents whose keys are spelt as documented `Parse` accepts exactly those that follow the documented rules within the code's limits, however often they were edited; the values of whatever it accepts follow them and are what the accounting assumes |

Assumptions: those of the modules, which the runs evaluate. `BudgetAssumption` is what `config.Parse` guarantees
(`ParseAlwaysFollowsTheRules`),
`SizeAssumption` says that texts have lengths that fit in an int64; `StreamAssumption` and `StartupAssumption` give the limits and the marks for no file and
no reader their types; `WatcherAssumption` keeps the callers of the mock server apart; `TextAssumption`, `NoTurnAssumption` and
`NoItemAssumption` (that the mark for no line is not a line) and the two `BoundsAssumption`s only give types. `TokensAssumption` keeps
the mark for no credential from being one. `ConfigAssumption` and `MCStartupAssumption` give the limits of `Parse`: a name of the environment and a token
have one length on each side of their limit, as the documents that `MCStartup` edits have, `MaxInt64` is any number, and the mark for
no configuration is none. `RedactionIsFaithful` is about a nonempty token (`newSecretFilter` makes no filter for an empty one) and takes `[redacted]`
as one symbol that is no letter of the reply: a token that shares letters with it is outside the model.
`FramingIsStandard` is about limits of at least one byte: `MaxEventBytes` has a default for 0 (`client.go:60`) and nothing sets a negative one. `IdleAlwaysMeansSilence` assumes `~SlowOutput` in its
statement: without it the property is violated (finding 2). `NotesAlwaysHold` assumes `EnoughRoom`, that `MaxStream` is at least 5 and `OutputLimit` at
least 3: the notes are about a client whose limits no reply of the catalogue exceeds, as are those of the tests (`client_test.go:38`) and the default (`client.go:27`).

The arguments. None of the properties is inductive by itself.

*Conversation.* `ConvInv` joins the types,
the pairs, that a staged turn is a suffix *of the history as it is now* that
fits, and that the history without its last message fits. The second of these is
what `Commit` needs to re-establish the fourth: the history after a commit, without the
reply, is the staged request. That the loop ends follows from the pairs: the
candidate with every pair dropped is the check made before the loop.
That the estimate is exact needs an induction over the messages of a candidate. `Estimate` and `TrueCost` are recursive functions; `SumsExist` and
`TotalsExist` show that the functions exist, as every prefix has one, and `CostSums` that they agree until the overflow, which then sticks.

*Session.* `LoopInv`
adds to the type of a session that a turn is staged exactly when the place in the loop is inside a
turn, and that a returned result has a text exactly when it succeeded; without it `TurnSucceeds` would not be `Commit` of a staged turn.
`SignalInv` follows the first signal through the channel, the goroutine and the cause: it is in exactly one of
them, and the context is done only when it is in the cause.
`SessionsUseConversation` is a step-by-step refinement, and carries `ConvInv` over to sessions.

*Records.* Seen from the result file a step does one of eight things: it pauses, delivers a line, finishes or skips one,
records one, asks, is answered, or concludes the run. `AccountStep` says so of every action once, and
`AccountInv` is then shown step by step: the number of records is the number of lines handled or one less, by
the place in the loop (`Aligned`); what is said of a record, a request and an exit is said with that number (`Recorded`,
`Requested`, `Interrupts`, `Exits`).

*Replay.* `ReplayInv` adds to the records that their replay is the conversation in memory, unless a write
has failed, and that the request in flight is the one `EarlierRecords` explain (`FlightAsked`). `Replay` is a recursive function over the records: `ReplayAppend`
says that one more record is one more step of it, so each of the eight steps needs only the record it writes. An earlier
request stays explained because records are only ever appended (`ExplainedStill`).

*Contract.* The turns of the contract are the pairs of the history (`TurnsOf`). Three lemmas say what
`TurnsOf` does with a dropped prefix and an appended pair; `WrittenIsLogged` maps a record, `CommitIsTurn` a commit with its record,
and every other action leaves file, turns and status alone or ends the run with the status the contract asks for. `TurnInv` adds to
`AccountInv` that an answer that succeeded is a text of `Replies` and that what is staged is the current line.

*Stream.* `StreamInv` follows the call: which goroutines exist at each place (`Phases`), what the write's callback has
told (`Told`), the cause behind each outcome (`Causes`), that an event decoded after the
context was done is the last one (`Late`), and that what was decoded is a prefix of what was sent, with the
marks that ended it at its end (`Text`). `Silent` adds that the timer has run down only while nothing arrived.

*Redaction.* The filter holds back the longest end of what it has seen that may begin a token. `filtered` says
what it has made of a text, by looking ahead: `FilteredInParts` shows that filtering a text in two parts, the second after what the first held back, is filtering it whole.
By induction over the deltas, what is shown is then what the same text shows in one (`PushedAtOnce`), which is `strings.ReplaceAll` of it with the end that was held back
replaced too, as in `redactAssembled` (`ReplaceIsFiltered`, `KeptIsShown`). No token is in it, because a token there has no replacement in it, and so it would be
a stretch of the text that the filter had let pass whole (`OutIsText`, `NoSecretOut`).

*Framing.* The client goes from line to line, the standard's reading selects positions from the whole of the bytes, so the lemmas first give both
one shape. What `InOrder` makes of a set of positions is a list of them in ascending order with none left out (`Lists`, `InOrderLists`), so two
neighbours in it border a stretch with none inside (`Borders`). A read that starts where a line starts is the standard's next line, whichever
bytes end it, and waits only for more of it or for the byte after its CR (`LineIsRead`, `NoLineIsRead`). By induction from the last line back, an event is
what lies before the next empty line (`EventIsRead`), and the reads of a stream follow the empty lines (`EventsAreRead`). With a limit a read is what it is without
one, or it breaks off where that one is too long, taking in one byte more than allowed; this holds of a line and is carried over to events and streams by the same inductions
(`LineKeepsLimit`, `EventKeepsLimit`, `EventsKeepLimit`).
The bytes that have arrived, without a CR that came last, have the line ends that all of the bytes have up to there (`Precedes`); so their lines and their events are the first
ones of the whole stream (`LinesBegin`, `EventsBegin`), and what has been delivered stays delivered.

*Scenarios.* Every step of the mock's handler is a step of the server of `Stream` or changes nothing of it (`HandlerStep`),
which carries the theorems on `Stream` to the catalogue. `RecordInv` says at each place of the handler what has been
recorded and answered; that a credential was judged once and for both follows from its form.

*Notes.* A wire is decoded from its end: by `EventIs` and `PayloadUnits` an event put before some bytes adds its units and leaves those of the rest, whichever payload
it has, and two shapes that are not events, a comment line and fields other than `data`, are treated alike (`Decodes`, `Sends`). `CatalogueWires` applies this to the
wires of the catalogue, `CrlfDecodes` to those with other line ends, and `CatalogueFits` says of every scenario what its reply is: complete where the note says `ok`,
broken or refused where it says `failed`, without an end where it says `truncated`. What the client has decoded of the segments written so far is the beginning of that reply (`RepliesBegin`, `WrittenBegins`).
`NoteInv` then follows the call: what arrived is a beginning of the reply and is all of it once the response has ended (`Coming`), what was decoded explains
`sawChoice` and `finish` (`Decoded`), and every error, end and rejection has its cause in the reply, in a cancel or in the output (`Concluded`).
It is inductive only together with `StreamInv` and `RecordInv`; TLC checked it on the run before it was proved.

*Mock server.* The one caller that set `started` is the only one past the first unlock (`OneGoes`);
before it sets `s.http` no stop can reach the server, and before it starts the goroutines none waits (`StartReaches`);
a stopped server has a closed listener or does not accept (`StoppedIsDeaf`); and whoever stopped it has left no connection behind once
past its own draining (`StopsTell`).

*Startup.* A result file is opened last, and O_EXCL lets `createOutput` open a path only when it holds nothing, so the file it gets is the one it made: without it the records
could go to what others, or another process, put there (the mutant `opensAny`). Only a session or what follows it has one (`FilesInv`); nothing after the configuration is reached without a prompt that passed its checks (`PromptInv`).

*Configuration.* `DocumentInv` gives every member of a document, edited any number of times, a key and a value of those that exist. `Parse` keeps the
last member that a key matches, and the rules speak of one that is given: `RawIsLast` and `HeldIs` relate the two, one rule
for each member follows (`EndpointRule` to `NumberRule`), and `RulesAreShapeAndMembers` puts them together. The number of members plays no part.

*Induction.* An induction is stated as the membership of every number of an interval in a set (`IntervalInduction`,
`DownwardInduction`), which follows from a least element outside it; the library's induction theorems take an operator, and
the provers cannot instantiate them. A recursive function is never unfolded: its existence is shown first, and its equations are used after it.

Only model-checked: liveness (`SignalEndsTheRun`, `CancelEndsTurn`, `EndsOnceWritten`, `SignalEndsStartup`, `StopEndsServing`), which needs `ENABLED`.
Every safety invariant and action property of a passing run has its theorem. `ServerTypeCorrect` is a lemma for those of the mock server; no run checks it.

## 5. Findings

1. *A refused turn that could have been trimmed* (`conv_refusal`). `Stage` returns the
   overflow of an untrimmed candidate (`conversation.go:63`) instead of trimming it. It needs a
   budget and a reserve both near the largest int64.
2. *A slow output looks like a silent server* (`stream_slow_output`). The idle timer
   runs while `onDelta` writes and only a `Read` resets it. `docs/protocol.md:63` promises
   that a healthy stream continues.
3. *The request write has no timeout* (`stream_write_stall`). The header timeout starts after
   the write; a peer that accepts and does not read holds the turn until a signal.
4. *A Close during Start can be lost* (`mock_close`). `StartContext` sets `s.http` after the
   unlock; a `Close` in between marks the server closed and stops nothing, and later ones
   return at once.

Findings 2 and 3 are about behaviour that the program survives with a signal; 4 is in the
test server only.

Remarks, for which there is no run: what the code does here is what the models say, and a wording elsewhere says something else.

- `docs/batch.md:15` names the input FIFO as the place where a signal has to wait; opening a FIFO given as
  `-config` blocks in the same way (`WaitsForOthers` in `Startup` lists every such place).
- `rejectDuplicateKeys` compares keys as they are spelt, while `encoding/json` matches them whatever the case of their
  letters, the last one winning: a document with `model` and `Model`, or with `ENDPOINT`, is accepted, though
  `docs/configuration.md:85` and `README.md:147` say that duplicate and unknown fields fail. `FollowsTheRules` has the rules as the
  documentation gives them, so `ParseFollowsTheRules` claims "exactly" only of documents whose keys are spelt as documented; of the
  others it claims that the values of what is accepted follow the rules. The documentation names no limit of a name, a token or a budget; those of the code are `WithinLimits`.
- `README.md:167` and `docs/cli.md:28` say that Ctrl-C cancels a turn in flight and exits. A write of a delta, a notice or a record does not look at the context: while
  a pipe is full or a terminal is paused the process stays (`repl.go:142`, `jsonl.go:46`), which is the premise of `SignalEndsTheRun`.
- `validateEndpoint` accepts a port without a host name (`http://:8080/`) and a `?` with nothing after it.
- A Close after a Shutdown that expired returns at once, and a hijacked connection is nobody's to close, though
  `server.go:174-175` says that requests in flight are cancelled.
- `AuthSpec.Token` (`mockllm.go:63-71`) is filled in by the catalogue and read by nobody: the handler compares with `Options.ExpectedBearer`,
  and an empty one accepts any credential.
- `CloseAfter` under `ModeHTTP` ends the response in the normal way; `fragment.go:28` says that the connection is closed without trailing bytes.
- A request whose body could not be read, or is too large, is recorded as one of no scenario (`HandlerCannotRead`, `HandlerRefusesBody`).
- `stream-success-no-content-type` is refused by the client, because the response gets a sniffed type; the tests know
  it (`docs/testing-phase-5.md:25,65`) and send the same wire in raw mode. `NotesHold` leaves the former out and holds of the latter.
- A last line that ends with a lone CR waits for the byte after it (`waitsAfterCR`); only LF and CRLF are promised (`docs/protocol.md:38`).

## 6. Plan

Done: the modules, runs and theorems above. What is left, in order of importance:

1. `checkExpect` and the recorded requests: what `Repl` sends against what a scenario expects, which composes `Repl`, `Conversation` and `Scenarios`.
2. `ResetRecords` and `Records` by a test, between the requests of a turn.

## 7. Not modelled

- A signal that arrives before `signal.Notify` kills the process and is not a behaviour of it.
- The wording of errors, notices and prompts; which of several wrong members of a configuration is reported.
- Of the mock server and the recorder: `checkExpect`, `recordedHeaders`, `ResetRecords` and the accessors
  (both components are *partly* modelled): the requests of the model carry neither fields nor headers to compare, but the
  credential, and nothing but a test between two calls clears the records.
- `radichat-mock`: flag parsing, listing and printing around the mock server; its signal context is the context of `MockServer`.
- The discovery tests: a harness that drives the client against the mock or a local model, sequential and without state of its own.
- The image scripts: sequential build and inspection of a container image with external tools; their state is files.
- The container and the Kubernetes example: a build recipe, certificates and manifests.
