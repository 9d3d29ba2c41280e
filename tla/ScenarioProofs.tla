----------------------------- MODULE ScenarioProofs -----------------------------
(***************************************************************************)
(* Proofs about the client against the mock, for any tokens and limits:    *)
(* what is recorded of a request that is answered; that the mock is one of *)
(* the servers StreamProofs is about; by DecoderProofs, that no reply      *)
(* shows the client's token and that the client reads, of any bytes, the   *)
(* events of the SSE standard; what it decodes of each wire of the         *)
(* catalogue; and that a call ends as the note of its scenario says.       *)
(***************************************************************************)
EXTENDS MCScenarios, StreamProofs, DecoderProofs

-----------------------------------------------------------------------------
(* The catalogue's requests and their records.                             *)

Registered == Catalog \cup rawScenarios \cup {unknownScenario}

\* A scenario without a name is the one of no scenario; one that requires a
\* credential is answered with a stream once it has it.
Orderly(s) ==
    /\ s.known \/ s.name = ""
    /\ s.auth => s.known /\ ~s.redirect /\ s.status = 200 /\ s.type = "sse" /\ s.mode = "http"

LEMMA CatalogueIsOrderly == \A s \in Registered : Orderly(s)
<1>1. \A name, texts, wire : Orderly(Succeeds(name, texts, wire))
  BY DEF Orderly, Succeeds, Scenario, Untyped, Guarded, Raw
<1>2. \A name, note, wire : Orderly(Fails(name, note, wire))
  BY DEF Orderly, Fails, Scenario, Untyped, Redirected
<1>3. \A s \in streamScenarios : Orderly(s)
  <2>1. \A name, texts, wire : Orderly(Untyped(Succeeds(name, texts, wire)))
    BY DEF Orderly, Succeeds, Scenario, Untyped, Guarded, Raw
  <2>2. QED
    BY <1>1, <2>1, Zenon DEF streamScenarios
<1>4. \A s \in framingScenarios : Orderly(s)
  BY <1>1, Zenon DEF framingScenarios
<1>5. \A s \in malformedScenarios : Orderly(s)
  BY <1>1, <1>2, Zenon DEF malformedScenarios
<1>6. \A s \in httpErrorScenarios : Orderly(s)
  <2>1. \A name, status, type, body : Orderly(Refused(name, status, type, body))
    BY DEF Orderly, Refused, Fails, Scenario
  <2>2. \A name, note, wire : Orderly(Untyped(Fails(name, note, wire)))
    BY DEF Orderly, Fails, Scenario, Untyped, Redirected
  <2>3. QED
    BY <2>1, <2>2 DEF httpErrorScenarios
<1>7. \A s \in authScenarios : Orderly(s)
  <2>1. \A name, texts, wire : Orderly(Guarded(Succeeds(name, texts, wire)))
    BY DEF Orderly, Succeeds, Scenario, Untyped, Guarded, Raw
  <2>2. QED
    BY <2>1, Zenon DEF authScenarios
<1>8. \A s \in redirectScenarios : Orderly(s)
  <2>1. \A name, note, wire : Orderly(Redirected(Fails(name, note, wire)))
    BY DEF Orderly, Fails, Scenario, Untyped, Redirected
  <2>2. QED
    BY <2>1, Zenon DEF redirectScenarios
<1>9. \A s \in contextScenarios : Orderly(s)
  BY <1>1, <1>2, Zenon DEF contextScenarios
<1>10. \A s \in rawScenarios : Orderly(s)
  <2>1. \A name, texts, wire :
           Orderly(Raw(Untyped(Succeeds(name, texts, wire))))
    BY DEF Orderly, Succeeds, Scenario, Untyped, Guarded, Raw
  <2>2. QED
    BY <2>1, Zenon DEF rawScenarios
<1>11. Orderly(unknownScenario)
  BY DEF Orderly, unknownScenario, Fails, Scenario
<1>12. QED
  BY <1>3, <1>4, <1>5, <1>6, <1>7, <1>8, <1>9, <1>10, <1>11, Zenon DEF Registered, Catalog

-----------------------------------------------------------------------------
(* What is recorded of the request, and when it is answered.               *)

theRecord ==
    <<[scenario |-> IF scenario.known /\ ~tooLarge THEN scenario.name ELSE "",
       auth |-> classifyAuth]>>

RecordInv ==
    /\ scenario \in Registered
    /\ handler \in {"reading", "answering", "writing", "returned"}
    /\ handler = "reading" => recs = <<>>
    /\ handler \in {"reading", "answering"} => header = "none"
    /\ handler \in {"answering", "writing"} => recs = theRecord
    /\ header # "none" => header = answer /\ recs = theRecord

LEMMA InitRecordInv == ScenarioInit => RecordInv
  BY DEF ScenarioInit, Init, RecordInv, Registered

\* Only the server answers.
LEMMA ClientKeepsHeader == Client => header' = header
<1>1. ASSUME NEW class, NEW wasSent, Returns(class, wasSent) PROVE header' = header
  BY <1>1 DEF Returns
<1>2. Do => header' = header
  BY <1>1 DEF Do, DoRefused, DoStarts, Connects, DialFails, WaitFails, RedirectRefused,
              DoReturns, DoFails, netVars
<1>3. Decode => header' = header
  <2>1. stay => header' = header
    BY DEF stay, netVars
  <2>2. QED
    BY <1>1, <2>1 DEF Decode, TopParent, TopIdle, ReadsBytes, ReadError, ErrorParent, ErrorIdle,
                      DecodeReturns, EventFails, Textless, Delta, Completes, FlushFails, netVars
<1>4. DrainEnds \/ Output => header' = header
  BY <1>1 DEF DrainEnds, Output, OutputWritten, OutputFails, DecodeReturns, netVars
<1>5. RequestWritten \/ WroteRequest \/ WriteFails \/ CloserRuns \/ ParentCancels
         => header' = header
  BY DEF RequestWritten, WroteRequest, WriteFails, CloserRuns, ParentCancels, netVars
<1>6. QED
  BY <1>2, <1>3, <1>4, <1>5 DEF Client

\* The record and the answer depend on what no step changes.
LEMMA RecordStays ==
    UNCHANGED <<scenario, bearer, expected, tooLarge>> => theRecord' = theRecord /\ answer' = answer
  BY DEF theRecord, classifyAuth, answer, refused, ownAnswer, contentType

LEMMA NextRecordInv == RecordInv /\ [ScenarioNext]_scenarioVars => RecordInv'
<1> SUFFICES ASSUME RecordInv, [ScenarioNext]_scenarioVars PROVE RecordInv'
  OBVIOUS
<1>1. ASSUME UNCHANGED <<mockVars, header>> PROVE RecordInv'
  BY <1>1, RecordStays DEF RecordInv, mockVars
<1>2. CASE Client /\ UNCHANGED mockVars
  BY <1>1, <1>2, ClientKeepsHeader
<1>3. CASE UNCHANGED scenarioVars
  BY <1>1, <1>3 DEF scenarioVars, vars, netVars
<1>4. CASE HandlerReads \/ HandlerRefusesBody
  <2>1. theRecord' = theRecord /\ answer' = answer
    BY <1>4, RecordStays DEF HandlerReads, HandlerRefusesBody, handles
  <2>2. header' = header /\ scenario' = scenario /\ header = "none" /\ handler' = "answering"
    BY <1>4 DEF HandlerReads, HandlerRefusesBody, handles, vars, netVars, RecordInv
  <2>3. recs' = theRecord
    <3>1. recs = <<>>
      BY <1>4 DEF HandlerReads, HandlerRefusesBody, RecordInv
    <3>5. \A r : Append(<<>>, r) = <<r>>
      OBVIOUS
    <3>2. CASE HandlerReads
      <4>1. scenario.known <=> scenario.known /\ ~tooLarge
        BY <3>2 DEF HandlerReads
      <4>2. record(scenario.known)
        BY <3>2 DEF HandlerReads
      <4>3. (IF scenario.known THEN scenario.name ELSE "")
              = (IF scenario.known /\ ~tooLarge THEN scenario.name ELSE "")
        BY <4>1
      <4>4. recs' = Append(recs, [scenario |-> IF scenario.known /\ ~tooLarge
                                              THEN scenario.name ELSE "", auth |-> classifyAuth])
        BY <4>2, <4>3, Zenon DEF record
      <4>5. QED
        BY <3>1, <3>5, <4>4, Zenon DEF theRecord
    <3>3. CASE HandlerRefusesBody
      <4>1. ~(scenario.known /\ ~tooLarge) /\ record(FALSE)
        BY <3>3 DEF HandlerRefusesBody
      <4>2. (IF scenario.known /\ ~tooLarge THEN scenario.name ELSE "") = ""
        BY <4>1
      <4>3. recs' = Append(recs, [scenario |-> IF scenario.known /\ ~tooLarge
                                              THEN scenario.name ELSE "", auth |-> classifyAuth])
        <5>1. recs' = Append(recs, [scenario |-> "", auth |-> classifyAuth])
          BY <4>1 DEF record
        <5>2. QED
          BY <4>2, <5>1, Zenon
      <4>4. QED
        BY <3>1, <3>5, <4>3, Zenon DEF theRecord
    <3>4. QED
      BY <1>4, <3>2, <3>3
  <2>4. QED
    BY <2>1, <2>2, <2>3 DEF RecordInv
<1>5. CASE HandlerCannotRead
  <2>1. header' = header /\ scenario' = scenario /\ header = "none" /\ handler' = "returned"
    BY <1>5 DEF HandlerCannotRead, handles, vars, netVars, RecordInv
  <2>2. QED
    BY <2>1 DEF RecordInv
<1>6. CASE HandlerAnswers
  <2>1. theRecord' = theRecord /\ answer' = answer
    BY <1>6, RecordStays DEF HandlerAnswers, handles
  <2>2. scenario' = scenario /\ handler' = "writing" /\ recs' = recs /\ recs = theRecord
    BY <1>6 DEF HandlerAnswers, handles, RecordInv
  <2>3. header' = header \/ header' = answer
    BY <1>6 DEF HandlerAnswers, ServerAnswers, vars, netVars
  <2>4. QED
    BY <1>6, <2>1, <2>2, <2>3 DEF RecordInv, HandlerAnswers
<1>7. CASE HandlerWrites
  <2>1. theRecord' = theRecord /\ answer' = answer
    BY <1>7, RecordStays DEF HandlerWrites, handles
  <2>2. UNCHANGED <<header, scenario, recs>> /\ handler = "writing"
         /\ handler' \in {"writing", "returned"}
    BY <1>7 DEF HandlerWrites, handles, vars, netVars
  <2>3. QED
    BY <2>1, <2>2 DEF RecordInv
<1>8. CASE Arrives
  BY <1>1, <1>8 DEF Arrives, nextUnit, ServerSends
<1>9. CASE HandlerReturns
  <2>1. theRecord' = theRecord /\ answer' = answer
    BY <1>9, RecordStays DEF HandlerReturns, handles
  <2>2. UNCHANGED <<header, scenario, recs>> /\ handler' = "returned"
    BY <1>9 DEF HandlerReturns, ServerEnds, handles, vars, netVars
  <2>3. QED
    BY <2>1, <2>2 DEF RecordInv
<1>10. QED
  BY <1>2, <1>3, <1>4, <1>5, <1>6, <1>7, <1>8, <1>9 DEF ScenarioNext, Handler, ScenarioFinished

LEMMA RecordInvMeansIt == RecordInv => AnsweredMeansRecorded
<1> SUFFICES ASSUME RecordInv, header # "none" PROVE AnsweredMeansRecorded
  BY DEF AnsweredMeansRecorded
<1>1. header = answer /\ recs = theRecord /\ Orderly(scenario)
  BY CatalogueIsOrderly DEF RecordInv
<1>2. /\ Len(recs) = 1 /\ recs[1].auth = classifyAuth
      /\ recs[1].scenario = IF scenario.known /\ ~tooLarge THEN scenario.name ELSE ""
  BY <1>1 DEF theRecord
<1>8. recs[1].scenario = IF tooLarge THEN "" ELSE scenario.name
  BY <1>1, <1>2 DEF Orderly
<1>9. ~scenario.known \/ tooLarge => header = "refused"
  BY <1>1 DEF answer, refused
<1>3. classifyAuth \in {"none", "match", "mismatch"} /\ (classifyAuth = "none" <=> bearer = "")
  BY DEF classifyAuth
<1>4. scenario.auth /\ ~tooLarge => (answer = "ok" <=> classifyAuth = "match")
  BY <1>1 DEF answer, refused, ownAnswer, contentType, Orderly
<1>5. scenario.auth /\ ~tooLarge => (header = "ok" <=> recs[1].auth = "match")
  BY <1>1, <1>2, <1>4
<1>6. bearer = "" <=> recs[1].auth = "none"
  BY <1>2, <1>3
<1>7. QED
  BY <1>2, <1>5, <1>6, <1>8, <1>9, Zenon DEF AnsweredMeansRecorded

LEMMA RecordInvAlways == ScenarioSpec => []RecordInv
  BY InitRecordInv, NextRecordInv, PTL DEF ScenarioSpec

\* A request is recorded before it is answered, once, with the verdict on its
\* credential, and under the scenario that answers it, or under none if it is
\* refused for its path or its size, wherever the client goes away.
THEOREM AnsweredIsRecorded == ScenarioSpec => []AnsweredMeansRecorded
  BY RecordInvAlways, RecordInvMeansIt, PTL

-----------------------------------------------------------------------------
(* A scenario of the mock is a server of Stream.                           *)

LEMMA HandlerStep == Handler => [Next]_vars
<1>1. HandlerReads \/ HandlerRefusesBody \/ HandlerCannotRead \/ HandlerWrites => UNCHANGED vars
  BY DEF HandlerReads, HandlerRefusesBody, HandlerCannotRead, HandlerWrites
<1>2. HandlerAnswers => [Next]_vars
  BY DEF HandlerAnswers, Next, answer, ownAnswer
<1>3. Arrives => [Next]_vars
  BY DEF Arrives, nextUnit, Next
<1>4. HandlerReturns => [Next]_vars
  BY DEF HandlerReturns, Next, Lost
<1>5. QED
  BY <1>1, <1>2, <1>3, <1>4 DEF Handler

\* Every behaviour of the client in front of the mock is one of the client in
\* front of the server of which nothing is assumed.
THEOREM MockIsAServer == ScenarioSpec => Spec
<1>1. ScenarioInit => Init
  BY DEF ScenarioInit
<1>2. [ScenarioNext]_scenarioVars => [Next]_vars
  BY HandlerStep DEF ScenarioNext, scenarioVars, Client, Next, ScenarioFinished
<1>3. QED
  BY <1>1, <1>2, PTL DEF ScenarioSpec, Spec

\* The run's behaviours of the catalogue are these.
LEMMA RunsAreScenarios == MCSpec => ScenarioSpec
<1>1. MCInit => ScenarioInit
  BY DEF MCInit
<1>2. [MCNext]_<<scenarioVars, decoderVars>> => [ScenarioNext]_scenarioVars
  BY DEF MCNext, ByteArrives, DeltaArrives
<1>3. QED
  BY <1>1, <1>2, PTL DEF MCSpec, ScenarioSpec

-----------------------------------------------------------------------------
(* The redaction of replies.                                               *)

RedactionInv == secret \in Seq(Letters) /\ deltas \in Seq(Seq(Letters))

LEMMA TextsAreSequences ==
    ASSUME NEW n \in Int, NEW text \in TextsUpTo(n)
    PROVE  text \in Seq(Letters) /\ text # <<>>
  BY DEF TextsUpTo

LEMMA InitRedactionInv == MCInit => RedactionInv
<1> SUFFICES ASSUME MCInit PROVE RedactionInv
  OBVIOUS
<1>1. MaxText - 1 \in Int
  BY BoundsAssumption
<1>2. secret = <<>> \/ secret \in TextsUpTo(MaxText - 1)
  BY DEF MCInit
<1>3. secret \in Seq(Letters)
  <2>1. CASE secret = <<>>
    BY <2>1
  <2>2. CASE secret \in TextsUpTo(MaxText - 1)
    BY <1>1, <2>2, TextsAreSequences, Zenon
  <2>3. QED
    BY <1>2, <2>1, <2>2
<1>4. deltas = <<>>
  BY DEF MCInit
<1>5. QED
  BY <1>3, <1>4 DEF RedactionInv

LEMMA NextRedactionInv ==
    RedactionInv /\ [MCNext]_<<scenarioVars, decoderVars>> => RedactionInv'
<1> SUFFICES ASSUME RedactionInv, [MCNext]_<<scenarioVars, decoderVars>> PROVE RedactionInv'
  OBVIOUS
<1>1. CASE DeltaArrives
  <2>1. MaxText - Len(FlattenSeq(deltas)) \in Int
    <3>1. FlattenSeq(deltas) \in Seq(Letters)
      BY FlattenType DEF RedactionInv
    <3>2. Len(FlattenSeq(deltas)) \in Nat
      BY <3>1
    <3>3. QED
      BY <3>2, BoundsAssumption
  <2>2. PICK text \in TextsUpTo(MaxText - Len(FlattenSeq(deltas))) : deltas' = Append(deltas, text)
    BY <1>1 DEF DeltaArrives
  <2>3. text \in Seq(Letters)
    BY <2>1, <2>2, TextsAreSequences
  <2>4. secret' = secret
    BY <1>1 DEF DeltaArrives
  <2>5. QED
    BY <2>2, <2>3, <2>4 DEF RedactionInv
<1>2. CASE UNCHANGED <<secret, deltas>>
  BY <1>2 DEF RedactionInv
<1>3. QED
  BY <1>1, <1>2 DEF MCNext, ByteArrives, decoderVars

\* Whatever the token and the deltas of a reply, in the run's letters: nothing
\* printed has the token in it, and what is printed is what is kept.
THEOREM RedactionAlwaysWhole == MCSpec => []RedactionIsWhole
<1>1. RedactionInv => RedactionIsWhole
  <2> SUFFICES ASSUME RedactionInv, ~catalogue PROVE ShowsWhatItKeeps(secret, deltas)
    BY DEF RedactionIsWhole
  <2>1. secretReplacement \notin Letters
    BY DEF secretReplacement, Letters
  <2>2. secret \in Seq(Letters) /\ secret # <<>> /\ deltas \in Seq(Seq(Letters))
    BY DEF RedactionInv, catalogue
  <2>3. QED
    BY <2>1, <2>2, RedactionIsFaithful
<1>2. MCSpec => []RedactionInv
  BY InitRedactionInv, NextRedactionInv, PTL DEF MCSpec
<1>3. QED
  BY <1>1, <1>2, PTL

-----------------------------------------------------------------------------
(* The framing of what arrives.                                            *)

Bytes == {"CR", "LF", "data:", ":", "v"}

LEMMA BytesArrive == MCSpec => [](bytes \in Seq(Bytes))
<1>1. MCInit => bytes \in Seq(Bytes)
  <2>1. MCInit => bytes = <<>>
    BY Zenon DEF MCInit
  <2>2. <<>> \in Seq(Bytes)
    OBVIOUS
  <2>3. QED
    BY <2>1, <2>2
<1>2. bytes \in Seq(Bytes) /\ [MCNext]_<<scenarioVars, decoderVars>> => (bytes \in Seq(Bytes))'
  <2> SUFFICES ASSUME bytes \in Seq(Bytes), [MCNext]_<<scenarioVars, decoderVars>>
               PROVE  bytes' \in Seq(Bytes)
    OBVIOUS
  <2>1. CASE ByteArrives
    BY <2>1 DEF ByteArrives, Bytes
  <2>2. CASE UNCHANGED bytes
    BY <2>2
  <2>3. QED
    BY <2>1, <2>2 DEF MCNext, DeltaArrives, decoderVars
<1>3. QED
  BY <1>1, <1>2, PTL DEF MCSpec

\* Of a stream that has ended the client reads the events of the SSE standard,
\* and no limit on an event changes what it reads but of one that is too long,
\* however many bytes the run has.
THEOREM SSEAlwaysReadsTheStandard == MCSpec => []SSEReadsTheStandard
<1>1. bytes \in Seq(Bytes) => SSEReadsTheStandard
  <2> SUFFICES ASSUME bytes \in Seq(Bytes) PROVE SSEReadsTheStandard
    OBVIOUS
  <2>1. ReadsTheStandard(bytes) /\ \A max \in Nat \ {0} : KeepsTheLimit(bytes, max)
    BY FramingIsStandard
  <2>2. \A max \in 1..(MaxBytes + 1) : max \in Nat \ {0}
    BY BoundsAssumption
  <2>3. QED
    BY <2>1, <2>2, Zenon DEF SSEReadsTheStandard
<1>2. QED
  BY <1>1, BytesArrive, PTL

\* Of a stream that goes on the client has delivered every event that has ended,
\* but one whose last byte is a CR that may have an LF to come, and what it has
\* delivered of some of the bytes is what it delivers first of them all.
THEOREM SSEAlwaysDeliversAtOnce == MCSpec => []SSEDeliversAtOnce
<1>1. bytes \in Seq(Bytes) => SSEDeliversAtOnce
  BY FramingIsStandard DEF SSEDeliversAtOnce
<1>2. QED
  BY <1>1, BytesArrive, PTL

-----------------------------------------------------------------------------
(* What the client decodes of a wire.                                      *)

\* The bytes of the catalogue's wires.
payloads == {"malformed-json-event", "malformed-delta-content-not-string", "malformed-multiple-choices",
             "stream-error-object", "stream-error-non-object", "stream-tool-calls-rejected",
             "stream-function-call-rejected"}

values == {"text", "none", "null", "stop", "length", "content_filter", "weird_reason"}

WireBytes ==
    {"CR", "LF", "data:", "[DO", "NE]", "cut", "body", ":", "keep-alive", "event:", "message",
     "id:", "1", "retry:", "100"} \cup values \cup payloads

\* The units of all the events of some bytes.
unitsIn(b) == unitsOfAll(StandardEvents(b))

LEMMA UnitsType == \A v : unitsOf(v) \in Seq(Kinds)
<1> SUFFICES ASSUME NEW v PROVE unitsOf(v) \in Seq(Kinds)
  OBVIOUS
<1>1. \A x \in Kinds : <<x>> \in Seq(Kinds)
  OBVIOUS
<1>2. <<>> \in Seq(Kinds)
  OBVIOUS
<1>3. {"delta", "comment", "role", "finishOk", "finishBad", "bad", "done"} = Kinds
  BY DEF Kinds
<1> DEFINE first == IF v[1] = "text" THEN <<"delta">> ELSE <<>>
           second == CASE v[2] \in {"stop", "length"} -> <<"finishOk">>
                       [] v[2] = "null" -> IF v[1] = "none" THEN <<"role">> ELSE <<>>
                       [] OTHER -> <<"finishBad">>
<1>4. first \in Seq(Kinds)
  BY <1>1, <1>2, <1>3
<1>5. second \in Seq(Kinds)
  BY <1>1, <1>2, <1>3
<1>6. first \o second \in Seq(Kinds)
  <2> HIDE DEF first, second
  <2>1. QED
    BY <1>4, <1>5
<1> DEFINE all == first \o second
<1>7. unitsOf(v) = CASE v = <<>> -> <<"comment">>
                     [] v = <<"[DO", "NE]">> -> <<"done">>
                     [] OTHER -> IF Len(v) = 2 /\ v[1] \in {"text", "none"} THEN all ELSE <<"bad">>
  BY Zenon DEF unitsOf
<1> HIDE DEF all
<1>8. <<"comment">> \in Seq(Kinds) /\ <<"done">> \in Seq(Kinds) /\ <<"bad">> \in Seq(Kinds)
  BY <1>1, <1>3
<1>9. QED
  BY <1>6, <1>7, <1>8 DEF all

LEMMA UnitsOfFirst ==
    ASSUME NEW d \in Seq(Seq(WireBytes)), NEW E \in Seq(Seq(Seq(WireBytes)))
    PROVE  unitsOfAll(<<d>> \o E) = unitsOf(FlattenSeq(d)) \o unitsOfAll(E)
<1> DEFINE T == Seq(Seq(WireBytes))
           R == Seq(Kinds)
           g(x) == unitsOf(FlattenSeq(x))
           D == <<d>> \o E
           p == [i \in DOMAIN E |-> g(E[i])]
           q == [i \in DOMAIN D |-> g(D[i])]
<1>1. \A x : g(x) \in R
  BY UnitsType
<1>2. d \in T /\ E \in Seq(T)
  OBVIOUS
<1> HIDE DEF T, R, g
<1>3. /\ Len(E) \in Nat /\ Len(D) = Len(E) + 1 /\ D[1] = d /\ (\A i \in 1..Len(E) : D[i + 1] = E[i])
      /\ DOMAIN E = 1..Len(E) /\ DOMAIN D = 1..Len(D)
  BY <1>2
<1> HIDE DEF D
<1>4. p \in Seq(R) /\ Len(p) = Len(E) /\ \A i \in 1..Len(E) : p[i] = g(E[i])
  BY <1>1, <1>3
<1>5. q \in Seq(R) /\ Len(q) = Len(D) /\ \A i \in 1..Len(D) : q[i] = g(D[i])
  BY <1>1, <1>3
<1> HIDE DEF p, q
<1>6. q = <<g(d)>> \o p
  <2> DEFINE a == <<g(d)>>
             c == a \o p
  <2>1. a \in Seq(R) /\ Len(a) = 1 /\ a[1] = g(d)
    BY <1>1
  <2> HIDE DEF a
  <2>2. /\ a \o p \in Seq(R) /\ Len(a \o p) = Len(a) + Len(p)
        /\ \A i \in 1..Len(a) : (a \o p)[i] = a[i]
        /\ \A i \in 1..Len(p) : (a \o p)[Len(a) + i] = p[i]
    <3>1. p \in Seq(R) /\ a \in Seq(R)
      BY <1>4, <2>1
    <3>2. QED
      BY <3>1, ConcatElements
  <2> HIDE DEF c
  <2>3. c \in Seq(R) /\ Len(c) = Len(E) + 1 /\ c[1] = g(d) /\ \A i \in 1..Len(E) : c[1 + i] = p[i]
    BY <1>3, <1>4, <2>1, <2>2 DEF c
  <2>4. ASSUME NEW i \in 1..Len(q) PROVE q[i] = c[i]
    <3>1. CASE i = 1
      BY <1>3, <1>5, <2>3, <3>1
    <3>2. CASE i # 1
      <4>1. i - 1 \in 1..Len(E) /\ 1 + (i - 1) = i /\ (i - 1) + 1 = i
        BY <1>3, <1>5, <3>2
      <4>2. q[i] = g(D[i]) /\ D[(i - 1) + 1] = E[i - 1] /\ c[1 + (i - 1)] = p[i - 1] /\ p[i - 1] = g(E[i - 1])
        BY <1>3, <1>4, <1>5, <2>3, <4>1
      <4>3. QED
        BY <4>1, <4>2
    <3>3. QED
      BY <3>1, <3>2
  <2>5. q = c
    BY <1>3, <1>5, <2>3, <2>4, SeqEqual
  <2>6. QED
    BY <2>5 DEF c, a
<1>7. g(d) \in Seq(Kinds) /\ p \in Seq(Seq(Kinds))
  BY <1>1, <1>4 DEF R
<1>8. FlattenSeq(<<g(d)>> \o p) = g(d) \o FlattenSeq(p)
  BY <1>7, FlattenFirst
<1>9. unitsOfAll(D) = FlattenSeq(q) /\ unitsOfAll(E) = FlattenSeq(p)
  BY Zenon DEF unitsOfAll, p, q, g
<1>10. QED
  BY <1>6, <1>8, <1>9, Zenon DEF D, g

LEMMA NoUnits == unitsIn(<<>>) = <<>>
<1>1. <<>> \in Seq(WireBytes) /\ NoEnds(<<>>)
  BY DEF NoEnds
<1>2. StandardEvents(<<>>) = <<>>
  BY <1>1, NoEventYet
<1>3. [i \in DOMAIN <<>> |-> unitsOf(FlattenSeq(<<>>[i]))] = <<>>
  OBVIOUS
<1>4. QED
  BY <1>2, <1>3, FlattenNone, Zenon DEF unitsIn, unitsOfAll

LEMMA EventUnits ==
    ASSUME NEW t \in Seq(WireBytes), NEW u \in Seq(WireBytes), NEW v, NEW d \in Seq(Seq(WireBytes)),
           FlattenSeq(d) = v, EventOf(WireBytes, t, d, u)
    PROVE  unitsIn(t) = unitsOf(v) \o unitsIn(u)
<1>1. StandardEvents(t) = <<d>> \o StandardEvents(u)
  BY EventIs
<1>2. StandardEvents(u) \in Seq(Seq(Seq(WireBytes)))
  BY StandardType
<1> DEFINE E == StandardEvents(u)
<1> HIDE DEF E
<1>3. unitsOfAll(<<d>> \o E) = unitsOf(FlattenSeq(d)) \o unitsOfAll(E)
  BY <1>2, UnitsOfFirst DEF E
<1>4. QED
  BY <1>1, <1>3, Zenon DEF unitsIn, E

\* A line of data and an empty one.
LEMMA PayloadEvent ==
    ASSUME NEW v \in Seq(WireBytes), NoEnds(v), NEW e \in WrittenEnds, NEW u \in Seq(WireBytes)
    PROVE  /\ EventOf(WireBytes, ((<<"data:">> \o v) \o e) \o (e \o u), <<v>>, u)
           /\ ((<<"data:">> \o v) \o e) \o (e \o u) \in Seq(WireBytes)
           /\ <<v>> \in Seq(Seq(WireBytes)) /\ FlattenSeq(<<v>>) = v
<1> DEFINE l == <<"data:">> \o v
           t == (l \o e) \o (e \o u)
           d == <<v>> \o <<>>
<1>1. l \in Seq(WireBytes) /\ l # <<>> /\ l[1] = "data:" /\ Tail(l) = v /\ NoEnds(l)
  <2>1. l \in Seq(WireBytes) /\ Len(l) = Len(v) + 1 /\ l[1] = "data:" /\ \A j \in 1..Len(v) : l[j + 1] = v[j]
    <3> DEFINE S == WireBytes
    <3>1. "data:" \in S /\ v \in Seq(S)
      BY DEF WireBytes
    <3> HIDE DEF S
    <3>2. /\ l \in Seq(S) /\ Len(l) = Len(v) + 1 /\ l[1] = "data:"
          /\ \A j \in 1..Len(v) : l[j + 1] = v[j]
      BY <3>1
    <3>3. QED
      BY <3>2 DEF S
  <2>2. Tail(l) = v
    <3> HIDE DEF l
    <3>1. \A j \in 1..Len(v) : Tail(l)[j] = v[j]
      BY <2>1
    <3>2. Tail(l) \in Seq(WireBytes) /\ Len(Tail(l)) = Len(v)
      BY <2>1
    <3>3. QED
      BY <3>1, <3>2, SeqEqual
  <2> HIDE DEF l
  <2>3. ASSUME NEW j \in 1..Len(l) PROVE l[j] \notin LineEnds
    <3>1. CASE j = 1
      BY <2>1, <3>1 DEF LineEnds
    <3>2. CASE j # 1
      <4>1. j - 1 \in 1..Len(v) /\ (j - 1) + 1 = j
        BY <2>1, <3>2
      <4>2. l[(j - 1) + 1] = v[j - 1] /\ v[j - 1] \notin LineEnds
        BY <2>1, <4>1 DEF NoEnds
      <4>3. QED
        BY <4>1, <4>2
    <3>3. QED
      BY <3>1, <3>2
  <2>4. l # <<>>
    BY <2>1
  <2>5. QED
    BY <2>1, <2>2, <2>3, <2>4 DEF NoEnds
<1>2. e \in Seq(WireBytes)
  <2> DEFINE S == WireBytes
  <2>1. "LF" \in S /\ "CR" \in S
    BY DEF WireBytes
  <2> HIDE DEF S
  <2>2. <<"LF">> \in Seq(S) /\ <<"CR", "LF">> \in Seq(S)
    BY <2>1
  <2>3. QED
    BY <2>2 DEF WrittenEnds, S
<1> HIDE DEF l
<1>3. EventOf(WireBytes, e \o u, <<>>, u)
  BY <1>2, EndsHere
<1>4. dataValues(l) = <<v>>
  BY <1>1, Zenon DEF dataValues
<1>5. e \o u \in Seq(WireBytes) /\ t \in Seq(WireBytes)
  BY <1>1, <1>2
<1>6. EventOf(WireBytes, t, dataValues(l) \o <<>>, u)
  <2> DEFINE s == e \o u
             none == <<>>
  <2>1. s \in Seq(WireBytes) /\ EventOf(WireBytes, s, none, u)
    BY <1>3, <1>5
  <2> HIDE DEF s, none
  <2>2. EventOf(WireBytes, (l \o e) \o s, dataValues(l) \o none, u)
    BY <1>1, <1>2, <2>1, LineAdds
  <2>3. QED
    BY <2>2 DEF s, none
<1>7. <<v>> \in Seq(Seq(WireBytes)) /\ <<v>> \o <<>> = <<v>>
  <2> DEFINE T == Seq(WireBytes)
  <2>1. v \in T
    OBVIOUS
  <2> HIDE DEF T
  <2>2. <<v>> \in Seq(T) /\ <<v>> \o <<>> = <<v>>
    BY <2>1
  <2>3. QED
    BY <2>2 DEF T
<1>8. FlattenSeq(<<v>>) = v
  BY FlattenOne
<1>9. EventOf(WireBytes, t, <<v>>, u)
  BY <1>4, <1>6, <1>7, Zenon
<1>10. QED
  BY <1>5, <1>7, <1>8, <1>9, Zenon DEF t, l

LEMMA PayloadUnits ==
    ASSUME NEW v \in Seq(WireBytes), NoEnds(v), NEW e \in WrittenEnds, NEW u \in Seq(WireBytes)
    PROVE  unitsIn(((<<"data:">> \o v) \o e) \o (e \o u)) = unitsOf(v) \o unitsIn(u)
<1> DEFINE t == ((<<"data:">> \o v) \o e) \o (e \o u)
           d == <<v>>
<1>1. /\ EventOf(WireBytes, t, d, u) /\ t \in Seq(WireBytes)
      /\ d \in Seq(Seq(WireBytes)) /\ FlattenSeq(d) = v
  BY PayloadEvent
<1> HIDE DEF t, d
<1>2. unitsIn(t) = unitsOf(v) \o unitsIn(u)
  BY <1>1, EventUnits
<1>3. QED
  BY <1>2 DEF t

\* A line of data and an empty one, byte by byte.
Spells(t, a, v, e) ==
    /\ Len(t) = 1 + Len(v) + Len(e) + Len(e) /\ t[1] = a
    /\ \A i \in 1..Len(v) : t[1 + i] = v[i]
    /\ \A i \in 1..Len(e) : t[1 + Len(v) + i] = e[i] /\ t[1 + Len(v) + Len(e) + i] = e[i]

\* The event written in parts, in front of u, is t in front of u.
WrittenAs(t, a, v, e, u) == ((<<a>> \o v) \o e) \o (e \o u) = t \o u

LEMMA Spelled ==
    ASSUME NEW T, NEW a \in T, NEW v \in Seq(T), NEW e \in Seq(T), NEW u \in Seq(T), NEW t \in Seq(T),
           Spells(t, a, v, e)
    PROVE  WrittenAs(t, a, v, e, u)
<1> DEFINE l == <<a>> \o v
           p == l \o e
           q == p \o e
           n == Len(v)
           m == Len(e)
<1>1. n \in Nat /\ m \in Nat /\ l \in Seq(T) /\ Len(l) = 1 + n /\ l[1] = a /\ \A i \in 1..n : l[1 + i] = v[i]
  OBVIOUS
<1> HIDE DEF l
<1>2. /\ p \in Seq(T) /\ Len(p) = 1 + n + m
      /\ (\A i \in 1..(1 + n) : p[i] = l[i]) /\ \A i \in 1..m : p[1 + n + i] = e[i]
  <2>1. /\ p \in Seq(T) /\ Len(p) = Len(l) + Len(e)
        /\ (\A i \in 1..Len(l) : p[i] = l[i]) /\ \A i \in 1..Len(e) : p[Len(l) + i] = e[i]
    <3>1. l \in Seq(T)
      BY <1>1
    <3>2. QED
      BY <3>1, ConcatElements
  <2> HIDE DEF p
  <2>2. QED
    BY <1>1, <2>1
<1> HIDE DEF p
<1>3. \A i \in 1..Len(p) : t[i] = p[i]
  <2> SUFFICES ASSUME NEW i \in 1..Len(p) PROVE t[i] = p[i]
    OBVIOUS
  <2>1. CASE i = 1
    BY <1>1, <1>2, <2>1 DEF Spells
  <2>2. CASE i > 1 /\ i <= 1 + n
    <3>1. i - 1 \in 1..n /\ 1 + (i - 1) = i /\ i \in 1..(1 + n)
      BY <1>1, <2>2
    <3>2. t[1 + (i - 1)] = v[i - 1] /\ l[1 + (i - 1)] = v[i - 1] /\ p[i] = l[i]
      BY <1>1, <1>2, <3>1 DEF Spells
    <3>3. QED
      BY <3>1, <3>2
  <2>3. CASE i > 1 + n
    <3> DEFINE j == i - (1 + n)
    <3>1. j \in 1..m /\ 1 + n + j = i
      BY <1>1, <1>2, <2>3
    <3> HIDE DEF j
    <3>2. t[1 + n + j] = e[j] /\ p[1 + n + j] = e[j]
      BY <1>2, <3>1 DEF Spells
    <3>3. QED
      BY <3>1, <3>2
  <2>4. QED
    BY <1>1, <2>1, <2>2, <2>3
<1>4. Len(t) = Len(p) + Len(e) /\ \A i \in 1..Len(e) : t[Len(p) + i] = e[i]
  BY <1>1, <1>2 DEF Spells
<1>5. q = t
  BY <1>2, <1>3, <1>4, JoinedIs
<1>6. Regrouped(p, e, u)
  BY <1>2, Regroups
<1>7. QED
  BY <1>5, <1>6, Zenon DEF WrittenAs, Regrouped, p, l

\* An event of data v and ends e that t spells out.
LEMMA SpelledUnits ==
    ASSUME NEW v \in Seq(WireBytes), NoEnds(v), NEW e \in WrittenEnds, NEW u \in Seq(WireBytes),
           NEW t \in Seq(WireBytes), Spells(t, "data:", v, e)
    PROVE  unitsIn(t \o u) = unitsOf(v) \o unitsIn(u)
<1>1. "data:" \in WireBytes /\ "LF" \in WireBytes /\ "CR" \in WireBytes
  BY DEF WireBytes
<1>2. e \in Seq(WireBytes)
  <2> HIDE DEF WireBytes
  <2>1. <<"LF">> \in Seq(WireBytes) /\ <<"CR", "LF">> \in Seq(WireBytes)
    BY <1>1
  <2>2. QED
    BY <2>1 DEF WrittenEnds
<1>3. unitsIn(((<<"data:">> \o v) \o e) \o (e \o u)) = unitsOf(v) \o unitsIn(u)
  BY PayloadUnits
<1>4. ((<<"data:">> \o v) \o e) \o (e \o u) = t \o u
  <2>1. WrittenAs(t, "data:", v, e, u)
    BY <1>1, <1>2, Spelled
  <2>2. QED
    BY <2>1, Zenon DEF WrittenAs
<1>5. QED
  BY <1>3, <1>4, Zenon

\* Two bytes of data.
LEMMA PairUnits ==
    ASSUME NEW c \in WireBytes \ LineEnds, NEW r \in WireBytes \ LineEnds, NEW u \in Seq(WireBytes)
    PROVE  /\ <<"data:", c, r, "LF", "LF">> \in Seq(WireBytes)
           /\ unitsIn(<<"data:", c, r, "LF", "LF">> \o u) = unitsOf(<<c, r>>) \o unitsIn(u)
           /\ <<"data:", c, r, "CR", "LF", "CR", "LF">> \in Seq(WireBytes)
           /\ unitsIn(<<"data:", c, r, "CR", "LF", "CR", "LF">> \o u) = unitsOf(<<c, r>>) \o unitsIn(u)
<1> DEFINE v == <<c, r>>
           lf == <<"LF">>
           ends == <<"CR", "LF">>
           s == <<"data:", c, r, "LF", "LF">>
           t == <<"data:", c, r, "CR", "LF", "CR", "LF">>
<1>1. "data:" \in WireBytes /\ "LF" \in WireBytes /\ "CR" \in WireBytes
  BY DEF WireBytes
<1>2. v \in Seq(WireBytes) /\ s \in Seq(WireBytes) /\ t \in Seq(WireBytes)
  BY <1>1
<1>3. NoEnds(v)
  BY DEF NoEnds
<1>4. Spells(s, "data:", v, lf)
  <2>1. Len(v) = 2 /\ Len(lf) = 1 /\ Len(s) = 5 /\ lf[1] = "LF" /\ v[1] = c /\ v[2] = r
         /\ s[1] = "data:" /\ s[2] = c /\ s[3] = r /\ s[4] = "LF" /\ s[5] = "LF"
    OBVIOUS
  <2> HIDE DEF v, s, lf
  <2>2. \A i \in 1..2 : s[1 + i] = v[i]
    BY <2>1
  <2>3. \A i \in 1..1 : s[1 + 2 + i] = lf[i] /\ s[1 + 2 + 1 + i] = lf[i]
    BY <2>1
  <2>4. QED
    BY <2>1, <2>2, <2>3 DEF Spells
<1>5. Spells(t, "data:", v, ends)
  <2>1. Len(v) = 2 /\ Len(ends) = 2 /\ Len(t) = 7 /\ ends[1] = "CR" /\ ends[2] = "LF" /\ v[1] = c
         /\ v[2] = r /\ t[1] = "data:" /\ t[2] = c /\ t[3] = r /\ t[4] = "CR" /\ t[5] = "LF"
         /\ t[6] = "CR" /\ t[7] = "LF"
    OBVIOUS
  <2> HIDE DEF v, t, ends
  <2>2. \A i \in 1..2 : t[1 + i] = v[i]
    BY <2>1
  <2>3. \A i \in 1..2 : t[1 + 2 + i] = ends[i] /\ t[1 + 2 + 2 + i] = ends[i]
    BY <2>1
  <2>4. QED
    BY <2>1, <2>2, <2>3 DEF Spells
<1>6. lf \in WrittenEnds /\ ends \in WrittenEnds
  BY DEF WrittenEnds
<1> HIDE DEF v, s, t, lf, ends
<1>7. unitsIn(s \o u) = unitsOf(v) \o unitsIn(u)
  BY <1>2, <1>3, <1>4, <1>6, SpelledUnits
<1>8. unitsIn(t \o u) = unitsOf(v) \o unitsIn(u)
  BY <1>2, <1>3, <1>5, <1>6, SpelledUnits
<1>9. QED
  BY <1>2, <1>7, <1>8 DEF v, s, t

\* One byte of data.
LEMMA SingleUnits ==
    ASSUME NEW c \in WireBytes \ LineEnds, NEW u \in Seq(WireBytes)
    PROVE  rawEvent(c) \in Seq(WireBytes) /\ unitsIn(rawEvent(c) \o u) = unitsOf(<<c>>) \o unitsIn(u)
<1> DEFINE v == <<c>>
           lf == <<"LF">>
           s == <<"data:", c, "LF", "LF">>
<1>1. "data:" \in WireBytes /\ "LF" \in WireBytes
  BY DEF WireBytes
<1>2. v \in Seq(WireBytes) /\ s \in Seq(WireBytes)
  BY <1>1
<1>3. NoEnds(v)
  BY DEF NoEnds
<1>4. Spells(s, "data:", v, lf)
  <2>1. Len(v) = 1 /\ Len(lf) = 1 /\ Len(s) = 4 /\ lf[1] = "LF" /\ v[1] = c
         /\ s[1] = "data:" /\ s[2] = c /\ s[3] = "LF" /\ s[4] = "LF"
    OBVIOUS
  <2> HIDE DEF v, s, lf
  <2>2. \A i \in 1..1 : s[1 + i] = v[i]
    BY <2>1
  <2>3. \A i \in 1..1 : s[1 + 1 + i] = lf[i] /\ s[1 + 1 + 1 + i] = lf[i]
    BY <2>1
  <2>4. QED
    BY <2>1, <2>2, <2>3 DEF Spells
<1>5. lf \in WrittenEnds
  BY DEF WrittenEnds
<1> HIDE DEF v, s, lf
<1>6. unitsIn(s \o u) = unitsOf(v) \o unitsIn(u)
  BY <1>2, <1>3, <1>4, <1>5, SpelledUnits
<1>7. QED
  BY <1>2, <1>6 DEF v, s, rawEvent

LEMMA UnitValues ==
    /\ unitsOf(<<>>) = <<"comment">>
    /\ unitsOf(<<"[DO", "NE]">>) = <<"done">>
    /\ \A payload \in payloads : unitsOf(<<payload>>) = <<"bad">>
    /\ unitsOf(<<"text", "null">>) = <<"delta">>
    /\ unitsOf(<<"none", "null">>) = <<"role">>
    /\ \A reason \in {"stop", "length"} : unitsOf(<<"none", reason>>) = <<"finishOk">>
    /\ \A reason \in {"content_filter", "weird_reason"} : unitsOf(<<"none", reason>>) = <<"finishBad">>
    /\ unitsOf(<<"text", "stop">>) = <<"delta", "finishOk">>
<1>1. unitsOf(<<>>) = <<"comment">>
  BY DEF unitsOf
<1>2. unitsOf(<<"[DO", "NE]">>) = <<"done">>
  BY DEF unitsOf
<1>3. ASSUME NEW payload \in payloads PROVE unitsOf(<<payload>>) = <<"bad">>
  <2>1. <<payload>> # <<>> /\ <<payload>> # <<"[DO", "NE]">> /\ Len(<<payload>>) = 1
    OBVIOUS
  <2> DEFINE v == <<payload>>
  <2> HIDE DEF v
  <2>2. v # <<>> /\ v # <<"[DO", "NE]">> /\ ~(Len(v) = 2)
    BY <2>1 DEF v
  <2>3. unitsOf(v) = <<"bad">>
    BY <2>2 DEF unitsOf
  <2>4. QED
    BY <2>3 DEF v
<1>4. ASSUME NEW c \in {"text", "none"}, NEW r
      PROVE  unitsOf(<<c, r>>) =
                (IF c = "text" THEN <<"delta">> ELSE <<>>)
                \o (CASE r \in {"stop", "length"} -> <<"finishOk">>
                      [] r = "null" -> IF c = "none" THEN <<"role">> ELSE <<>>
                      [] OTHER -> <<"finishBad">>)
  <2> DEFINE v == <<c, r>>
  <2>1. v # <<>> /\ v # <<"[DO", "NE]">> /\ Len(v) = 2 /\ v[1] = c /\ v[2] = r
    OBVIOUS
  <2> HIDE DEF v
  <2>2. QED
    BY <2>1 DEF unitsOf, v
<1>5. <<>> \o <<"role">> = <<"role">> /\ <<"delta">> \o <<>> = <<"delta">>
       /\ <<>> \o <<"finishOk">> = <<"finishOk">> /\ <<>> \o <<"finishBad">> = <<"finishBad">>
  OBVIOUS
<1>6. <<"delta">> \o <<"finishOk">> = <<"delta", "finishOk">>
  <2>1. "delta" \in Kinds /\ "finishOk" \in Kinds
    BY DEF Kinds
  <2>2. QED
    BY <2>1, PairJoins
<1>7. unitsOf(<<"text", "null">>) = <<"delta">> /\ unitsOf(<<"none", "null">>) = <<"role">>
  BY <1>4, <1>5
<1>8. \A reason \in {"stop", "length"} : unitsOf(<<"none", reason>>) = <<"finishOk">>
  BY <1>4, <1>5
<1>9. \A reason \in {"content_filter", "weird_reason"} : unitsOf(<<"none", reason>>) = <<"finishBad">>
  BY <1>4, <1>5
<1>10. unitsOf(<<"text", "stop">>) = <<"delta", "finishOk">>
  BY <1>4, <1>6
<1>11. QED
  BY <1>1, <1>2, <1>3, <1>7, <1>8, <1>9, <1>10

\* A symbol put before others.
LEMMA PutBefore ==
    ASSUME NEW T, NEW a \in T, NEW q \in Seq(T), NEW t \in Seq(T),
           Len(t) = Len(q) + 1, t[1] = a, \A i \in 1..Len(q) : t[1 + i] = q[i]
    PROVE  <<a>> \o q = t
<1> DEFINE p == <<a>>
<1>1. p \in Seq(T) /\ Len(p) = 1 /\ p[1] = a
  OBVIOUS
<1> HIDE DEF p
<1>2. Len(t) = Len(p) + Len(q) /\ \A i \in 1..Len(q) : t[Len(p) + i] = q[i]
  BY <1>1
<1>3. \A i \in 1..Len(p) : t[i] = p[i]
  BY <1>1
<1>4. p \o q = t
  BY <1>1, <1>2, <1>3, JoinedIs
<1>5. QED
  BY <1>4 DEF p

LEMMA Join2 ==
    ASSUME NEW T, NEW a \in T, NEW b \in T, NEW c \in T
    PROVE  <<a>> \o <<b, c>> = <<a, b, c>>
<1> DEFINE q == <<b, c>>  t == <<a, b, c>>
<1>1. q \in Seq(T) /\ t \in Seq(T)
  OBVIOUS
<1>2. /\ Len(q) = 2 /\ Len(t) = 3 /\ t[1] = a
      /\ q[1] = t[2] /\ q[2] = t[3]
  OBVIOUS
<1> HIDE DEF q, t
<1>3. \A i \in 1..2 : t[1 + i] = q[i]
  BY <1>2
<1>4. Len(t) = Len(q) + 1 /\ \A i \in 1..Len(q) : t[1 + i] = q[i]
  BY <1>2, <1>3
<1>5. <<a>> \o q = t
  BY <1>1, <1>2, <1>4, PutBefore
<1>6. QED
  BY <1>5 DEF q, t

LEMMA Join3 ==
    ASSUME NEW T, NEW a \in T, NEW b \in T, NEW c \in T, NEW d \in T
    PROVE  <<a>> \o <<b, c, d>> = <<a, b, c, d>>
<1> DEFINE q == <<b, c, d>>  t == <<a, b, c, d>>
<1>1. q \in Seq(T) /\ t \in Seq(T)
  OBVIOUS
<1>2. /\ Len(q) = 3 /\ Len(t) = 4 /\ t[1] = a
      /\ q[1] = t[2] /\ q[2] = t[3] /\ q[3] = t[4]
  OBVIOUS
<1> HIDE DEF q, t
<1>3. \A i \in 1..3 : t[1 + i] = q[i]
  BY <1>2
<1>4. Len(t) = Len(q) + 1 /\ \A i \in 1..Len(q) : t[1 + i] = q[i]
  BY <1>2, <1>3
<1>5. <<a>> \o q = t
  BY <1>1, <1>2, <1>4, PutBefore
<1>6. QED
  BY <1>5 DEF q, t

LEMMA Join4 ==
    ASSUME NEW T, NEW a \in T, NEW b \in T, NEW c \in T, NEW d \in T, NEW e \in T
    PROVE  <<a>> \o <<b, c, d, e>> = <<a, b, c, d, e>>
<1> DEFINE q == <<b, c, d, e>>  t == <<a, b, c, d, e>>
<1>1. q \in Seq(T) /\ t \in Seq(T)
  OBVIOUS
<1>2. /\ Len(q) = 4 /\ Len(t) = 5 /\ t[1] = a
      /\ q[1] = t[2] /\ q[2] = t[3] /\ q[3] = t[4] /\ q[4] = t[5]
  OBVIOUS
<1> HIDE DEF q, t
<1>3. \A i \in 1..4 : t[1 + i] = q[i]
  BY <1>2
<1>4. Len(t) = Len(q) + 1 /\ \A i \in 1..Len(q) : t[1 + i] = q[i]
  BY <1>2, <1>3
<1>5. <<a>> \o q = t
  BY <1>1, <1>2, <1>4, PutBefore
<1>6. QED
  BY <1>5 DEF q, t

-----------------------------------------------------------------------------
(* The catalogue's wires, from their ends.                                 *)

EndsWell(t) == t = <<>> \/ t[Len(t)] # "CR"

\* Bytes the client decodes to s.
Decodes(t, s) == t \in Seq(WireBytes) /\ EndsWell(t) /\ unitsIn(t) = s

LEMMA EndsLater ==
    ASSUME NEW s \in Seq(WireBytes), NEW t \in Seq(WireBytes), EndsWell(s), EndsWell(t)
    PROVE  s \o t \in Seq(WireBytes) /\ EndsWell(s \o t)
<1> DEFINE p == s \o t
<1>1. /\ p \in Seq(WireBytes) /\ Len(p) = Len(s) + Len(t)
      /\ (\A i \in 1..Len(s) : p[i] = s[i]) /\ \A i \in 1..Len(t) : p[Len(s) + i] = t[i]
  BY ConcatElements
<1>2. Len(s) \in Nat /\ Len(t) \in Nat /\ (t # <<>> => Len(t) > 0)
  OBVIOUS
<1>3. CASE t = <<>>
  BY <1>3
<1>4. CASE t # <<>>
  <2> HIDE DEF p
  <2>1. p[Len(p)] = t[Len(t)]
    BY <1>1, <1>2, <1>4
  <2>2. QED
    BY <1>1, <1>4, <2>1 DEF EndsWell, p
<1>5. QED
  BY <1>3, <1>4

LEMMA NothingDecodes == Decodes(<<>>, <<>>)
  BY NoUnits DEF Decodes, EndsWell

LEMMA CutDecodes == Decodes(<<"data:", "cut">>, <<>>)
<1> DEFINE t == <<"data:", "cut">>
<1>1. "data:" \in WireBytes /\ "cut" \in WireBytes
  BY DEF WireBytes
<1>2. t \in Seq(WireBytes) /\ Len(t) = 2 /\ t[1] = "data:" /\ t[2] = "cut"
  BY <1>1
<1> HIDE DEF t
<1>3. NoEnds(t) /\ EndsWell(t)
  BY <1>2 DEF NoEnds, EndsWell, LineEnds
<1>4. StandardEvents(t) = <<>> /\ StandardEvents(<<>>) = <<>>
  <2>1. <<>> \in Seq(WireBytes) /\ NoEnds(<<>>)
    BY DEF NoEnds
  <2>2. QED
    BY <1>2, <1>3, <2>1, NoEventYet
<1>5. unitsIn(t) = unitsIn(<<>>)
  BY <1>4, Zenon DEF unitsIn
<1>6. QED
  BY <1>2, <1>3, <1>5, NoUnits DEF Decodes, t

LEMMA PairDecodes ==
    ASSUME NEW c \in WireBytes \ LineEnds, NEW r \in WireBytes \ LineEnds, NEW u, NEW s, Decodes(u, s)
    PROVE  Decodes(<<"data:", c, r, "LF", "LF">> \o u, unitsOf(<<c, r>>) \o s)
<1> DEFINE t == <<"data:", c, r, "LF", "LF">>
<1>1. u \in Seq(WireBytes) /\ EndsWell(u) /\ unitsIn(u) = s
  BY DEF Decodes
<1>2. t \in Seq(WireBytes) /\ unitsIn(t \o u) = unitsOf(<<c, r>>) \o unitsIn(u)
  BY <1>1, PairUnits
<1>3. Len(t) = 5 /\ t[5] = "LF"
  OBVIOUS
<1> HIDE DEF t
<1>4. EndsWell(t)
  BY <1>3 DEF EndsWell
<1>5. t \o u \in Seq(WireBytes) /\ EndsWell(t \o u)
  BY <1>1, <1>2, <1>4, EndsLater
<1>6. QED
  BY <1>1, <1>2, <1>5, Zenon DEF Decodes, t

LEMMA ChunkDecodes ==
    ASSUME NEW c \in values, NEW r \in values, NEW u, NEW s, Decodes(u, s)
    PROVE  Decodes(chunk(c, r) \o u, unitsOf(<<c, r>>) \o s) /\ chunk(c, r) \in Seq(WireBytes)
<1>1. c \in WireBytes \ LineEnds /\ r \in WireBytes \ LineEnds
  BY DEF WireBytes, values, LineEnds
<1>2. Decodes(<<"data:", c, r, "LF", "LF">> \o u, unitsOf(<<c, r>>) \o s)
  BY <1>1, PairDecodes
<1>3. <<"data:", c, r, "LF", "LF">> \in Seq(WireBytes)
  <2>1. <<>> \in Seq(WireBytes)
    OBVIOUS
  <2>2. QED
    BY <1>1, <2>1, PairUnits
<1>4. QED
  BY <1>2, <1>3 DEF chunk

LEMMA DoneDecodes == Decodes(doneMarker, <<"done">>)
<1>1. "[DO" \in WireBytes \ LineEnds /\ "NE]" \in WireBytes \ LineEnds
  BY DEF WireBytes, LineEnds
<1>2. Decodes(<<"data:", "[DO", "NE]", "LF", "LF">> \o <<>>, unitsOf(<<"[DO", "NE]">>) \o <<>>)
  BY <1>1, NothingDecodes, PairDecodes
<1>3. <<"data:", "[DO", "NE]", "LF", "LF">> \in Seq(WireBytes)
  <2>1. <<>> \in Seq(WireBytes)
    OBVIOUS
  <2>2. QED
    BY <1>1, <2>1, PairUnits
<1>4. doneMarker \in Seq(WireBytes)
  BY <1>3 DEF doneMarker
<1>5. doneMarker \o <<>> = doneMarker
  BY <1>4
<1>6. <<"done">> \o <<>> = <<"done">>
  OBVIOUS
<1>7. QED
  BY <1>2, <1>5, <1>6, UnitValues, Zenon DEF doneMarker

LEMMA RawDecodes ==
    ASSUME NEW payload \in payloads, NEW u, NEW s, Decodes(u, s)
    PROVE  Decodes(rawEvent(payload) \o u, <<"bad">> \o s)
<1> DEFINE t == rawEvent(payload)
<1>1. payload \in WireBytes \ LineEnds
  BY DEF WireBytes, payloads, LineEnds
<1>2. u \in Seq(WireBytes) /\ EndsWell(u) /\ unitsIn(u) = s
  BY DEF Decodes
<1>3. t \in Seq(WireBytes) /\ unitsIn(t \o u) = unitsOf(<<payload>>) \o unitsIn(u)
  BY <1>1, <1>2, SingleUnits
<1>4. Len(t) = 4 /\ t[4] = "LF"
  BY DEF rawEvent
<1> HIDE DEF t
<1>5. EndsWell(t)
  BY <1>4 DEF EndsWell
<1>6. t \o u \in Seq(WireBytes) /\ EndsWell(t \o u)
  BY <1>2, <1>3, <1>5, EndsLater
<1>7. unitsOf(<<payload>>) = <<"bad">>
  BY UnitValues
<1>8. QED
  BY <1>2, <1>3, <1>6, <1>7, Zenon DEF Decodes, t

\* A wire, in its segments, that the client decodes to s.
Sends(w, s) == w \in Seq(Seq(WireBytes)) /\ Decodes(FlattenSeq(w), s)

LEMMA SendsAtOnce ==
    ASSUME NEW t, NEW s, Decodes(t, s)
    PROVE  Sends(FragmentAt(t), s)
<1> DEFINE S == Seq(WireBytes)
<1>1. t \in S
  BY DEF Decodes
<1>2. FlattenSeq(<<t>>) = t
  BY <1>1, FlattenOne
<1>3. <<t>> \in Seq(S)
  <2> HIDE DEF S
  <2>1. QED
    BY <1>1
<1>4. QED
  BY <1>2, <1>3, Zenon DEF Sends, FragmentAt

LEMMA SendsInTwo ==
    ASSUME NEW t, NEW u, NEW s, t \in Seq(WireBytes), u \in Seq(WireBytes), Decodes(t \o u, s)
    PROVE  Sends(<<t, u>>, s)
<1> DEFINE S == Seq(WireBytes)
<1>1. FlattenSeq(<<t, u>>) = t \o u
  BY FlattenBoth
<1>2. <<t, u>> \in Seq(S)
  <2>1. t \in S /\ u \in S
    OBVIOUS
  <2> HIDE DEF S
  <2>2. QED
    BY <2>1
<1>3. QED
  BY <1>1, <1>2, Zenon DEF Sends

LEMMA SendsCut ==
    ASSUME NEW t, NEW s, Decodes(t, s), NEW n \in 0..Len(t)
    PROVE  Sends(Fragment(t, n), s)
<1>1. t \in Seq(WireBytes)
  BY DEF Decodes
<1> DEFINE p == SubSeq(t, 1, n)  q == SubSeq(t, n + 1, Len(t))
<1>2. p \in Seq(WireBytes) /\ Len(p) = n /\ \A i \in 1..n : p[i] = t[i]
  BY <1>1
<1>3. q \in Seq(WireBytes) /\ Len(q) = Len(t) - n /\ \A i \in 1..(Len(t) - n) : q[i] = t[n + i]
  <2>1. q \in Seq(WireBytes) /\ Len(q) = Len(t) - n
    BY <1>1
  <2>2. ASSUME NEW i \in 1..(Len(t) - n) PROVE q[i] = t[n + i]
    BY <1>1
  <2>3. QED
    BY <2>1, <2>2
<1> HIDE DEF p, q
<1>4. Len(t) = Len(p) + Len(q) /\ \A i \in 1..Len(q) : t[Len(p) + i] = q[i]
  BY <1>1, <1>2, <1>3
<1>5. \A i \in 1..Len(p) : t[i] = p[i]
  BY <1>2
<1>6. p \o q = t
  BY <1>1, <1>2, <1>3, <1>4, <1>5, JoinedIs
<1>7. Sends(<<p, q>>, s)
  BY <1>2, <1>3, <1>6, SendsInTwo
<1>8. QED
  BY <1>7 DEF Fragment, p, q

LEMMA SendsEveryByte ==
    ASSUME NEW t, NEW s, Decodes(t, s)
    PROVE  Sends(FragmentEveryByte(t), s)
<1>1. t \in Seq(WireBytes)
  BY DEF Decodes
<1> DEFINE w == [i \in DOMAIN t |-> <<t[i]>>]
           S == Seq(WireBytes)
<1>2. FlattenSeq(w) = t
  BY <1>1, FlattenSingles
<1>3. w \in Seq(S)
  <2>1. \A i \in 1..Len(t) : <<t[i]>> \in S
    BY <1>1
  <2>2. DOMAIN t = 1..Len(t) /\ Len(t) \in Nat
    BY <1>1
  <2> HIDE DEF S
  <2>3. QED
    BY <2>1, <2>2
<1>4. QED
  BY <1>2, <1>3, Zenon DEF Sends, FragmentEveryByte

-----------------------------------------------------------------------------
\* The concatenations of the catalogue group to the left.
LEMMA ChunksDecode ==
    ASSUME NEW c \in values, NEW r \in values, NEW p \in Seq(WireBytes), NEW u \in Seq(WireBytes),
           NEW s, Decodes(p \o u, s)
    PROVE  Decodes((chunk(c, r) \o p) \o u, unitsOf(<<c, r>>) \o s)
<1> DEFINE x == chunk(c, r)
<1>1. Decodes(x \o (p \o u), unitsOf(<<c, r>>) \o s) /\ x \in Seq(WireBytes)
  BY ChunkDecodes
<1> HIDE DEF x
<1>2. Regrouped(x, p, u)
  BY <1>1, Regroups
<1>3. QED
  BY <1>1, <1>2, Zenon DEF Regrouped, x

LEMMA StoppedUnits == unitsOf(<<"text", "stop">>) \o <<"done">> = <<"delta", "finishOk", "done">>
<1> DEFINE k == Kinds
<1>1. "delta" \in k /\ "finishOk" \in k /\ "done" \in k
  BY DEF Kinds
<1> HIDE DEF k
<1>2. <<"delta">> \o <<"finishOk">> = <<"delta", "finishOk">> /\ <<"finishOk">> \o <<"done">> = <<"finishOk", "done">>
  BY <1>1, PairJoins
<1>3. <<"delta">> \o <<"finishOk", "done">> = <<"delta", "finishOk", "done">>
  BY <1>1, Join2
<1>4. Regrouped(<<"delta">>, <<"finishOk">>, <<"done">>)
  <2> DEFINE x == <<"delta">>  p == <<"finishOk">>  q == <<"done">>
  <2>1. x \in Seq(k) /\ p \in Seq(k) /\ q \in Seq(k)
    BY <1>1
  <2> HIDE DEF x, p, q
  <2>2. Regrouped(x, p, q)
    BY <2>1, Regroups
  <2>3. QED
    BY <2>2 DEF x, p, q
<1>5. unitsOf(<<"text", "stop">>) = <<"delta", "finishOk">>
  BY UnitValues
<1>6. QED
  BY <1>2, <1>3, <1>4, <1>5, Zenon DEF Regrouped

LEMMA StoppedDecodes == Decodes(stopped, <<"delta", "finishOk", "done">>) /\ stopped \in Seq(WireBytes)
<1>1. "text" \in values /\ "stop" \in values
  BY DEF values
<1>2. Decodes(stopped, unitsOf(<<"text", "stop">>) \o <<"done">>)
  BY <1>1, DoneDecodes, ChunkDecodes DEF stopped
<1>3. QED
  BY <1>2, StoppedUnits, Zenon DEF Decodes

\* A chunk with or without text, a finish_reason and [DONE].
LEMMA FinishDecodes ==
    ASSUME NEW reason \in values \ {"null", "text", "none"}, NEW kind,
           kind = IF reason \in {"stop", "length"} THEN "finishOk" ELSE "finishBad"
    PROVE  /\ Decodes(chunk("none", reason) \o doneMarker, <<kind, "done">>)
           /\ chunk("none", reason) \in Seq(WireBytes) /\ doneMarker \in Seq(WireBytes)
<1>1. "none" \in values /\ reason \in values
  BY DEF values
<1>2. kind \in Kinds /\ "done" \in Kinds
  BY DEF Kinds
<1>3. unitsOf(<<"none", reason>>) = <<kind>>
  <2>1. CASE reason \in {"stop", "length"}
    BY <2>1, UnitValues
  <2>2. CASE reason \notin {"stop", "length"}
    <3>1. reason \in {"content_filter", "weird_reason"}
      BY <2>2 DEF values
    <3>2. QED
      BY <2>2, <3>1, UnitValues
  <2>3. QED
    BY <2>1, <2>2
<1>4. Decodes(chunk("none", reason) \o doneMarker, unitsOf(<<"none", reason>>) \o <<"done">>)
  BY <1>1, DoneDecodes, ChunkDecodes
<1>5. <<kind>> \o <<"done">> = <<kind, "done">>
  BY <1>2, PairJoins
<1>6. chunk("none", reason) \in Seq(WireBytes) /\ doneMarker \in Seq(WireBytes)
  BY <1>1, DoneDecodes, ChunkDecodes DEF Decodes
<1>7. QED
  BY <1>3, <1>4, <1>5, <1>6, Zenon

LEMMA SuccessDecodes ==
    ASSUME NEW reason \in {"stop", "length"}
    PROVE  Sends(successWire(reason), <<"delta", "finishOk", "done">>)
<1>1. reason \in values \ {"null", "text", "none"} /\ "text" \in values /\ "null" \in values
  BY DEF values
<1>2. /\ Decodes(chunk("none", reason) \o doneMarker, <<"finishOk", "done">>)
      /\ chunk("none", reason) \in Seq(WireBytes) /\ doneMarker \in Seq(WireBytes)
  BY <1>1, FinishDecodes
<1>3. Decodes((chunk("text", "null") \o chunk("none", reason)) \o doneMarker,
              unitsOf(<<"text", "null">>) \o <<"finishOk", "done">>)
  BY <1>1, <1>2, ChunksDecode
<1>4. unitsOf(<<"text", "null">>) = <<"delta">>
  BY UnitValues
<1>5. <<"delta">> \o <<"finishOk", "done">> = <<"delta", "finishOk", "done">>
  <2>1. "delta" \in Kinds /\ "finishOk" \in Kinds /\ "done" \in Kinds
    BY DEF Kinds
  <2>2. QED
    BY <2>1, Join2
<1>6. Decodes((chunk("text", "null") \o chunk("none", reason)) \o doneMarker, <<"delta", "finishOk", "done">>)
  BY <1>3, <1>4, <1>5, Zenon
<1>7. QED
  BY <1>6, SendsAtOnce DEF successWire

LEMMA MoreDecode ==
    /\ Sends(FragmentAt(chunk("text", "null") \o chunk("text", "null") \o stopped),
             <<"delta", "delta", "delta", "finishOk", "done">>)
    /\ Sends(FragmentAt(chunk("none", "null") \o chunk("none", "null") \o stopped),
             <<"role", "role", "delta", "finishOk", "done">>)
    /\ Sends(FragmentAt(chunk("text", "null") \o chunk("text", "null") \o chunk("none", "stop") \o doneMarker),
             <<"delta", "delta", "finishOk", "done">>)
    /\ Sends(FragmentAt(chunk("none", "stop") \o doneMarker), <<"finishOk", "done">>)
<1>1. "text" \in values /\ "null" \in values /\ "none" \in values
      /\ "stop" \in values \ {"null", "text", "none"}
  BY DEF values
<1>2. /\ "delta" \in Kinds /\ "finishOk" \in Kinds /\ "done" \in Kinds /\ "role" \in Kinds
  BY DEF Kinds
<1> DEFINE x == chunk("text", "null")
           y == chunk("none", "null")
           z == chunk("none", "stop")
<1>3. unitsOf(<<"text", "null">>) = <<"delta">> /\ unitsOf(<<"none", "null">>) = <<"role">>
  BY UnitValues
<1>4. Decodes(stopped, <<"delta", "finishOk", "done">>) /\ stopped \in Seq(WireBytes)
  BY StoppedDecodes
<1>5. Decodes(x \o stopped, <<"delta", "delta", "finishOk", "done">>) /\ x \in Seq(WireBytes)
  <2>1. Decodes(x \o stopped, unitsOf(<<"text", "null">>) \o <<"delta", "finishOk", "done">>)
        /\ x \in Seq(WireBytes)
    BY <1>1, <1>4, ChunkDecodes
  <2>2. <<"delta">> \o <<"delta", "finishOk", "done">> = <<"delta", "delta", "finishOk", "done">>
    BY <1>2, Join3
  <2>3. QED
    BY <1>3, <2>1, <2>2, Zenon
<1>6. Decodes((x \o x) \o stopped, <<"delta", "delta", "delta", "finishOk", "done">>)
  <2>1. Decodes((x \o x) \o stopped,
                unitsOf(<<"text", "null">>) \o <<"delta", "delta", "finishOk", "done">>)
    BY <1>1, <1>4, <1>5, ChunksDecode
  <2>2. <<"delta">> \o <<"delta", "delta", "finishOk", "done">> =
        <<"delta", "delta", "delta", "finishOk", "done">>
    BY <1>2, Join4
  <2>3. QED
    BY <1>3, <2>1, <2>2, Zenon
<1>7. Decodes(y \o stopped, <<"role", "delta", "finishOk", "done">>) /\ y \in Seq(WireBytes)
  <2>1. Decodes(y \o stopped, unitsOf(<<"none", "null">>) \o <<"delta", "finishOk", "done">>)
        /\ y \in Seq(WireBytes)
    BY <1>1, <1>4, ChunkDecodes
  <2>2. <<"role">> \o <<"delta", "finishOk", "done">> = <<"role", "delta", "finishOk", "done">>
    BY <1>2, Join3
  <2>3. QED
    BY <1>3, <2>1, <2>2, Zenon
<1>8. Decodes((y \o y) \o stopped, <<"role", "role", "delta", "finishOk", "done">>)
  <2>1. Decodes((y \o y) \o stopped,
                unitsOf(<<"none", "null">>) \o <<"role", "delta", "finishOk", "done">>)
    BY <1>1, <1>4, <1>7, ChunksDecode
  <2>2. <<"role">> \o <<"role", "delta", "finishOk", "done">> =
        <<"role", "role", "delta", "finishOk", "done">>
    BY <1>2, Join4
  <2>3. QED
    BY <1>3, <2>1, <2>2, Zenon
<1>9. /\ Decodes(z \o doneMarker, <<"finishOk", "done">>)
      /\ z \in Seq(WireBytes) /\ doneMarker \in Seq(WireBytes)
  BY <1>1, FinishDecodes
<1>10. Decodes((x \o z) \o doneMarker, <<"delta", "finishOk", "done">>)
  <2>1. Decodes((x \o z) \o doneMarker, unitsOf(<<"text", "null">>) \o <<"finishOk", "done">>)
    BY <1>1, <1>9, ChunksDecode
  <2>2. <<"delta">> \o <<"finishOk", "done">> = <<"delta", "finishOk", "done">>
    BY <1>2, Join2
  <2>3. QED
    BY <1>3, <2>1, <2>2, Zenon
<1>11. Decodes(((x \o x) \o z) \o doneMarker, <<"delta", "delta", "finishOk", "done">>)
  <2>1. x \o z \in Seq(WireBytes)
    <3> HIDE DEF x, z
    <3>1. QED
      BY <1>5, <1>9
  <2>2. Decodes((x \o (x \o z)) \o doneMarker, unitsOf(<<"text", "null">>) \o <<"delta", "finishOk", "done">>)
    BY <1>1, <1>9, <1>10, <2>1, ChunksDecode
  <2>3. <<"delta">> \o <<"delta", "finishOk", "done">> = <<"delta", "delta", "finishOk", "done">>
    BY <1>2, Join3
  <2>4. Regrouped(x, x, z)
    BY <1>5, <1>9, Regroups
  <2>5. QED
    BY <1>3, <2>2, <2>3, <2>4, Zenon DEF Regrouped
<1>12. QED
  BY <1>6, <1>8, <1>9, <1>11, SendsAtOnce

LEMMA BadDecode ==
    /\ \A payload \in payloads : Sends(FragmentAt(rawEvent(payload) \o doneMarker), <<"bad", "done">>)
    /\ \A reason \in {"content_filter", "weird_reason"} :
          Sends(FragmentAt(chunk("none", reason) \o doneMarker), <<"finishBad", "done">>)
<1>1. ASSUME NEW payload \in payloads
      PROVE  Sends(FragmentAt(rawEvent(payload) \o doneMarker), <<"bad", "done">>)
  <2>1. Decodes(rawEvent(payload) \o doneMarker, <<"bad">> \o <<"done">>)
    BY DoneDecodes, RawDecodes
  <2>2. <<"bad">> \o <<"done">> = <<"bad", "done">>
    <3>1. "bad" \in Kinds /\ "done" \in Kinds
      BY DEF Kinds
    <3>2. QED
      BY <3>1, PairJoins
  <2>3. QED
    BY <2>1, <2>2, SendsAtOnce
<1>2. ASSUME NEW reason \in {"content_filter", "weird_reason"}
      PROVE  Sends(FragmentAt(chunk("none", reason) \o doneMarker), <<"finishBad", "done">>)
  <2>1. reason \in values \ {"null", "text", "none"} /\ reason \notin {"stop", "length"}
    BY DEF values
  <2>2. Decodes(chunk("none", reason) \o doneMarker, <<"finishBad", "done">>)
    BY <2>1, FinishDecodes
  <2>3. QED
    BY <2>2, SendsAtOnce
<1>3. QED
  BY <1>1, <1>2

LEMMA CutSends ==
    /\ Sends(<<>>, <<>>)
    /\ Sends(FragmentAt(<<"body">>), <<>>)
    /\ Sends(<<chunk("text", "null"), <<>>>>, <<"delta">>)
    /\ Sends(<<chunk("text", "null"), <<"data:", "cut">>>>, <<"delta">>)
<1> DEFINE x == chunk("text", "null")
           S == Seq(WireBytes)
<1>1. "text" \in values /\ "null" \in values /\ "body" \in WireBytes /\ "body" \notin LineEnds
  BY DEF values, WireBytes, LineEnds
<1>2. Sends(<<>>, <<>>)
  <2>1. <<>> \in Seq(S)
    <3> HIDE DEF S
    <3>1. QED
      OBVIOUS
  <2>2. QED
    BY <2>1, FlattenNone, NothingDecodes, Zenon DEF Sends
<1>3. Sends(FragmentAt(<<"body">>), <<>>)
  <2> DEFINE t == <<"body">>
  <2>1. t \in Seq(WireBytes) /\ Len(t) = 1 /\ t[1] = "body"
    BY <1>1
  <2> HIDE DEF t
  <2>2. NoEnds(t) /\ EndsWell(t)
    BY <1>1, <2>1 DEF NoEnds, EndsWell, LineEnds
  <2>3. StandardEvents(t) = <<>> /\ StandardEvents(<<>>) = <<>>
    <3>1. <<>> \in Seq(WireBytes) /\ NoEnds(<<>>)
      BY DEF NoEnds
    <3>2. QED
      BY <2>1, <2>2, <3>1, NoEventYet
  <2>4. Decodes(t, <<>>)
    BY <2>1, <2>2, <2>3, NoUnits, Zenon DEF Decodes, unitsIn
  <2>5. QED
    BY <2>4, SendsAtOnce DEF t
<1>4. <<"delta">> \o <<>> = <<"delta">> /\ <<>> \in S
  OBVIOUS
<1>5. unitsOf(<<"text", "null">>) = <<"delta">>
  BY UnitValues
<1>6. \A u : Decodes(u, <<>>) => Decodes(x \o u, <<"delta">>) /\ x \in S /\ u \in S
  <2> SUFFICES ASSUME NEW u, Decodes(u, <<>>) PROVE Decodes(x \o u, <<"delta">>) /\ x \in S /\ u \in S
    OBVIOUS
  <2>1. Decodes(x \o u, unitsOf(<<"text", "null">>) \o <<>>) /\ x \in S
    BY <1>1, ChunkDecodes
  <2>2. u \in S
    BY DEF Decodes
  <2>3. QED
    BY <1>4, <1>5, <2>1, <2>2, Zenon
<1>7. Sends(<<x, <<>>>>, <<"delta">>)
  <2> DEFINE none == <<>>
  <2>1. Decodes(none, <<>>)
    BY NothingDecodes
  <2> HIDE DEF none, x
  <2>2. Decodes(x \o none, <<"delta">>) /\ x \in S /\ none \in S
    BY <1>6, <2>1
  <2>3. Sends(<<x, none>>, <<"delta">>)
    BY <2>2, SendsInTwo
  <2>4. QED
    BY <2>3 DEF none
<1>8. Sends(<<x, <<"data:", "cut">>>>, <<"delta">>)
  <2> DEFINE cut == <<"data:", "cut">>
  <2>1. Decodes(cut, <<>>)
    BY CutDecodes
  <2> HIDE DEF cut, x
  <2>2. Decodes(x \o cut, <<"delta">>) /\ x \in S /\ cut \in S
    BY <1>6, <2>1
  <2>3. Sends(<<x, cut>>, <<"delta">>)
    BY <2>2, SendsInTwo
  <2>4. QED
    BY <2>3 DEF cut
<1>9. QED
  BY <1>2, <1>3, <1>7, <1>8

-----------------------------------------------------------------------------
(* The wire with CRLF.                                                     *)

WithoutCR(w) == \A i \in 1..Len(w) : w[i] # "CR"

lineByte(byte) == IF byte = "LF" THEN <<"CR", "LF">> ELSE <<byte>>

LEMMA LineByteType == \A byte \in WireBytes : lineByte(byte) \in Seq(WireBytes)
<1> DEFINE S == WireBytes
<1>1. "CR" \in S /\ "LF" \in S
  BY DEF WireBytes
<1> HIDE DEF S
<1>2. \A byte \in S : lineByte(byte) \in Seq(S)
  BY <1>1 DEF lineByte
<1>3. QED
  BY <1>2 DEF S

LEMMA CrlfIs ==
    ASSUME NEW w \in Seq(WireBytes), WithoutCR(w)
    PROVE  crlf(w) = FlattenSeq([i \in DOMAIN w |-> lineByte(w[i])])
<1>1. DOMAIN w = 1..Len(w) /\ Len(w) \in Nat
  OBVIOUS
<1>2. ASSUME NEW i \in DOMAIN w
      PROVE  (IF w[i] = "LF" /\ (i = 1 \/ w[i - 1] # "CR") THEN <<"CR", "LF">> ELSE <<w[i]>>) = lineByte(w[i])
  <2>1. i = 1 \/ i - 1 \in 1..Len(w)
    BY <1>1
  <2>2. i = 1 \/ w[i - 1] # "CR"
    BY <2>1 DEF WithoutCR
  <2>3. QED
    BY <2>2 DEF lineByte
<1>3. [i \in DOMAIN w |-> IF w[i] = "LF" /\ (i = 1 \/ w[i - 1] # "CR") THEN <<"CR", "LF">> ELSE <<w[i]>>]
      = [i \in DOMAIN w |-> lineByte(w[i])]
  BY <1>2, Zenon
<1>4. QED
  BY <1>3, Zenon DEF crlf

LEMMA CrlfJoins ==
    ASSUME NEW p \in Seq(WireBytes), WithoutCR(p), NEW q \in Seq(WireBytes), WithoutCR(q)
    PROVE  crlf(p \o q) = crlf(p) \o crlf(q)
<1> DEFINE t == p \o q
           of(w) == [i \in DOMAIN w |-> lineByte(w[i])]
           S == Seq(WireBytes)
           a == of(p)
           b == of(q)
           c == of(t)
<1>1. /\ t \in Seq(WireBytes) /\ Len(t) = Len(p) + Len(q)
      /\ (\A i \in 1..Len(p) : t[i] = p[i]) /\ \A i \in 1..Len(q) : t[Len(p) + i] = q[i]
  BY ConcatElements
<1> HIDE DEF t
<1>2. WithoutCR(t)
  <2> SUFFICES ASSUME NEW i \in 1..Len(t) PROVE t[i] # "CR"
    BY DEF WithoutCR
  <2>1. CASE i <= Len(p)
    BY <1>1, <2>1 DEF WithoutCR
  <2>2. CASE i > Len(p)
    <3> DEFINE j == i - Len(p)
    <3>1. j \in 1..Len(q) /\ i = Len(p) + j
      BY <1>1, <2>2
    <3> HIDE DEF j
    <3>2. QED
      BY <1>1, <3>1 DEF WithoutCR
  <2>3. QED
    BY <1>1, <2>1, <2>2
<1>3. \A w \in Seq(WireBytes) :
         of(w) \in Seq(S) /\ Len(of(w)) = Len(w) /\ \A i \in 1..Len(w) : of(w)[i] = lineByte(w[i])
  <2> SUFFICES ASSUME NEW w \in Seq(WireBytes)
               PROVE  of(w) \in Seq(S) /\ Len(of(w)) = Len(w) /\ \A i \in 1..Len(w) : of(w)[i] = lineByte(w[i])
    OBVIOUS
  <2>1. Len(w) \in Nat /\ DOMAIN w = 1..Len(w) /\ \A i \in 1..Len(w) : w[i] \in WireBytes
    OBVIOUS
  <2>2. \A i \in 1..Len(w) : lineByte(w[i]) \in S
    BY <2>1, LineByteType
  <2> HIDE DEF S
  <2>3. QED
    BY <2>1, <2>2
<1>4. a \in Seq(S) /\ Len(a) = Len(p) /\ \A i \in 1..Len(p) : a[i] = lineByte(p[i])
  BY <1>3
<1>5. b \in Seq(S) /\ Len(b) = Len(q) /\ \A i \in 1..Len(q) : b[i] = lineByte(q[i])
  BY <1>3
<1>6. c \in Seq(S) /\ Len(c) = Len(t) /\ \A i \in 1..Len(t) : c[i] = lineByte(t[i])
  BY <1>1, <1>3
<1>7. crlf(p) = FlattenSeq(a) /\ crlf(q) = FlattenSeq(b) /\ crlf(t) = FlattenSeq(c)
  BY <1>1, <1>2, CrlfIs
<1> HIDE DEF a, b, c, S, of
<1>8. Len(p) \in Nat /\ Len(q) \in Nat
  OBVIOUS
<1>9. Len(c) = Len(a) + Len(b) /\ \A i \in 1..Len(a) : c[i] = a[i]
  BY <1>1, <1>4, <1>5, <1>6, <1>8
<1>10. \A i \in 1..Len(b) : c[Len(a) + i] = b[i]
  <2> SUFFICES ASSUME NEW i \in 1..Len(q) PROVE c[Len(p) + i] = b[i]
    BY <1>4, <1>5
  <2> DEFINE j == Len(p) + i
  <2>1. j \in 1..Len(t) /\ t[j] = q[i]
    BY <1>1, <1>8
  <2> HIDE DEF j
  <2>2. c[j] = lineByte(q[i]) /\ b[i] = lineByte(q[i])
    BY <1>5, <1>6, <2>1
  <2>3. QED
    BY <2>2 DEF j
<1>11. a \o b = c
  BY <1>4, <1>5, <1>6, <1>9, <1>10, JoinedIs
<1>12. FlattenSeq(a \o b) = FlattenSeq(a) \o FlattenSeq(b)
  BY <1>4, <1>5, FlattenConcat DEF S
<1>13. QED
  BY <1>7, <1>11, <1>12, Zenon DEF t

\* An event of two bytes, and what becomes of it.
LEMMA CrlfEvent ==
    ASSUME NEW x \in WireBytes \ LineEnds, NEW y \in WireBytes \ LineEnds
    PROVE  crlf(<<"data:", x, y, "LF", "LF">>) = <<"data:", x, y, "CR", "LF", "CR", "LF">>
<1> DEFINE S == WireBytes
           T == Seq(S)
           t == <<"data:", x, y, "LF", "LF">>
           e == <<"CR", "LF">>
           f == <<"data:">>
           g == <<x>>
           h == <<y>>
<1>1. "data:" \in S /\ x \in S /\ y \in S /\ "CR" \in S /\ "LF" \in S
      /\ x # "LF" /\ y # "LF" /\ x # "CR" /\ y # "CR"
  BY DEF WireBytes, LineEnds
<1> HIDE DEF S
<1>2. /\ t \in Seq(S) /\ Len(t) = 5
      /\ t[1] = "data:" /\ t[2] = x /\ t[3] = y /\ t[4] = "LF" /\ t[5] = "LF"
  BY <1>1
<1>3. e \in T /\ f \in T /\ g \in T /\ h \in T
  BY <1>1
<1> DEFINE w == [i \in DOMAIN t |-> lineByte(t[i])]
           v == <<f, g, h, e, e>>
<1>4. /\ lineByte("data:") = f /\ lineByte(x) = g /\ lineByte(y) = h /\ lineByte("LF") = e
  BY <1>1 DEF lineByte
<1>5. crlf(t) = FlattenSeq(w)
  <2> HIDE DEF t, w
  <2>1. WithoutCR(t)
    BY <1>1, <1>2 DEF WithoutCR
  <2>2. QED
    BY <1>2, <2>1, CrlfIs DEF S, w
<1>6. w = v
  <2> HIDE DEF t, e, f, g, h
  <2>1. DOMAIN t = 1..5
    BY <1>2
  <2>2. w \in Seq(T) /\ Len(w) = 5 /\ \A i \in 1..5 : w[i] = lineByte(t[i])
    <3>1. \A i \in 1..5 : lineByte(t[i]) \in T
      <4>1. \A i \in 1..5 : t[i] \in S
        BY <1>1, <1>2
      <4>2. \A byte \in S : lineByte(byte) \in T
        BY LineByteType DEF S
      <4>3. QED
        BY <4>1, <4>2
    <3> HIDE DEF T
    <3>2. QED
      BY <2>1, <3>1
  <2>3. v \in Seq(T) /\ Len(v) = 5 /\ v[1] = f /\ v[2] = g /\ v[3] = h /\ v[4] = e /\ v[5] = e
    BY <1>3
  <2> HIDE DEF w, v
  <2>4. w[1] = f /\ w[2] = g /\ w[3] = h /\ w[4] = e /\ w[5] = e
    BY <1>2, <1>4, <2>2
  <2>5. \A i \in 1..Len(w) : w[i] = v[i]
    BY <2>2, <2>3, <2>4
  <2>6. QED
    BY <2>2, <2>3, <2>5, SeqEqual
<1> HIDE DEF t, w
<1>7. FlattenSeq(v) = f \o (g \o (h \o (e \o e)))
  <2> HIDE DEF e, f, g, h
  <2> DEFINE v2 == <<g, h, e, e>>  v3 == <<h, e, e>>  v4 == <<e, e>>
  <2>1. <<f>> \o v2 = v /\ <<g>> \o v3 = v2 /\ <<h>> \o v4 = v3
    BY <1>3, Join2, Join3, Join4
  <2>2. v2 \in Seq(T) /\ v3 \in Seq(T) /\ v4 \in Seq(T)
    BY <1>3
  <2> HIDE DEF v, v2, v3, v4
  <2>3. /\ FlattenSeq(<<f>> \o v2) = f \o FlattenSeq(v2) /\ FlattenSeq(<<g>> \o v3) = g \o FlattenSeq(v3)
        /\ FlattenSeq(<<h>> \o v4) = h \o FlattenSeq(v4)
    BY <1>3, <2>2, FlattenFirst
  <2>4. FlattenSeq(v4) = e \o e
    BY <1>3, FlattenBoth DEF v4
  <2>5. QED
    BY <2>1, <2>3, <2>4, Zenon
<1> HIDE DEF v
<1>8. e \o e = <<"CR", "LF", "CR", "LF">>
  <2> DEFINE u == <<"CR", "LF", "CR", "LF">>
  <2>1. u \in Seq(S) /\ Len(u) = 4 /\ u[1] = "CR" /\ u[2] = "LF" /\ u[3] = "CR" /\ u[4] = "LF"
    BY <1>1
  <2>2. e \in Seq(S) /\ Len(e) = 2 /\ e[1] = "CR" /\ e[2] = "LF"
    BY <1>1
  <2> HIDE DEF u, e
  <2>3. Len(u) = Len(e) + Len(e) /\ \A i \in 1..Len(e) : u[i] = e[i]
    BY <2>1, <2>2
  <2>4. \A i \in 1..2 : u[2 + i] = e[i]
    BY <2>1, <2>2
  <2>5. \A i \in 1..Len(e) : u[Len(e) + i] = e[i]
    BY <2>2, <2>4
  <2>6. e \o e = u
    BY <2>1, <2>2, <2>3, <2>5, JoinedIs
  <2>7. QED
    BY <2>6 DEF u
<1>9. <<y>> \o <<"CR", "LF", "CR", "LF">> = <<y, "CR", "LF", "CR", "LF">>
  BY <1>1, Join4
<1>10. <<x>> \o <<y, "CR", "LF", "CR", "LF">> = <<x, y, "CR", "LF", "CR", "LF">>
  <2> DEFINE q == <<y, "CR", "LF", "CR", "LF">>  u == <<x, y, "CR", "LF", "CR", "LF">>
  <2>1. /\ q \in Seq(S) /\ Len(q) = 5 /\ u \in Seq(S) /\ Len(u) = 6 /\ u[1] = x
        /\ u[2] = q[1] /\ u[3] = q[2] /\ u[4] = q[3] /\ u[5] = q[4] /\ u[6] = q[5]
    BY <1>1
  <2> HIDE DEF q, u
  <2>2. \A i \in 1..5 : u[1 + i] = q[i]
    BY <2>1
  <2>3. Len(u) = Len(q) + 1 /\ \A i \in 1..Len(q) : u[1 + i] = q[i]
    BY <2>1, <2>2
  <2>4. <<x>> \o q = u
    BY <1>1, <2>1, <2>3, PutBefore
  <2>5. QED
    BY <2>4 DEF q, u
<1>11. <<"data:">> \o <<x, y, "CR", "LF", "CR", "LF">> = <<"data:", x, y, "CR", "LF", "CR", "LF">>
  <2> DEFINE q == <<x, y, "CR", "LF", "CR", "LF">>  u == <<"data:", x, y, "CR", "LF", "CR", "LF">>
             d == "data:"
  <2>1. /\ q \in Seq(S) /\ Len(q) = 6 /\ u \in Seq(S) /\ Len(u) = 7 /\ u[1] = d
        /\ u[2] = q[1] /\ u[3] = q[2] /\ u[4] = q[3] /\ u[5] = q[4] /\ u[6] = q[5] /\ u[7] = q[6]
    BY <1>1
  <2>2. d \in S
    BY <1>1
  <2> HIDE DEF q, u, d
  <2>3. \A i \in 1..6 : u[1 + i] = q[i]
    BY <2>1
  <2>4. Len(u) = Len(q) + 1 /\ \A i \in 1..Len(q) : u[1 + i] = q[i]
    BY <2>1, <2>3
  <2>5. <<d>> \o q = u
    BY <2>1, <2>2, <2>4, PutBefore
  <2>6. QED
    BY <2>5 DEF q, u, d
<1>12. QED
  BY <1>5, <1>6, <1>7, <1>8, <1>9, <1>10, <1>11, Zenon DEF t, f, g, h

LEMMA CrlfDecodes ==
    ASSUME NEW x \in WireBytes \ LineEnds, NEW y \in WireBytes \ LineEnds, NEW u, NEW s, Decodes(u, s)
    PROVE  Decodes(<<"data:", x, y, "CR", "LF", "CR", "LF">> \o u, unitsOf(<<x, y>>) \o s)
<1> DEFINE t == <<"data:", x, y, "CR", "LF", "CR", "LF">>
<1>1. u \in Seq(WireBytes) /\ EndsWell(u) /\ unitsIn(u) = s
  BY DEF Decodes
<1>2. t \in Seq(WireBytes) /\ unitsIn(t \o u) = unitsOf(<<x, y>>) \o unitsIn(u)
  BY <1>1, PairUnits
<1>3. Len(t) = 7 /\ t[7] = "LF"
  OBVIOUS
<1> HIDE DEF t
<1>4. EndsWell(t)
  BY <1>3 DEF EndsWell
<1>5. t \o u \in Seq(WireBytes) /\ EndsWell(t \o u)
  BY <1>1, <1>2, <1>4, EndsLater
<1>6. QED
  BY <1>1, <1>2, <1>5, Zenon DEF Decodes, t

LEMMA CrlfStopped ==
    Decodes(crlf(stopped), <<"delta", "finishOk", "done">>) /\ 4 \in 0..Len(crlf(stopped))
<1> DEFINE p == <<"data:", "text", "stop", "LF", "LF">>
           q == <<"data:", "[DO", "NE]", "LF", "LF">>
           r == <<"data:", "text", "stop", "CR", "LF", "CR", "LF">>
           s == <<"data:", "[DO", "NE]", "CR", "LF", "CR", "LF">>
<1>1. /\ "text" \in WireBytes \ LineEnds /\ "stop" \in WireBytes \ LineEnds
      /\ "[DO" \in WireBytes \ LineEnds /\ "NE]" \in WireBytes \ LineEnds
      /\ "data:" \in WireBytes /\ "LF" \in WireBytes /\ "CR" \in WireBytes
  BY DEF WireBytes, LineEnds, values
<1>2. p \in Seq(WireBytes) /\ q \in Seq(WireBytes) /\ s \in Seq(WireBytes)
  <2> DEFINE S == WireBytes
  <2> HIDE DEF S
  <2>1. /\ "text" \in S /\ "stop" \in S /\ "[DO" \in S /\ "NE]" \in S
        /\ "data:" \in S /\ "LF" \in S /\ "CR" \in S
    BY <1>1 DEF S
  <2>2. p \in Seq(S) /\ q \in Seq(S) /\ s \in Seq(S)
    BY <2>1
  <2>3. QED
    BY <2>2 DEF S
<1>3. WithoutCR(p) /\ WithoutCR(q)
  <2>1. /\ Len(p) = 5 /\ p[1] = "data:" /\ p[2] = "text" /\ p[3] = "stop" /\ p[4] = "LF" /\ p[5] = "LF"
        /\ Len(q) = 5 /\ q[1] = "data:" /\ q[2] = "[DO" /\ q[3] = "NE]" /\ q[4] = "LF" /\ q[5] = "LF"
    OBVIOUS
  <2> HIDE DEF p, q
  <2>2. QED
    BY <2>1 DEF WithoutCR
<1>4. crlf(p) = r /\ crlf(q) = s
  BY <1>1, CrlfEvent
<1>5. stopped = p \o q
  BY DEF stopped, chunk, doneMarker
<1> HIDE DEF p, q, r, s
<1>6. crlf(stopped) = r \o s
  <2>1. crlf(p \o q) = crlf(p) \o crlf(q)
    BY <1>2, <1>3, CrlfJoins
  <2>2. QED
    BY <1>4, <1>5, <2>1, Zenon
<1>7. Decodes(s, <<"done">>)
  <2>1. Decodes(s \o <<>>, unitsOf(<<"[DO", "NE]">>) \o <<>>)
    BY <1>1, NothingDecodes, CrlfDecodes DEF s
  <2>2. s \o <<>> = s
    BY <1>2
  <2>3. <<"done">> \o <<>> = <<"done">>
    OBVIOUS
  <2>4. QED
    BY <2>1, <2>2, <2>3, UnitValues, Zenon
<1>8. Decodes(r \o s, unitsOf(<<"text", "stop">>) \o <<"done">>)
  BY <1>1, <1>7, CrlfDecodes DEF r
<1>9. unitsOf(<<"text", "stop">>) \o <<"done">> = <<"delta", "finishOk", "done">>
  BY StoppedUnits
<1>10. 4 \in 0..Len(r \o s)
  <2>1. r \in Seq(WireBytes) /\ Len(r) = 7
    <3>1. Len(r) = 7
      BY DEF r
    <3>2. r \in Seq(WireBytes)
      <4>1. <<>> \in Seq(WireBytes)
        OBVIOUS
      <4>2. QED
        BY <1>1, <4>1, PairUnits DEF r
    <3>3. QED
      BY <3>1, <3>2
  <2>2. Len(r \o s) = 7 + Len(s) /\ Len(s) \in Nat
    <3>1. Len(r \o s) = Len(r) + Len(s)
      BY <1>2, <2>1, ConcatElements
    <3>2. Len(s) \in Nat
      BY <1>2
    <3>3. QED
      BY <2>1, <3>1, <3>2
  <2>3. QED
    BY <2>2
<1>11. QED
  BY <1>6, <1>8, <1>9, <1>10, Zenon

-----------------------------------------------------------------------------
(* The wire with comments.                                                 *)

\* A line of two bytes that is not data adds nothing to an event.
LEMMA CommentAdds ==
    ASSUME NEW x \in WireBytes \ LineEnds, x # "data:", NEW y \in WireBytes \ LineEnds,
           NEW t \in Seq(WireBytes), NEW d \in Seq(Seq(WireBytes)), NEW u \in Seq(WireBytes),
           EventOf(WireBytes, t, d, u)
    PROVE  /\ <<x, y, "CR", "LF">> \in Seq(WireBytes)
           /\ <<x, y, "CR", "LF">> \o t \in Seq(WireBytes)
           /\ EventOf(WireBytes, <<x, y, "CR", "LF">> \o t, d, u)
<1> DEFINE S == WireBytes
           l == <<x, y>>
           e == <<"CR", "LF">>
           r == <<x, y, "CR", "LF">>
<1>1. x \in S /\ y \in S /\ "CR" \in S /\ "LF" \in S
  BY DEF WireBytes
<1> HIDE DEF S
<1>2. /\ l \in Seq(S) /\ e \in Seq(S) /\ r \in Seq(S) /\ Len(l) = 2 /\ Len(e) = 2 /\ Len(r) = 4
      /\ l[1] = x /\ l[2] = y /\ r[1] = l[1] /\ r[2] = l[2] /\ r[3] = e[1] /\ r[4] = e[2]
  BY <1>1
<1>3. e \in WrittenEnds /\ NoEnds(l) /\ l # <<>>
  BY DEF WrittenEnds, NoEnds
<1>4. dataValues(l) = <<>>
  BY <1>2 DEF dataValues
<1> HIDE DEF l, e, r
<1>5. l \o e = r
  <2>1. Len(r) = Len(l) + Len(e) /\ \A i \in 1..Len(l) : r[i] = l[i]
    BY <1>2
  <2>2. \A i \in 1..2 : r[2 + i] = e[i]
    BY <1>2
  <2>3. \A i \in 1..Len(e) : r[Len(l) + i] = e[i]
    BY <1>2, <2>2
  <2>4. QED
    BY <1>2, <2>1, <2>3, JoinedIs
<1>6. EventOf(WireBytes, (l \o e) \o t, dataValues(l) \o d, u)
  BY <1>2, <1>3, LineAdds DEF S
<1>7. <<>> \o d = d
  OBVIOUS
<1>8. r \o t \in Seq(WireBytes)
  BY <1>2 DEF S
<1>9. QED
  BY <1>2, <1>4, <1>5, <1>6, <1>7, <1>8, Zenon DEF r, S

\* A chunk as an event.
LEMMA ChunkEvent ==
    ASSUME NEW x \in WireBytes \ LineEnds, NEW y \in WireBytes \ LineEnds, NEW u \in Seq(WireBytes)
    PROVE  /\ EventOf(WireBytes, <<"data:", x, y, "LF", "LF">> \o u, << <<x, y>> >>, u)
           /\ <<"data:", x, y, "LF", "LF">> \o u \in Seq(WireBytes)
           /\ << <<x, y>> >> \in Seq(Seq(WireBytes)) /\ FlattenSeq(<< <<x, y>> >>) = <<x, y>>
<1> DEFINE S == WireBytes
           v == <<x, y>>
           e == <<"LF">>
           a == "data:"
           t == <<"data:", x, y, "LF", "LF">>
<1>1. x \in S /\ y \in S /\ "LF" \in S /\ a \in S
  BY DEF WireBytes
<1> HIDE DEF S
<1>2. v \in Seq(S) /\ e \in Seq(S) /\ t \in Seq(S) /\ e \in WrittenEnds /\ NoEnds(v)
  BY <1>1 DEF WrittenEnds, NoEnds
<1>3. Spells(t, a, v, e)
  <2>1. /\ Len(t) = 5 /\ t[1] = a /\ t[2] = x /\ t[3] = y /\ t[4] = "LF" /\ t[5] = "LF"
        /\ Len(v) = 2 /\ v[1] = x /\ v[2] = y /\ Len(e) = 1 /\ e[1] = "LF"
    OBVIOUS
  <2> HIDE DEF t, v, e, a
  <2>2. QED
    BY <2>1 DEF Spells
<1> HIDE DEF v, e, t
<1>4. /\ EventOf(WireBytes, ((<<a>> \o v) \o e) \o (e \o u), <<v>>, u)
      /\ ((<<a>> \o v) \o e) \o (e \o u) \in Seq(WireBytes)
      /\ <<v>> \in Seq(Seq(WireBytes)) /\ FlattenSeq(<<v>>) = v
  BY <1>2, PayloadEvent DEF S
<1> HIDE DEF a
<1>5. ((<<a>> \o v) \o e) \o (e \o u) = t \o u
  <2>1. u \in Seq(S)
    BY DEF S
  <2>2. a \in S /\ v \in Seq(S) /\ e \in Seq(S) /\ t \in Seq(S)
    BY <1>1, <1>2, Zenon
  <2>3. WrittenAs(t, a, v, e, u)
    BY <1>3, <2>1, <2>2, Spelled
  <2>4. QED
    BY <2>3, Zenon DEF WrittenAs
<1>6. QED
  BY <1>4, <1>5, Zenon DEF v, t

\* A chunk with text behind four lines that are not data.
LEMMA CommentedUnits ==
    ASSUME NEW u \in Seq(WireBytes)
    PROVE  LET a == <<":", "keep-alive", "CR", "LF">>
               b == <<"event:", "message", "CR", "LF">>
               c == <<"id:", "1", "CR", "LF">>
               d == <<"retry:", "100", "CR", "LF">>
               t == a \o (b \o (c \o (d \o (chunk("text", "null") \o u))))
           IN  /\ t \in Seq(WireBytes) /\ unitsIn(t) = <<"delta">> \o unitsIn(u)
               /\ a \in Seq(WireBytes) /\ b \in Seq(WireBytes) /\ c \in Seq(WireBytes)
               /\ d \in Seq(WireBytes)
<1> DEFINE a == <<":", "keep-alive", "CR", "LF">>
           b == <<"event:", "message", "CR", "LF">>
           c == <<"id:", "1", "CR", "LF">>
           d == <<"retry:", "100", "CR", "LF">>
           w == <<"data:", "text", "null", "LF", "LF">>
           v == << <<"text", "null">> >>
           n == WireBytes \ LineEnds
           data == "data:"
<1>1. /\ ":" \in n /\ "keep-alive" \in n /\ "event:" \in n /\ "message" \in n /\ "id:" \in n
      /\ "1" \in n /\ "retry:" \in n /\ "100" \in n /\ "text" \in n /\ "null" \in n
  BY DEF WireBytes, LineEnds, values
<1>2. ":" # data /\ "event:" # data /\ "id:" # data /\ "retry:" # data
  OBVIOUS
<1>3. /\ EventOf(WireBytes, w \o u, v, u) /\ w \o u \in Seq(WireBytes)
      /\ v \in Seq(Seq(WireBytes)) /\ FlattenSeq(v) = <<"text", "null">>
  BY <1>1, ChunkEvent
<1> DEFINE t1 == w \o u
<1> HIDE DEF v, w, t1
<1>4. d \o t1 \in Seq(WireBytes) /\ EventOf(WireBytes, d \o t1, v, u) /\ d \in Seq(WireBytes)
  BY <1>1, <1>2, <1>3, CommentAdds DEF t1
<1> DEFINE t2 == d \o t1
<1> HIDE DEF d, t2
<1>5. c \o t2 \in Seq(WireBytes) /\ EventOf(WireBytes, c \o t2, v, u) /\ c \in Seq(WireBytes)
  BY <1>1, <1>2, <1>3, <1>4, CommentAdds DEF t2
<1> DEFINE t3 == c \o t2
<1> HIDE DEF c, t3
<1>6. b \o t3 \in Seq(WireBytes) /\ EventOf(WireBytes, b \o t3, v, u) /\ b \in Seq(WireBytes)
  BY <1>1, <1>2, <1>3, <1>5, CommentAdds DEF t3
<1> DEFINE t4 == b \o t3
<1> HIDE DEF b, t4
<1>7. a \o t4 \in Seq(WireBytes) /\ EventOf(WireBytes, a \o t4, v, u) /\ a \in Seq(WireBytes)
  BY <1>1, <1>2, <1>3, <1>6, CommentAdds DEF t4
<1> DEFINE t5 == a \o t4
<1> HIDE DEF a, t5
<1>8. unitsIn(t5) = unitsOf(<<"text", "null">>) \o unitsIn(u)
  BY <1>3, <1>7, EventUnits DEF t5
<1>9. unitsOf(<<"text", "null">>) = <<"delta">>
  BY UnitValues
<1>10. chunk("text", "null") = w
  BY Zenon DEF chunk, w
<1>11. QED
  BY <1>4, <1>5, <1>6, <1>7, <1>8, <1>9, <1>10, Zenon DEF t1, t2, t3, t4, t5, a, b, c, d

\* An empty line of its own.
LEMMA EmptyDecodes ==
    ASSUME NEW u, NEW s, Decodes(u, s)
    PROVE  Decodes(<<"LF">> \o u, <<"comment">> \o s) /\ <<"LF">> \in Seq(WireBytes)
<1> DEFINE e == <<"LF">>
           none == <<>>
<1>1. u \in Seq(WireBytes) /\ EndsWell(u) /\ unitsIn(u) = s
  BY DEF Decodes
<1>2. e \in Seq(WireBytes) /\ e \in WrittenEnds /\ EndsWell(e)
  <2> DEFINE S == WireBytes
  <2>1. "LF" \in S
    BY DEF WireBytes
  <2> HIDE DEF S
  <2>2. e \in Seq(S) /\ Len(e) = 1 /\ e[1] = "LF"
    BY <2>1
  <2>3. e \in WrittenEnds
    BY DEF WrittenEnds
  <2> HIDE DEF e
  <2>4. EndsWell(e)
    BY <2>2 DEF EndsWell
  <2>5. QED
    BY <2>2, <2>3, <2>4 DEF S
<1>3. none \in Seq(Seq(WireBytes)) /\ FlattenSeq(none) = <<>>
  <2> DEFINE T == Seq(WireBytes)
  <2>1. none \in Seq(T)
    <3> HIDE DEF T
    <3>1. QED
      OBVIOUS
  <2>2. QED
    BY <2>1, FlattenNone
<1> HIDE DEF e
<1>4. e \o u \in Seq(WireBytes) /\ EndsWell(e \o u)
  BY <1>1, <1>2, EndsLater
<1>5. EventOf(WireBytes, e \o u, none, u)
  BY <1>1, <1>2, EndsHere
<1> HIDE DEF none
<1>6. unitsIn(e \o u) = unitsOf(<<>>) \o unitsIn(u)
  BY <1>1, <1>3, <1>4, <1>5, EventUnits
<1>7. QED
  BY <1>1, <1>2, <1>4, <1>6, UnitValues, Zenon DEF Decodes, e

LEMMA CommentsDecode ==
    Sends(FragmentAt(
              <<":", "keep-alive", "CR", "LF">>
              \o <<"event:", "message", "CR", "LF", "id:", "1", "CR", "LF", "retry:", "100", "CR", "LF">>
              \o chunk("text", "null") \o <<"LF">> \o chunk("none", "stop") \o doneMarker),
          <<"delta", "comment", "finishOk", "done">>)
<1> DEFINE a == <<":", "keep-alive", "CR", "LF">>
           b == <<"event:", "message", "CR", "LF">>
           c == <<"id:", "1", "CR", "LF">>
           d == <<"retry:", "100", "CR", "LF">>
           m == <<"event:", "message", "CR", "LF", "id:", "1", "CR", "LF", "retry:", "100", "CR", "LF">>
           x == chunk("text", "null")
           l == <<"LF">>
           z == chunk("none", "stop")
           f == z \o doneMarker
           u == l \o f
           S == WireBytes
<1>1. "text" \in values /\ "null" \in values /\ "stop" \in values \ {"null", "text", "none"}
  BY DEF values
<1>2. "delta" \in Kinds /\ "finishOk" \in Kinds /\ "done" \in Kinds /\ "comment" \in Kinds
  BY DEF Kinds
<1>3. Decodes(f, <<"finishOk", "done">>) /\ z \in Seq(WireBytes) /\ doneMarker \in Seq(WireBytes)
  BY <1>1, FinishDecodes
<1>4. Decodes(u, <<"comment", "finishOk", "done">>) /\ l \in Seq(WireBytes)
  <2>1. Decodes(u, <<"comment">> \o <<"finishOk", "done">>) /\ l \in Seq(WireBytes)
    BY <1>3, EmptyDecodes
  <2>2. <<"comment">> \o <<"finishOk", "done">> = <<"comment", "finishOk", "done">>
    BY <1>2, Join2
  <2>3. QED
    BY <2>1, <2>2, Zenon
<1>5. x \in Seq(WireBytes)
  BY <1>1, <1>3, ChunkDecodes
<1> DEFINE t == a \o (b \o (c \o (d \o (x \o u))))
<1>6. u \in Seq(WireBytes) /\ EndsWell(u) /\ unitsIn(u) = <<"comment", "finishOk", "done">> /\ u # <<>>
  <2>1. u \in Seq(WireBytes) /\ EndsWell(u) /\ unitsIn(u) = <<"comment", "finishOk", "done">>
    BY <1>4, Zenon DEF Decodes
  <2>2. <<"comment", "finishOk", "done">> # <<>>
    OBVIOUS
  <2>3. QED
    BY <2>1, <2>2, NoUnits, Zenon
<1>7. /\ t \in Seq(S) /\ unitsIn(t) = <<"delta">> \o unitsIn(u)
      /\ a \in Seq(S) /\ b \in Seq(S) /\ c \in Seq(S) /\ d \in Seq(S)
  BY <1>6, CommentedUnits
<1>8. <<"delta">> \o <<"comment", "finishOk", "done">> = <<"delta", "comment", "finishOk", "done">>
  BY <1>2, Join3
<1>9. m \in Seq(S) /\ m = b \o (c \o d)
  <2>1. /\ "event:" \in S /\ "message" \in S /\ "CR" \in S /\ "LF" \in S /\ "id:" \in S /\ "1" \in S
        /\ "retry:" \in S /\ "100" \in S
    BY DEF WireBytes
  <2> DEFINE k == <<"id:", "1", "CR", "LF", "retry:", "100", "CR", "LF">>
  <2> HIDE DEF S
  <2>2. /\ m \in Seq(S) /\ Len(m) = 12 /\ k \in Seq(S) /\ Len(k) = 8
        /\ Len(b) = 4 /\ Len(c) = 4 /\ Len(d) = 4
    BY <2>1
  <2>3. /\ k[1] = c[1] /\ k[2] = c[2] /\ k[3] = c[3] /\ k[4] = c[4]
        /\ k[5] = d[1] /\ k[6] = d[2] /\ k[7] = d[3] /\ k[8] = d[4]
    OBVIOUS
  <2>4. /\ m[1] = b[1] /\ m[2] = b[2] /\ m[3] = b[3] /\ m[4] = b[4]
        /\ m[5] = k[1] /\ m[6] = k[2] /\ m[7] = k[3] /\ m[8] = k[4]
        /\ m[9] = k[5] /\ m[10] = k[6] /\ m[11] = k[7] /\ m[12] = k[8]
    OBVIOUS
  <2> HIDE DEF a, b, c, d, m, k
  <2>5. c \o d = k
    <3>1. Len(k) = Len(c) + Len(d) /\ \A i \in 1..Len(c) : k[i] = c[i]
      BY <2>2, <2>3
    <3>2. \A i \in 1..4 : k[4 + i] = d[i]
      BY <2>3
    <3>3. \A i \in 1..Len(d) : k[Len(c) + i] = d[i]
      BY <2>2, <3>2
    <3>4. QED
      BY <1>7, <2>2, <3>1, <3>3, JoinedIs
  <2>6. b \o k = m
    <3>1. Len(m) = Len(b) + Len(k) /\ \A i \in 1..Len(b) : m[i] = b[i]
      BY <2>2, <2>4
    <3>2. \A i \in 1..8 : m[4 + i] = k[i]
      BY <2>4
    <3>3. \A i \in 1..Len(k) : m[Len(b) + i] = k[i]
      BY <2>2, <3>2
    <3>4. QED
      BY <1>7, <2>2, <3>1, <3>3, JoinedIs
  <2>7. QED
    BY <2>2, <2>5, <2>6, Zenon
<1> HIDE DEF a, b, c, d, m, x, l, z, S
<1> DEFINE wire == ((((a \o m) \o x) \o l) \o z) \o doneMarker
<1>10. wire = t
  <2>1. /\ a \in Seq(S) /\ b \in Seq(S) /\ c \in Seq(S) /\ d \in Seq(S) /\ m \in Seq(S) /\ x \in Seq(S)
        /\ l \in Seq(S) /\ z \in Seq(S) /\ doneMarker \in Seq(S)
    BY <1>3, <1>4, <1>5, <1>7, <1>9 DEF S
  <2> DEFINE am == a \o m  amx == am \o x  amxl == amx \o l  cd == c \o d  xu == x \o u
  <2>2. am \in Seq(S) /\ cd \in Seq(S) /\ f \in Seq(S) /\ u \in Seq(S)
    BY <2>1
  <2>3. amx \in Seq(S) /\ xu \in Seq(S)
    <3> HIDE DEF am, u
    <3>1. QED
      BY <2>1, <2>2
  <2>4. amxl \in Seq(S)
    <3> HIDE DEF amx
    <3>1. QED
      BY <2>1, <2>3
  <2>5. /\ (amxl \o z) \o doneMarker = amxl \o f
        /\ (amx \o l) \o f = amx \o u
        /\ (am \o x) \o u = am \o xu
        /\ (a \o m) \o xu = a \o (m \o xu)
        /\ (b \o cd) \o xu = b \o (cd \o xu)
        /\ (c \o d) \o xu = c \o (d \o xu)
    <3>1. Regrouped(amxl, z, doneMarker) /\ Regrouped(a, m, xu) /\ Regrouped(b, cd, xu)
          /\ Regrouped(c, d, xu) /\ Regrouped(am, x, u)
      <4> HIDE DEF amxl, amx, am, cd, xu, f, u
      <4>1. QED
        BY <2>1, <2>2, <2>3, <2>4, Regroups
    <3>2. Regrouped(amx, l, f)
      <4> HIDE DEF amxl, amx, am, cd, xu, f
      <4>1. QED
        BY <2>1, <2>2, <2>3, <2>4, Regroups
    <3>3. QED
      BY <3>1, <3>2, Zenon DEF Regrouped
  <2>6. QED
    BY <1>9, <2>5, Zenon
<1>11. EndsWell(t)
  <2> DEFINE p4 == x \o u  p3 == d \o p4  p2 == c \o p3  p1 == b \o p2
  <2>1. EndsWell(x) /\ EndsWell(d) /\ EndsWell(c) /\ EndsWell(b) /\ EndsWell(a)
    <3>1. /\ a[Len(a)] = "LF" /\ b[Len(b)] = "LF" /\ c[Len(c)] = "LF" /\ d[Len(d)] = "LF"
          /\ x[Len(x)] = "LF"
      BY DEF a, b, c, d, x, chunk
    <3>2. QED
      BY <3>1 DEF EndsWell
  <2> HIDE DEF u
  <2>2. p4 \in Seq(WireBytes) /\ EndsWell(p4)
    BY <1>5, <1>6, <2>1, EndsLater
  <2> HIDE DEF p4
  <2>3. p3 \in Seq(WireBytes) /\ EndsWell(p3)
    BY <1>7, <2>1, <2>2, EndsLater DEF S
  <2> HIDE DEF p3
  <2>4. p2 \in Seq(WireBytes) /\ EndsWell(p2)
    BY <1>7, <2>1, <2>3, EndsLater DEF S
  <2> HIDE DEF p2
  <2>5. p1 \in Seq(WireBytes) /\ EndsWell(p1)
    BY <1>7, <2>1, <2>4, EndsLater DEF S
  <2> HIDE DEF p1
  <2>6. EndsWell(a \o p1)
    BY <1>7, <2>1, <2>5, EndsLater DEF S
  <2>7. QED
    BY <2>6, Zenon DEF p1, p2, p3, p4
<1>12. Decodes(wire, <<"delta", "comment", "finishOk", "done">>)
  BY <1>6, <1>7, <1>8, <1>10, <1>11, Zenon DEF Decodes, S
<1>13. QED
  BY <1>12, SendsAtOnce DEF a, m, x, l, z

-----------------------------------------------------------------------------
(* What each scenario sends, and what its note says of it.                 *)

\* What the client would decode of all that a scenario sends.
replyOf(s) == unitsIn(FlattenSeq(s.wire))

deltasOf(reply) == {i \in 1..Len(reply) : reply[i] = "delta"}

\* A reply that is a success of so many deltas, each among the first three events.
Complete(reply, texts) ==
    /\ \A i \in 1..Len(reply) :
          /\ reply[i] \notin {"bad", "finishBad"}
          /\ reply[i] = "done" <=> i = Len(reply)
          /\ reply[i] = "delta" => i <= 3
    /\ \E i \in 1..(Len(reply) - 1) : reply[i] # "comment"
    /\ \E r : Lists(r, deltasOf(reply)) /\ Len(r) = texts

\* A reply with an error of its own.
Broken(reply) == reply[1] = "bad" \/ reply = <<"finishBad", "done">>

NoEnd(reply) == \A i \in 1..Len(reply) : reply[i] \notin {"done", "bad"}

sniffedName == "stream-success-no-content-type"

Fits(s) ==
    LET reply == replyOf(s) IN
    /\ Sends(s.wire, reply) /\ reply \in Seq(Kinds) /\ Len(reply) <= 5
    /\ s.note \in {"ok", "truncated", "failed"}
    /\ s.note = "ok" =>
          /\ Complete(reply, s.texts) /\ reply # <<>>
          /\ s.known /\ ~s.redirect /\ s.status = 200
          /\ \/ s.type = "sse"
             \/ s.type = "none" /\ (s.mode = "raw" \/ s.name = sniffedName)
    /\ s.note = "truncated" => NoEnd(reply)
    /\ s.note = "failed" =>
          \/ reply # <<>> /\ Broken(reply)
          \/ ~s.known \/ s.redirect \/ s.status # 200 \/ s.type \notin {"sse", "none"}

LEMMA ReplyIs ==
    ASSUME NEW w, NEW reply, Sends(w, reply)
    PROVE  unitsIn(FlattenSeq(w)) = reply
  BY DEF Sends, Decodes

\* The ways in which the catalogue makes a scenario of a wire.
LEMMA SuccessFits ==
    ASSUME NEW wire, NEW reply \in Seq(Kinds), Sends(wire, reply), NEW texts, Complete(reply, texts),
           reply # <<>>, Len(reply) <= 5
    PROVE  \A name : /\ Fits(Succeeds(name, texts, wire))
                     /\ Fits(Guarded(Succeeds(name, texts, wire)))
                     /\ Fits(Raw(Untyped(Succeeds(name, texts, wire))))
                     /\ name = sniffedName => Fits(Untyped(Succeeds(name, texts, wire)))
<1> SUFFICES ASSUME NEW name
             PROVE  /\ Fits(Succeeds(name, texts, wire))
                    /\ Fits(Guarded(Succeeds(name, texts, wire)))
                    /\ Fits(Raw(Untyped(Succeeds(name, texts, wire))))
                    /\ name = sniffedName => Fits(Untyped(Succeeds(name, texts, wire)))
  OBVIOUS
<1>1. ASSUME NEW s, s.wire = wire, s.note = "ok", s.texts = texts, s.known, ~s.redirect, s.status = 200,
             s.type = "sse" \/ (s.type = "none" /\ (s.mode = "raw" \/ s.name = sniffedName))
      PROVE  Fits(s)
  <2>1. replyOf(s) = reply
    <3>1. s.wire = wire
      BY <1>1
    <3>2. unitsIn(FlattenSeq(wire)) = reply
      BY ReplyIs
    <3>3. QED
      BY <3>1, <3>2, Zenon DEF replyOf
  <2>2. QED
    BY <1>1, <2>1 DEF Fits
<1> DEFINE a == Succeeds(name, texts, wire)
           b == Guarded(a)
           c == Untyped(a)
           d == Raw(c)
<1>2. /\ a.wire = wire /\ a.note = "ok" /\ a.texts = texts /\ a.known /\ ~a.redirect /\ a.status = 200
      /\ a.type = "sse"
      /\ b.wire = wire /\ b.note = "ok" /\ b.texts = texts /\ b.known /\ ~b.redirect /\ b.status = 200
      /\ b.type = "sse"
  BY DEF Succeeds, Scenario, Guarded
<1>3. /\ c.wire = wire /\ c.note = "ok" /\ c.texts = texts /\ c.known /\ ~c.redirect /\ c.status = 200
      /\ c.type = "none" /\ c.name = name
      /\ d.wire = wire /\ d.note = "ok" /\ d.texts = texts /\ d.known /\ ~d.redirect /\ d.status = 200
      /\ d.type = "none" /\ d.mode = "raw"
  BY DEF Succeeds, Scenario, Untyped, Raw
<1> HIDE DEF a, b, c, d
<1>4. Fits(a) /\ Fits(b) /\ Fits(d)
  BY <1>1, <1>2, <1>3
<1>5. name = sniffedName => Fits(c)
  BY <1>1, <1>3
<1>6. QED
  BY <1>4, <1>5 DEF a, b, c, d

LEMMA FailureFits ==
    ASSUME NEW wire, NEW reply \in Seq(Kinds), Sends(wire, reply), Len(reply) <= 5
    PROVE  /\ reply # <<>> /\ Broken(reply) => \A name : Fits(Fails(name, "failed", wire))
           /\ NoEnd(reply) => \A name : /\ Fits(Fails(name, "truncated", wire))
                                        /\ Fits(Untyped(Fails(name, "truncated", wire)))
           /\ \A name : /\ Fits(Redirected(Fails(name, "failed", wire)))
                        /\ Fits([Fails(name, "failed", wire) EXCEPT !.known = FALSE])
           /\ \A name, status, type :
                 status # 200 \/ type \notin {"sse", "none"} =>
                     Fits([Fails(name, "failed", wire) EXCEPT !.status = status, !.type = type])
<1>1. ASSUME NEW s, s.wire = wire, s.note = "failed",
             \/ reply # <<>> /\ Broken(reply)
             \/ ~s.known \/ s.redirect \/ s.status # 200 \/ s.type \notin {"sse", "none"}
      PROVE  Fits(s)
  <2>1. replyOf(s) = reply
    <3>1. s.wire = wire
      BY <1>1
    <3>2. unitsIn(FlattenSeq(wire)) = reply
      BY ReplyIs
    <3>3. QED
      BY <3>1, <3>2, Zenon DEF replyOf
  <2>2. QED
    BY <1>1, <2>1 DEF Fits
<1>2. ASSUME NEW s, s.wire = wire, s.note = "truncated", NoEnd(reply) PROVE Fits(s)
  <2>1. replyOf(s) = reply
    <3>1. s.wire = wire
      BY <1>2
    <3>2. unitsIn(FlattenSeq(wire)) = reply
      BY ReplyIs
    <3>3. QED
      BY <3>1, <3>2, Zenon DEF replyOf
  <2>2. QED
    BY <1>2, <2>1 DEF Fits
<1>3. ASSUME reply # <<>> /\ Broken(reply), NEW name PROVE Fits(Fails(name, "failed", wire))
  <2> DEFINE s == Fails(name, "failed", wire)
  <2>1. s.wire = wire /\ s.note = "failed"
    BY DEF Fails, Scenario
  <2> HIDE DEF s
  <2>2. QED
    BY <1>1, <1>3, <2>1 DEF s
<1>4. ASSUME NoEnd(reply), NEW name
      PROVE  Fits(Fails(name, "truncated", wire)) /\ Fits(Untyped(Fails(name, "truncated", wire)))
  <2> DEFINE s == Fails(name, "truncated", wire)
             u == Untyped(s)
  <2>1. s.wire = wire /\ s.note = "truncated" /\ u.wire = wire /\ u.note = "truncated"
    BY DEF Fails, Scenario, Untyped
  <2> HIDE DEF s, u
  <2>2. QED
    BY <1>2, <1>4, <2>1 DEF s, u
<1>5. ASSUME NEW name
      PROVE  /\ Fits(Redirected(Fails(name, "failed", wire)))
             /\ Fits([Fails(name, "failed", wire) EXCEPT !.known = FALSE])
  <2> DEFINE s == Redirected(Fails(name, "failed", wire))
             u == [Fails(name, "failed", wire) EXCEPT !.known = FALSE]
  <2>1. s.wire = wire /\ s.note = "failed" /\ s.redirect /\ u.wire = wire /\ u.note = "failed" /\ ~u.known
    BY DEF Fails, Scenario, Redirected
  <2> HIDE DEF s, u
  <2>2. QED
    BY <1>1, <2>1 DEF s, u
<1>6. ASSUME NEW name, NEW status, NEW type, status # 200 \/ type \notin {"sse", "none"}
      PROVE  Fits([Fails(name, "failed", wire) EXCEPT !.status = status, !.type = type])
  <2> DEFINE s == [Fails(name, "failed", wire) EXCEPT !.status = status, !.type = type]
  <2>1. s.wire = wire /\ s.note = "failed" /\ s.status = status /\ s.type = type
    BY DEF Fails, Scenario
  <2> HIDE DEF s
  <2>2. QED
    BY <1>1, <1>6, <2>1 DEF s
<1>7. QED
  BY <1>3, <1>4, <1>5, <1>6

\* The replies the catalogue calls a success.
LEMMA ListsFirst ==
    /\ Lists(<<>>, {}) /\ Lists(<<1>>, {1}) /\ Lists(<<3>>, {3})
    /\ Lists(<<1, 2>>, {1, 2}) /\ Lists(<<1, 2, 3>>, {1, 2, 3})
<1>1. Lists(<<>>, {})
  BY DEF Lists
<1>2. Lists(<<1>>, {1}) /\ Lists(<<3>>, {3})
  BY DEF Lists
<1>3. Lists(<<1, 2>>, {1, 2})
  <2> DEFINE s == <<1, 2>>
  <2>1. s \in Seq({1, 2}) /\ Len(s) = 2 /\ s[1] = 1 /\ s[2] = 2
    OBVIOUS
  <2> HIDE DEF s
  <2>2. Lists(s, {1, 2})
    BY <2>1 DEF Lists
  <2>3. QED
    BY <2>2 DEF s
<1>4. Lists(<<1, 2, 3>>, {1, 2, 3})
  <2> DEFINE s == <<1, 2, 3>>
  <2>1. s \in Seq({1, 2, 3}) /\ Len(s) = 3 /\ s[1] = 1 /\ s[2] = 2 /\ s[3] = 3
    OBVIOUS
  <2> HIDE DEF s
  <2>2. Lists(s, {1, 2, 3})
    BY <2>1 DEF Lists
  <2>3. QED
    BY <2>2 DEF s
<1>5. QED
  BY <1>1, <1>2, <1>3, <1>4

LEMMA CompleteReplies ==
    /\ Complete(<<"delta", "finishOk", "done">>, 1)
    /\ Complete(<<"delta", "delta", "delta", "finishOk", "done">>, 3)
    /\ Complete(<<"role", "role", "delta", "finishOk", "done">>, 1)
    /\ Complete(<<"delta", "comment", "finishOk", "done">>, 1)
    /\ Complete(<<"delta", "delta", "finishOk", "done">>, 2)
    /\ Complete(<<"finishOk", "done">>, 0)
<1>1. Complete(<<"delta", "finishOk", "done">>, 1)
  <2> DEFINE t == <<"delta", "finishOk", "done">>
             r == <<1>>
  <2>1. /\ Len(t) = 3
        /\ t[1] = "delta" /\ t[2] = "finishOk" /\ t[3] = "done"
    OBVIOUS
  <2>2. Lists(r, {1}) /\ Len(r) = 1
    BY ListsFirst
  <2> HIDE DEF t, r
  <2>3. deltasOf(t) = {1}
    BY <2>1 DEF deltasOf
  <2>4. Lists(r, deltasOf(t)) /\ Len(r) = 1
    BY <2>2, <2>3
  <2>5. \E i \in 1..(Len(t) - 1) : t[i] # "comment"
    <3>1. 1 \in 1..(Len(t) - 1) /\ t[1] # "comment"
      BY <2>1
    <3>2. QED
      BY <3>1
  <2>6. \A i \in 1..Len(t) :
           /\ t[i] \notin {"bad", "finishBad"}
           /\ t[i] = "done" <=> i = Len(t)
           /\ t[i] = "delta" => i <= 3
    BY <2>1
  <2>7. Complete(t, 1)
    BY <2>4, <2>5, <2>6, Zenon DEF Complete
  <2>8. QED
    BY <2>7 DEF t
<1>2. Complete(<<"delta", "delta", "delta", "finishOk", "done">>, 3)
  <2> DEFINE t == <<"delta", "delta", "delta", "finishOk", "done">>
             r == <<1, 2, 3>>
  <2>1. /\ Len(t) = 5
        /\ t[1] = "delta" /\ t[2] = "delta" /\ t[3] = "delta" /\ t[4] = "finishOk" /\ t[5] = "done"
    OBVIOUS
  <2>2. Lists(r, {1, 2, 3}) /\ Len(r) = 3
    BY ListsFirst
  <2> HIDE DEF t, r
  <2>3. deltasOf(t) = {1, 2, 3}
    BY <2>1 DEF deltasOf
  <2>4. Lists(r, deltasOf(t)) /\ Len(r) = 3
    BY <2>2, <2>3
  <2>5. \E i \in 1..(Len(t) - 1) : t[i] # "comment"
    <3>1. 1 \in 1..(Len(t) - 1) /\ t[1] # "comment"
      BY <2>1
    <3>2. QED
      BY <3>1
  <2>6. \A i \in 1..Len(t) :
           /\ t[i] \notin {"bad", "finishBad"}
           /\ t[i] = "done" <=> i = Len(t)
           /\ t[i] = "delta" => i <= 3
    BY <2>1
  <2>7. Complete(t, 3)
    BY <2>4, <2>5, <2>6, Zenon DEF Complete
  <2>8. QED
    BY <2>7 DEF t
<1>3. Complete(<<"role", "role", "delta", "finishOk", "done">>, 1)
  <2> DEFINE t == <<"role", "role", "delta", "finishOk", "done">>
             r == <<3>>
  <2>1. /\ Len(t) = 5
        /\ t[1] = "role" /\ t[2] = "role" /\ t[3] = "delta" /\ t[4] = "finishOk" /\ t[5] = "done"
    OBVIOUS
  <2>2. Lists(r, {3}) /\ Len(r) = 1
    BY ListsFirst
  <2> HIDE DEF t, r
  <2>3. deltasOf(t) = {3}
    BY <2>1 DEF deltasOf
  <2>4. Lists(r, deltasOf(t)) /\ Len(r) = 1
    BY <2>2, <2>3
  <2>5. \E i \in 1..(Len(t) - 1) : t[i] # "comment"
    <3>1. 1 \in 1..(Len(t) - 1) /\ t[1] # "comment"
      BY <2>1
    <3>2. QED
      BY <3>1
  <2>6. \A i \in 1..Len(t) :
           /\ t[i] \notin {"bad", "finishBad"}
           /\ t[i] = "done" <=> i = Len(t)
           /\ t[i] = "delta" => i <= 3
    BY <2>1
  <2>7. Complete(t, 1)
    BY <2>4, <2>5, <2>6, Zenon DEF Complete
  <2>8. QED
    BY <2>7 DEF t
<1>4. Complete(<<"delta", "comment", "finishOk", "done">>, 1)
  <2> DEFINE t == <<"delta", "comment", "finishOk", "done">>
             r == <<1>>
  <2>1. /\ Len(t) = 4
        /\ t[1] = "delta" /\ t[2] = "comment" /\ t[3] = "finishOk" /\ t[4] = "done"
    OBVIOUS
  <2>2. Lists(r, {1}) /\ Len(r) = 1
    BY ListsFirst
  <2> HIDE DEF t, r
  <2>3. deltasOf(t) = {1}
    BY <2>1 DEF deltasOf
  <2>4. Lists(r, deltasOf(t)) /\ Len(r) = 1
    BY <2>2, <2>3
  <2>5. \E i \in 1..(Len(t) - 1) : t[i] # "comment"
    <3>1. 1 \in 1..(Len(t) - 1) /\ t[1] # "comment"
      BY <2>1
    <3>2. QED
      BY <3>1
  <2>6. \A i \in 1..Len(t) :
           /\ t[i] \notin {"bad", "finishBad"}
           /\ t[i] = "done" <=> i = Len(t)
           /\ t[i] = "delta" => i <= 3
    BY <2>1
  <2>7. Complete(t, 1)
    BY <2>4, <2>5, <2>6, Zenon DEF Complete
  <2>8. QED
    BY <2>7 DEF t
<1>5. Complete(<<"delta", "delta", "finishOk", "done">>, 2)
  <2> DEFINE t == <<"delta", "delta", "finishOk", "done">>
             r == <<1, 2>>
  <2>1. /\ Len(t) = 4
        /\ t[1] = "delta" /\ t[2] = "delta" /\ t[3] = "finishOk" /\ t[4] = "done"
    OBVIOUS
  <2>2. Lists(r, {1, 2}) /\ Len(r) = 2
    BY ListsFirst
  <2> HIDE DEF t, r
  <2>3. deltasOf(t) = {1, 2}
    BY <2>1 DEF deltasOf
  <2>4. Lists(r, deltasOf(t)) /\ Len(r) = 2
    BY <2>2, <2>3
  <2>5. \E i \in 1..(Len(t) - 1) : t[i] # "comment"
    <3>1. 1 \in 1..(Len(t) - 1) /\ t[1] # "comment"
      BY <2>1
    <3>2. QED
      BY <3>1
  <2>6. \A i \in 1..Len(t) :
           /\ t[i] \notin {"bad", "finishBad"}
           /\ t[i] = "done" <=> i = Len(t)
           /\ t[i] = "delta" => i <= 3
    BY <2>1
  <2>7. Complete(t, 2)
    BY <2>4, <2>5, <2>6, Zenon DEF Complete
  <2>8. QED
    BY <2>7 DEF t
<1>6. Complete(<<"finishOk", "done">>, 0)
  <2> DEFINE t == <<"finishOk", "done">>
             r == <<>>
  <2>1. /\ Len(t) = 2
        /\ t[1] = "finishOk" /\ t[2] = "done"
    OBVIOUS
  <2>2. Lists(r, {}) /\ Len(r) = 0
    BY ListsFirst
  <2> HIDE DEF t, r
  <2>3. deltasOf(t) = {}
    BY <2>1 DEF deltasOf
  <2>4. Lists(r, deltasOf(t)) /\ Len(r) = 0
    BY <2>2, <2>3
  <2>5. \E i \in 1..(Len(t) - 1) : t[i] # "comment"
    <3>1. 1 \in 1..(Len(t) - 1) /\ t[1] # "comment"
      BY <2>1
    <3>2. QED
      BY <3>1
  <2>6. \A i \in 1..Len(t) :
           /\ t[i] \notin {"bad", "finishBad"}
           /\ t[i] = "done" <=> i = Len(t)
           /\ t[i] = "delta" => i <= 3
    BY <2>1
  <2>7. Complete(t, 0)
    BY <2>4, <2>5, <2>6, Zenon DEF Complete
  <2>8. QED
    BY <2>7 DEF t
<1>7. QED
  BY <1>1, <1>2, <1>3, <1>4, <1>5, <1>6

\* A wire that is a success of so many deltas, one that fails, and one that ends early.
GoodWire(texts, wire) ==
    \A name : /\ Fits(Succeeds(name, texts, wire))
              /\ Fits(Guarded(Succeeds(name, texts, wire)))
              /\ Fits(Raw(Untyped(Succeeds(name, texts, wire))))
              /\ name = sniffedName => Fits(Untyped(Succeeds(name, texts, wire)))

BadWire(wire) == \A name : Fits(Fails(name, "failed", wire))

ShortWire(wire) ==
    \A name : Fits(Fails(name, "truncated", wire)) /\ Fits(Untyped(Fails(name, "truncated", wire)))

LEMMA GoodWires ==
    /\ \A wire : Sends(wire, <<"delta", "finishOk", "done">>) => GoodWire(1, wire)
    /\ \A wire : Sends(wire, <<"delta", "delta", "delta", "finishOk", "done">>) => GoodWire(3, wire)
    /\ \A wire : Sends(wire, <<"role", "role", "delta", "finishOk", "done">>) => GoodWire(1, wire)
    /\ \A wire : Sends(wire, <<"delta", "comment", "finishOk", "done">>) => GoodWire(1, wire)
    /\ \A wire : Sends(wire, <<"delta", "delta", "finishOk", "done">>) => GoodWire(2, wire)
    /\ \A wire : Sends(wire, <<"finishOk", "done">>) => GoodWire(0, wire)
<1>1. \A reply, texts : reply \in Seq(Kinds) /\ reply # <<>> /\ Len(reply) <= 5 /\ Complete(reply, texts) =>
          \A wire : Sends(wire, reply) => GoodWire(texts, wire)
  BY SuccessFits DEF GoodWire
<1> DEFINE a == <<"delta", "finishOk", "done">>
           b == <<"delta", "delta", "delta", "finishOk", "done">>
           c == <<"role", "role", "delta", "finishOk", "done">>
           d == <<"delta", "comment", "finishOk", "done">>
           e == <<"delta", "delta", "finishOk", "done">>
           f == <<"finishOk", "done">>
<1>2. a \in Seq(Kinds) /\ a # <<>> /\ Len(a) <= 5
  BY DEF Kinds
<1>3. b \in Seq(Kinds) /\ b # <<>> /\ Len(b) <= 5
  BY DEF Kinds
<1>4. c \in Seq(Kinds) /\ c # <<>> /\ Len(c) <= 5
  BY DEF Kinds
<1>5. d \in Seq(Kinds) /\ d # <<>> /\ Len(d) <= 5
  BY DEF Kinds
<1>6. e \in Seq(Kinds) /\ e # <<>> /\ Len(e) <= 5
  BY DEF Kinds
<1>7. f \in Seq(Kinds) /\ f # <<>> /\ Len(f) <= 5
  BY DEF Kinds
<1>8. Complete(a, 1) /\ Complete(b, 3) /\ Complete(c, 1) /\ Complete(d, 1) /\ Complete(e, 2) /\ Complete(f, 0)
  BY CompleteReplies
<1> HIDE DEF a, b, c, d, e, f
<1>9. /\ \A wire : Sends(wire, a) => GoodWire(1, wire)
      /\ \A wire : Sends(wire, b) => GoodWire(3, wire)
      /\ \A wire : Sends(wire, c) => GoodWire(1, wire)
      /\ \A wire : Sends(wire, d) => GoodWire(1, wire)
      /\ \A wire : Sends(wire, e) => GoodWire(2, wire)
      /\ \A wire : Sends(wire, f) => GoodWire(0, wire)
  BY <1>1, <1>2, <1>3, <1>4, <1>5, <1>6, <1>7, <1>8, Zenon
<1>10. QED
  BY <1>9, Zenon DEF a, b, c, d, e, f

LEMMA OtherWires ==
    /\ \A wire : Sends(wire, <<"bad", "done">>) \/ Sends(wire, <<"finishBad", "done">>) => BadWire(wire)
    /\ \A wire : Sends(wire, <<>>) \/ Sends(wire, <<"delta">>) => ShortWire(wire)
<1> DEFINE a == <<"bad", "done">>
           b == <<"finishBad", "done">>
           c == <<>>
           d == <<"delta">>
<1>1. /\ a \in Seq(Kinds) /\ a # <<>> /\ Len(a) <= 5 /\ a[1] = "bad"
      /\ b \in Seq(Kinds) /\ b # <<>> /\ Len(b) <= 5
  BY DEF Kinds
<1>2. /\ c \in Seq(Kinds) /\ Len(c) = 0
      /\ d \in Seq(Kinds) /\ Len(d) = 1 /\ d[1] = "delta"
  BY DEF Kinds
<1>3. Broken(a) /\ Broken(b)
  BY <1>1 DEF Broken
<1> HIDE DEF a, b, c, d
<1>4. NoEnd(c) /\ NoEnd(d) /\ Len(c) <= 5 /\ Len(d) <= 5
  BY <1>2 DEF NoEnd
<1>5. \A reply : reply \in Seq(Kinds) /\ reply # <<>> /\ Len(reply) <= 5 /\ Broken(reply) =>
          \A wire : Sends(wire, reply) => BadWire(wire)
  BY FailureFits DEF BadWire
<1>6. \A reply : reply \in Seq(Kinds) /\ Len(reply) <= 5 /\ NoEnd(reply) =>
          \A wire : Sends(wire, reply) => ShortWire(wire)
  BY FailureFits DEF ShortWire
<1>7. /\ \A wire : Sends(wire, a) \/ Sends(wire, b) => BadWire(wire)
      /\ \A wire : Sends(wire, c) \/ Sends(wire, d) => ShortWire(wire)
  BY <1>1, <1>2, <1>3, <1>4, <1>5, <1>6, Zenon
<1>8. QED
  BY <1>7, Zenon DEF a, b, c, d

\* The wires of the catalogue.
LEMMA CatalogueWires ==
    /\ GoodWire(1, successWire("stop")) /\ GoodWire(1, successWire("length"))
    /\ GoodWire(3, FragmentAt(chunk("text", "null") \o chunk("text", "null") \o stopped))
    /\ GoodWire(1, FragmentAt(chunk("none", "null") \o chunk("none", "null") \o stopped))
    /\ GoodWire(1, FragmentAt(crlf(stopped))) /\ GoodWire(1, Fragment(crlf(stopped), 4))
    /\ GoodWire(1, FragmentAt(
           <<":", "keep-alive", "CR", "LF">>
           \o <<"event:", "message", "CR", "LF", "id:", "1", "CR", "LF", "retry:", "100", "CR", "LF">>
           \o chunk("text", "null") \o <<"LF">> \o chunk("none", "stop") \o doneMarker))
    /\ GoodWire(0, FragmentAt(chunk("none", "stop") \o doneMarker))
    /\ GoodWire(1, FragmentAt(stopped)) /\ GoodWire(1, FragmentEveryByte(stopped))
    /\ GoodWire(1, Fragment(stopped, 1)) /\ GoodWire(1, Fragment(stopped, 2)) /\ GoodWire(1, Fragment(stopped, 7))
    /\ GoodWire(2, FragmentAt(
           chunk("text", "null") \o chunk("text", "null") \o chunk("none", "stop") \o doneMarker))
    /\ \A payload \in payloads : BadWire(FragmentAt(rawEvent(payload) \o doneMarker))
    /\ BadWire(FragmentAt(chunk("none", "content_filter") \o doneMarker))
    /\ BadWire(FragmentAt(chunk("none", "weird_reason") \o doneMarker))
    /\ ShortWire(<<>>)
    /\ ShortWire(<<chunk("text", "null"), <<>>>>)
    /\ ShortWire(<<chunk("text", "null"), <<"data:", "cut">>>>)
<1> DEFINE once == <<"delta", "finishOk", "done">>
<1>1. Sends(successWire("stop"), once) /\ Sends(successWire("length"), once)
  BY SuccessDecodes
<1>2. Decodes(stopped, once) /\ Decodes(crlf(stopped), once) /\ 4 \in 0..Len(crlf(stopped))
  BY StoppedDecodes, CrlfStopped
<1>3. 1 \in 0..Len(stopped) /\ 2 \in 0..Len(stopped) /\ 7 \in 0..Len(stopped)
  <2> DEFINE p == chunk("text", "stop")
             q == doneMarker
  <2>1. Len(p) = 5 /\ Len(q) = 5
    BY DEF chunk, doneMarker
  <2>2. p \in Seq(WireBytes) /\ q \in Seq(WireBytes)
    <3>1. "text" \in values /\ "stop" \in values
      BY DEF values
    <3>2. QED
      BY <3>1, DoneDecodes, ChunkDecodes DEF Decodes
  <2> HIDE DEF p, q
  <2>3. Len(p \o q) = 10
    <3>1. Len(p \o q) = Len(p) + Len(q)
      BY <2>2, ConcatElements
    <3>2. QED
      BY <2>1, <3>1
  <2>4. Len(stopped) = 10
    BY <2>3 DEF stopped, p, q
  <2>5. QED
    BY <2>4
<1>4. /\ Sends(FragmentAt(stopped), once) /\ Sends(FragmentAt(crlf(stopped)), once)
      /\ Sends(FragmentEveryByte(stopped), once)
  BY <1>2, SendsAtOnce, SendsEveryByte
<1>5. /\ Sends(Fragment(crlf(stopped), 4), once) /\ Sends(Fragment(stopped, 1), once)
      /\ Sends(Fragment(stopped, 2), once) /\ Sends(Fragment(stopped, 7), once)
  BY <1>2, <1>3, SendsCut
<1> HIDE DEF once
<1>6. \A wire : Sends(wire, once) => GoodWire(1, wire)
  BY GoodWires DEF once
<1>7. /\ GoodWire(1, successWire("stop")) /\ GoodWire(1, successWire("length"))
      /\ GoodWire(1, FragmentAt(crlf(stopped))) /\ GoodWire(1, Fragment(crlf(stopped), 4))
      /\ GoodWire(1, FragmentAt(stopped)) /\ GoodWire(1, FragmentEveryByte(stopped))
      /\ GoodWire(1, Fragment(stopped, 1)) /\ GoodWire(1, Fragment(stopped, 2)) /\ GoodWire(1, Fragment(stopped, 7))
  BY <1>1, <1>4, <1>5, <1>6, Zenon
<1>8. /\ GoodWire(3, FragmentAt(chunk("text", "null") \o chunk("text", "null") \o stopped))
      /\ GoodWire(1, FragmentAt(chunk("none", "null") \o chunk("none", "null") \o stopped))
      /\ GoodWire(0, FragmentAt(chunk("none", "stop") \o doneMarker))
      /\ GoodWire(2, FragmentAt(
             chunk("text", "null") \o chunk("text", "null") \o chunk("none", "stop") \o doneMarker))
  BY MoreDecode, GoodWires, Zenon
<1>9. GoodWire(1, FragmentAt(
           <<":", "keep-alive", "CR", "LF">>
           \o <<"event:", "message", "CR", "LF", "id:", "1", "CR", "LF", "retry:", "100", "CR", "LF">>
           \o chunk("text", "null") \o <<"LF">> \o chunk("none", "stop") \o doneMarker))
  BY CommentsDecode, GoodWires, Zenon
<1>10. /\ \A payload \in payloads : BadWire(FragmentAt(rawEvent(payload) \o doneMarker))
       /\ BadWire(FragmentAt(chunk("none", "content_filter") \o doneMarker))
       /\ BadWire(FragmentAt(chunk("none", "weird_reason") \o doneMarker))
  BY BadDecode, OtherWires, Zenon
<1>11. /\ ShortWire(<<>>)
       /\ ShortWire(<<chunk("text", "null"), <<>>>>)
       /\ ShortWire(<<chunk("text", "null"), <<"data:", "cut">>>>)
  BY CutSends, OtherWires, Zenon
<1>12. QED
  BY <1>7, <1>8, <1>9, <1>10, <1>11, Zenon

LEMMA CatalogueFits == \A s \in Registered : Fits(s)
<1>1. \A texts, wire : GoodWire(texts, wire) =>
         \A name : Fits(Succeeds(name, texts, wire)) /\ Fits(Guarded(Succeeds(name, texts, wire)))
  BY Zenon DEF GoodWire
<1>2. \A wire : BadWire(wire) => \A name : Fits(Fails(name, "failed", wire))
  BY Zenon DEF BadWire
<1>3. \A wire : ShortWire(wire) => \A name : Fits(Fails(name, "truncated", wire))
  BY Zenon DEF ShortWire
<1>4. \A s \in streamScenarios : Fits(s)
  <2>1. Fits(Untyped(Succeeds("stream-success-no-content-type", 1, successWire("stop"))))
    BY CatalogueWires, Zenon DEF GoodWire, sniffedName
  <2>2. QED
    BY <1>1, <2>1, CatalogueWires, Zenon DEF streamScenarios
<1>5. \A s \in framingScenarios : Fits(s)
  BY <1>1, CatalogueWires, Zenon DEF framingScenarios
<1>6. \A s \in malformedScenarios : Fits(s)
  <2>1. \A name \in payloads : Fits(Fails(name, "failed", FragmentAt(rawEvent(name) \o doneMarker)))
    BY <1>2, CatalogueWires, Zenon
  <2>2. QED
    BY <1>1, <1>2, <1>3, <2>1, CatalogueWires, Zenon DEF malformedScenarios, payloads
<1>7. \A s \in httpErrorScenarios : Fits(s)
  <2>1. \A name, status, type :
           status # 200 \/ type \notin {"sse", "none"} => Fits(Refused(name, status, type, <<"body">>))
    <3>1. <<>> \in Seq(Kinds) /\ Len(<<>>) <= 5
      OBVIOUS
    <3>2. QED
      BY <3>1, CutSends, FailureFits DEF Refused
  <2>2. /\ Fits(Refused("http-error-401", 401, "plain", <<"body">>))
        /\ Fits(Refused("http-error-429", 429, "json", <<"body">>))
        /\ Fits(Refused("http-error-500", 500, "html", <<"body">>))
        /\ Fits(Refused("http-error-404-unknown-model", 404, "json", <<"body">>))
        /\ Fits(Refused("non-sse-content-type", 200, "json", <<"body">>))
    BY <2>1
  <2>3. Fits(Untyped(Fails("non-sse-empty-body", "truncated", <<>>)))
    BY CatalogueWires, Zenon DEF ShortWire
  <2>4. QED
    <3> DEFINE r1 == Refused("http-error-401", 401, "plain", <<"body">>)
               r2 == Refused("http-error-429", 429, "json", <<"body">>)
               r3 == Refused("http-error-500", 500, "html", <<"body">>)
               r4 == Refused("http-error-404-unknown-model", 404, "json", <<"body">>)
               r5 == Refused("non-sse-content-type", 200, "json", <<"body">>)
               r6 == Untyped(Fails("non-sse-empty-body", "truncated", <<>>))
    <3>1. Fits(r1) /\ Fits(r2) /\ Fits(r3) /\ Fits(r4) /\ Fits(r5) /\ Fits(r6)
      BY <2>2, <2>3
    <3>2. httpErrorScenarios = {r1, r2, r3, r4, r5, r6}
      BY DEF httpErrorScenarios
    <3> HIDE DEF r1, r2, r3, r4, r5, r6
    <3>3. QED
      BY <3>1, <3>2
<1>8. \A s \in authScenarios : Fits(s)
  BY <1>1, CatalogueWires, Zenon DEF authScenarios
<1>9. \A s \in redirectScenarios \cup {unknownScenario} : Fits(s)
  <2>1. \A name : /\ Fits(Redirected(Fails(name, "failed", <<>>)))
                  /\ Fits([Fails(name, "failed", <<>>) EXCEPT !.known = FALSE])
    <3>1. <<>> \in Seq(Kinds) /\ Len(<<>>) <= 5
      OBVIOUS
    <3>2. QED
      BY <3>1, CutSends, FailureFits
  <2>2. QED
    BY <2>1, Zenon DEF redirectScenarios, unknownScenario
<1>10. \A s \in contextScenarios : Fits(s)
  BY <1>1, <1>3, CatalogueWires, Zenon DEF contextScenarios
<1>11. \A s \in rawScenarios : Fits(s)
  BY CatalogueWires, Zenon DEF rawScenarios, GoodWire
<1>12. QED
  BY <1>4, <1>5, <1>6, <1>7, <1>8, <1>9, <1>10, <1>11, Zenon DEF Registered, Catalog

-----------------------------------------------------------------------------
(* What arrives of a scenario is the beginning of its reply.               *)

LEMMA UnitsBegin ==
    ASSUME NEW D \in Seq(Seq(Seq(WireBytes))), NEW E \in Seq(Seq(Seq(WireBytes))), IsPrefix(D, E)
    PROVE  StartOf(unitsOfAll(D), unitsOfAll(E))
<1> DEFINE T == Seq(Seq(WireBytes))
           R == Seq(Kinds)
           g(x) == unitsOf(FlattenSeq(x))
           p == [i \in DOMAIN D |-> g(D[i])]
           q == [i \in DOMAIN E |-> g(E[i])]
<1>1. Len(D) <= Len(E) /\ \A i \in 1..Len(D) : D[i] = E[i]
  BY PrefixElements
<1>2. D \in Seq(T) /\ E \in Seq(T)
  OBVIOUS
<1>3. \A x : g(x) \in R
  BY UnitsType
<1> HIDE DEF T, R, g
<1>4. Len(D) \in Nat /\ Len(E) \in Nat /\ DOMAIN D = 1..Len(D) /\ DOMAIN E = 1..Len(E)
  BY <1>2
<1>5. p \in Seq(R) /\ Len(p) = Len(D) /\ \A i \in 1..Len(D) : p[i] = g(D[i])
  BY <1>3, <1>4
<1>6. q \in Seq(R) /\ Len(q) = Len(E) /\ \A i \in 1..Len(E) : q[i] = g(E[i])
  BY <1>3, <1>4
<1> HIDE DEF p, q
<1>7. StartOf(p, q)
  BY <1>1, <1>4, <1>5, <1>6 DEF StartOf
<1>8. StartOf(FlattenSeq(p), FlattenSeq(q))
  BY <1>5, <1>6, <1>7, FlattenBegins DEF R
<1>9. QED
  BY <1>8, Zenon DEF unitsOfAll, p, q, g

LEMMA UnitsAreKinds ==
    ASSUME NEW D \in Seq(Seq(Seq(WireBytes)))
    PROVE  unitsOfAll(D) \in Seq(Kinds)
<1> DEFINE T == Seq(Seq(WireBytes))
           R == Seq(Kinds)
           g(x) == unitsOf(FlattenSeq(x))
           p == [i \in DOMAIN D |-> g(D[i])]
<1>1. \A x : g(x) \in R
  BY UnitsType
<1>2. D \in Seq(T)
  OBVIOUS
<1> HIDE DEF T, R, g
<1>3. p \in Seq(R)
  <2>1. Len(D) \in Nat /\ DOMAIN D = 1..Len(D)
    BY <1>2
  <2>2. \A i \in 1..Len(D) : g(D[i]) \in R
    BY <1>1
  <2>3. QED
    BY <2>1, <2>2
<1> HIDE DEF p
<1>4. FlattenSeq(p) \in Seq(Kinds)
  BY <1>3, FlattenType DEF R
<1>5. QED
  BY <1>4, Zenon DEF unitsOfAll, p, g

\* The units of some bytes when more may come.
unitsSoFar(b) == unitsOfAll(Delivered(readEvents(b, FALSE, Len(b) + 1)))

LEMMA DeliveredIs ==
    ASSUME NEW b \in Seq(WireBytes)
    PROVE  /\ Delivered(readEvents(b, FALSE, Len(b) + 1)) = StandardEvents(WithoutLastCR(b))
           /\ Delivered(readEvents(b, FALSE, Len(b) + 1)) \in Seq(Seq(Seq(WireBytes)))
           /\ unitsSoFar(b) \in Seq(Kinds)
<1>1. Delivered(readEvents(b, FALSE, Len(b) + 1)) = StandardEvents(WithoutLastCR(b))
  BY FramingIsStandard DEF DeliversAtOnce
<1>2. WithoutLastCR(b) \in Seq(WireBytes)
  BY DEF WithoutLastCR, Last, Front
<1>3. Delivered(readEvents(b, FALSE, Len(b) + 1)) \in Seq(Seq(Seq(WireBytes)))
  BY <1>1, <1>2, StandardType
<1>4. QED
  BY <1>1, <1>3, UnitsAreKinds DEF unitsSoFar

\* Of the first bytes of a wire the client decodes the first events of its reply,
\* and of a whole wire that does not end with a CR all of them.
LEMMA RepliesBegin ==
    ASSUME NEW t \in Seq(WireBytes), NEW n \in 0..Len(t)
    PROVE  StartOf(unitsSoFar(SubSeq(t, 1, n)), unitsIn(t))
<1> DEFINE b == SubSeq(t, 1, n)
           D == Delivered(readEvents(b, FALSE, Len(b) + 1))
           E == Delivered(readEvents(t, TRUE, Len(t) + 1))
<1>1. b \in Seq(WireBytes) /\ Len(b) = n
  OBVIOUS
<1>2. \A m \in 0..Len(t), over \in BOOLEAN :
         IsPrefix(Delivered(readEvents(SubSeq(t, 1, m), FALSE, m + 1)),
                  Delivered(readEvents(t, over, Len(t) + 1)))
  BY FramingIsStandard DEF StaysDelivered
<1>3. IsPrefix(Delivered(readEvents(b, FALSE, n + 1)), E)
  <2>1. TRUE \in BOOLEAN
    OBVIOUS
  <2>2. QED
    BY <1>2, <2>1, Zenon
<1> HIDE DEF b
<1>4. IsPrefix(D, E)
  BY <1>1, <1>3, Zenon
<1>5. E = StandardEvents(t)
  BY FramingIsStandard DEF ReadsTheStandard
<1>6. E \in Seq(Seq(Seq(WireBytes)))
  BY <1>5, StandardType
<1>7. D \in Seq(Seq(Seq(WireBytes)))
  BY <1>1, DeliveredIs
<1> HIDE DEF D, E
<1>8. StartOf(unitsOfAll(D), unitsOfAll(E))
  BY <1>4, <1>6, <1>7, UnitsBegin
<1>9. QED
  BY <1>5, <1>8, Zenon DEF unitsSoFar, unitsIn, b, D

LEMMA RepliesEnd ==
    ASSUME NEW t \in Seq(WireBytes), EndsWell(t)
    PROVE  unitsSoFar(t) = unitsIn(t)
<1>1. WithoutLastCR(t) = t
  BY DEF WithoutLastCR, EndsWell, Last
<1>2. QED
  BY <1>1, DeliveredIs, Zenon DEF unitsSoFar, unitsIn

\* The segments written so far, and what the client makes of them.
LEMMA WrittenBegins ==
    ASSUME Fits(scenario), written \in 0..Len(scenario.wire)
    PROVE  /\ StartOf(unitsWritten, replyOf(scenario)) /\ unitsWritten \in Seq(Kinds)
           /\ replyOf(scenario) \in Seq(Kinds)
           /\ written = Len(scenario.wire) => unitsWritten = replyOf(scenario)
<1> DEFINE w == scenario.wire
           S == Seq(WireBytes)
           p == SubSeq(w, 1, written)
           t == FlattenSeq(w)
           b == FlattenSeq(p)
<1>1. w \in Seq(S) /\ t \in S /\ EndsWell(t) /\ replyOf(scenario) \in Seq(Kinds)
  BY Zenon DEF Fits, Sends, Decodes
<1> HIDE DEF w
<1>2. written \in 0..Len(w)
  BY DEF w
<1>3. p \in Seq(S) /\ StartOf(p, w) /\ (written = Len(w) => p = w)
  <2> HIDE DEF S
  <2>1. p \in Seq(S) /\ Len(p) = written /\ \A i \in 1..written : p[i] = w[i]
    BY <1>1, <1>2
  <2> HIDE DEF p
  <2>2. StartOf(p, w)
    BY <1>1, <1>2, <2>1 DEF StartOf
  <2>3. ASSUME written = Len(w) PROVE p = w
    BY <1>1, <2>1, <2>3, SeqEqual
  <2>4. QED
    BY <2>1, <2>2, <2>3
<1> HIDE DEF p
<1>4. b \in S /\ StartOf(b, t)
  BY <1>1, <1>3, FlattenBegins, FlattenType
<1> HIDE DEF t, b
<1>5. b = SubSeq(t, 1, Len(b)) /\ Len(b) \in 0..Len(t)
  <2> DEFINE c == SubSeq(t, 1, Len(b))
  <2>1. Len(b) \in 0..Len(t) /\ \A i \in 1..Len(b) : t[i] = b[i]
    BY <1>1, <1>4 DEF StartOf
  <2>2. c \in Seq(WireBytes) /\ Len(c) = Len(b) /\ \A i \in 1..Len(b) : c[i] = t[i]
    BY <1>1, <2>1
  <2> HIDE DEF c
  <2>3. b = c
    BY <1>4, <2>1, <2>2, SeqEqual
  <2>4. QED
    BY <2>1, <2>3 DEF c
<1>6. StartOf(unitsSoFar(SubSeq(t, 1, Len(b))), unitsIn(t))
  BY <1>1, <1>5, RepliesBegin
<1>7. unitsWritten = unitsSoFar(b) /\ replyOf(scenario) = unitsIn(t)
  BY Zenon DEF unitsWritten, bytesWritten, unitsSoFar, replyOf, b, p, t, w
<1>8. unitsSoFar(b) \in Seq(Kinds)
  BY <1>4, DeliveredIs
<1>9. ASSUME written = Len(w) PROVE unitsSoFar(b) = unitsIn(t)
  <2>1. b = t
    BY <1>3, <1>9, Zenon DEF b, t
  <2>2. QED
    BY <1>1, <2>1, RepliesEnd
<1>10. QED
  BY <1>1, <1>5, <1>6, <1>7, <1>8, <1>9, Zenon DEF w

-----------------------------------------------------------------------------
(* What the client makes of a scenario.                                    *)

theReply == replyOf(scenario)

AnEnd == \E i \in 1..Len(stream) : stream[i] \in {"done", "bad"}

\* Why the client rejects the last event it decoded.
Rejected ==
    /\ total \in 1..Len(stream)
    /\ \/ total > MaxStream
       \/ stream[total] = "bad"
       \/ stream[total] = "delta" /\ Len(assembled) >= OutputLimit /\ Len(assembled) < total
       \/ /\ stream[total] = "done"
          /\ \/ \E i \in 1..total : stream[i] = "finishBad"
             \/ \A i \in 1..(total - 1) : stream[i] = "comment"

\* What has arrived is the beginning of the reply, and when the response has
\* ended it is all that will be decoded of it.
Coming ==
    /\ written \in 0..Len(scenario.wire)
    /\ ~fired /\ ended \in {"no", "fin"} /\ conn \notin {"rst", "timeout"}
    /\ stream # <<>> => header = "ok"
    /\ StartOf(stream, theReply)
    /\ conn = "fin" /\ header = "ok" => Len(stream) = Len(theReply) \/ AnEnd

Decoded ==
    /\ pc # "done" => \A i \in 1..total : stream[i] = "comment" \/ sawChoice
    /\ finish = "bad" => \E i \in 1..total : stream[i] = "finishBad"
    /\ Len(assembled) <= total

\* The causes of an error, and of the outcomes that a note speaks of.
Concluded ==
    /\ pc \in {"start", "dialing"} => header = "none"
    /\ pc \in {"error", "error2"} => parentDone \/ (conn = "fin" /\ total = Len(stream))
    /\ outcome = "truncated" => header = "ok" /\ total = Len(stream) /\ Len(stream) = Len(theReply)
    /\ outcome = "failed" =>
          parentDone \/ header # "ok" \/ printed # assembled \/ flushFailed \/ Rejected

NoteInv == Coming /\ Decoded /\ Concluded

LEMMA ScenarioFits == RecordInv => Fits(scenario)
  BY CatalogueFits DEF RecordInv

LEMMA InitNoteInv == ScenarioInit => NoteInv
<1> SUFFICES ASSUME ScenarioInit PROVE NoteInv
  OBVIOUS
<1>1. /\ scenario \in Registered /\ written = 0 /\ stream = <<>> /\ ~fired /\ conn = "none" /\ total = 0
      /\ ended = "no"
      /\ assembled = <<>> /\ finish = "none" /\ pc = "start" /\ outcome = "none" /\ header = "none"
  BY DEF ScenarioInit, Init, Registered
<1>2. Len(scenario.wire) \in Nat /\ Len(theReply) \in Nat
  <2>1. Fits(scenario)
    BY <1>1, CatalogueFits
  <2>2. scenario.wire \in Seq(Seq(WireBytes)) /\ theReply \in Seq(Kinds)
    BY <2>1, Zenon DEF Fits, Sends, theReply
  <2>3. QED
    BY <2>2
<1>3. StartOf(stream, theReply)
  BY <1>1, <1>2 DEF StartOf
<1>4. Coming
  BY <1>1, <1>2, <1>3 DEF Coming
<1>5. QED
  BY <1>1, <1>4 DEF NoteInv, Decoded, Concluded

-----------------------------------------------------------------------------
\* What the client does with the connection; it sends nothing of the stream.
LEMMA ClientKeepsStream ==
    ASSUME Client
    PROVE  UNCHANGED <<stream, header, fired, ended>> /\ conn' \in {conn, "open", "closed", "none"}
<1>1. ASSUME NEW class, NEW wasSent, Returns(class, wasSent)
      PROVE  UNCHANGED <<stream, header, fired, ended>> /\ conn' \in {conn, "open", "closed", "none"}
  BY <1>1 DEF Returns
<1>2. CASE Do
  BY <1>1, <1>2 DEF Do, DoRefused, DoStarts, Connects, DialFails, WaitFails, RedirectRefused,
              DoReturns, DoFails, netVars, timerVars
<1>3. CASE Decode
  <2>1. stay => UNCHANGED <<stream, header, fired, ended, conn>>
    BY DEF stay, netVars, timerVars
  <2>2. QED
    BY <1>1, <1>3, <2>1 DEF Decode, TopParent, TopIdle, ReadsBytes, ReadError, ErrorParent, ErrorIdle,
                      DecodeReturns, EventFails, Textless, Delta, Completes, FlushFails, netVars,
                      timerVars
<1>4. CASE DrainEnds \/ Output
  BY <1>1, <1>4 DEF DrainEnds, Output, OutputWritten, OutputFails, DecodeReturns, netVars, timerVars
<1>5. CASE RequestWritten \/ WroteRequest \/ WriteFails \/ CloserRuns \/ ParentCancels
  BY <1>5 DEF RequestWritten, WroteRequest, WriteFails, CloserRuns, ParentCancels, netVars, timerVars
<1>6. QED
  BY <1>2, <1>3, <1>4, <1>5 DEF Client

LEMMA ClientComing ==
    ASSUME Coming, Client, UNCHANGED mockVars
    PROVE  Coming'
<1>1. UNCHANGED <<stream, header, fired, ended, scenario, written>> /\ conn' \in {conn, "open", "closed", "none"}
  BY ClientKeepsStream DEF mockVars
<1>2. theReply' = theReply /\ AnEnd' = AnEnd
  BY <1>1 DEF theReply, AnEnd
<1>3. QED
  BY <1>1, <1>2 DEF Coming

\* Steps that decode nothing and conclude nothing.
LEMMA NothingDecoded ==
    ASSUME StreamInv, Decoded, Concluded,
           UNCHANGED <<total, assembled, printed, sawChoice, finish, flushFailed, stream, header,
                       outcome, scenario>>,
           parentDone => parentDone',
           pc' # "done" => pc # "done",
           pc' \in {"start", "dialing"} => pc \in {"start", "dialing"},
           pc' \in {"error", "error2"} =>
               parentDone' \/ (conn' = "fin" /\ total = Len(stream))
    PROVE  Decoded' /\ Concluded'
<1>1. theReply' = theReply /\ Rejected' = Rejected
  BY DEF theReply, Rejected
<1>2. QED
  BY <1>1 DEF Decoded, Concluded

\* A return with nothing more decoded.
LEMMA ReturnConcludes ==
    ASSUME StreamInv, Decoded, NEW class \in Outcomes, NEW wasSent \in BOOLEAN,
           Returns(class, wasSent), UNCHANGED <<decodeVars, scenario>>,
           class = "truncated" => header = "ok" /\ total = Len(stream) /\ Len(stream) = Len(theReply),
           class = "failed" => parentDone \/ header # "ok" \/ printed # assembled
    PROVE  Decoded' /\ Concluded'
<1>1. /\ pc' = "done" /\ outcome' = class
      /\ UNCHANGED <<header, stream, parentDone, total, assembled, printed, sawChoice, finish, flushFailed>>
  BY ReturnsType DEF StreamInv, decodeVars
<1>2. theReply' = theReply
  BY DEF theReply
<1>3. QED
  BY <1>1, <1>2 DEF Decoded, Concluded

\* No reply of the catalogue goes beyond the client's limits: the longest has five
\* events, and none has more than three deltas.
EnoughRoom == MaxStream >= 5 /\ OutputLimit >= 3

LEMMA DoConcludes ==
    ASSUME StreamInv, Decoded, Concluded, Do, UNCHANGED mockVars
    PROVE  Decoded' /\ Concluded'
<1>1. scenario' = scenario
  BY DEF mockVars
<1>2. ASSUME DoFails, parentDone \/ header # "ok" PROVE Decoded' /\ Concluded'
  <2> DEFINE class == IF parentDone THEN "canceled" ELSE "failed"
  <2>1. /\ Returns(class, requestSent) /\ UNCHANGED decodeVars /\ class \in Outcomes
        /\ class # "truncated" /\ requestSent \in BOOLEAN
        /\ (class = "failed" => parentDone \/ header # "ok" \/ printed # assembled)
    BY <1>2 DEF DoFails, Outcomes, StreamInv, TypeOK
  <2> HIDE DEF class
  <2>2. UNCHANGED <<decodeVars, scenario>>
    BY <1>1, <2>1
  <2>3. QED
    BY <2>1, <2>2, ReturnConcludes
<1>3. CASE DoRefused
  BY <1>2, <1>3 DEF DoRefused
<1>4. CASE DialFails
  BY <1>2, <1>4 DEF DialFails, Concluded
<1>5. CASE WaitFails
  BY <1>2, <1>5 DEF WaitFails
<1>6. CASE RedirectRefused
  BY <1>2, <1>6 DEF RedirectRefused
<1>7. CASE DoStarts
  BY <1>1, <1>7, NothingDecoded DEF DoStarts, resultVars, netVars, decodeVars
<1>8. CASE Connects
  BY <1>1, <1>8, NothingDecoded DEF Connects, resultVars, decodeVars
<1>9. CASE DoReturns
  BY <1>1, <1>9, NothingDecoded DEF DoReturns, netVars, decodeVars
<1>10. QED
  BY <1>3, <1>4, <1>5, <1>6, <1>7, <1>8, <1>9 DEF Do

\* Nothing that ends the call is decoded before it ends.
LEMMA NoEndDecoded ==
    ASSUME StreamInv, pc \in Decoding
    PROVE  /\ outcome = "none" /\ header = "ok" /\ conn # "none"
           /\ \A i \in 1..total : stream[i] \notin {"done", "bad"}
<1>1. pc # "done"
  BY DEF Decoding
<1>2. outcome = "none" /\ header = "ok" /\ conn # "none"
  BY <1>1 DEF StreamInv, Phases
<1>3. QED
  BY <1>2 DEF StreamInv, Text

LEMMA LoopConcludes ==
    ASSUME StreamInv, Coming, Decoded, Concluded, Fits(scenario), EnoughRoom, UNCHANGED mockVars,
           TopParent \/ TopIdle \/ ReadsBytes \/ ReadError \/ ErrorParent \/ ErrorIdle \/ DrainEnds
    PROVE  Decoded' /\ Concluded'
<1>1. scenario' = scenario
  BY DEF mockVars
<1>2. ASSUME NEW class \in {"canceled", "idle", "truncated", "failed"}, NEW wasSent \in BOOLEAN,
             Returns(class, wasSent), UNCHANGED decodeVars,
             class = "truncated" => header = "ok" /\ total = Len(stream) /\ Len(stream) = Len(theReply),
             class = "failed" => header # "ok"
      PROVE  Decoded' /\ Concluded'
  BY <1>1, <1>2, ReturnConcludes DEF Outcomes
<1>3. requestSent \in BOOLEAN /\ sent \in BOOLEAN
  BY DEF StreamInv, TypeOK
<1>4. CASE stay /\ pc \in {"top", "top2"} /\ pc' \in {"top2", "reading"}
  BY <1>1, <1>4, NothingDecoded DEF stay, resultVars, netVars, decodeVars
<1>5. CASE ReadsBytes
  BY <1>1, <1>5, NothingDecoded DEF ReadsBytes, resultVars, netVars, decodeVars
<1>6. CASE ReadError
  <2>1. stay /\ pc = "reading" /\ pc' = "error" /\ nread = total /\ Readable = 0 /\ conn # "open"
    BY <1>6 DEF ReadError, ReadEnds
  <2>2. conn \in {"fin", "closed"}
    BY <2>1, NoEndDecoded DEF Decoding, Coming, StreamInv, TypeOK, Lost
  <2>3. conn = "closed" => parentDone
    BY <2>1 DEF StreamInv, Phases, streamDone, Coming
  <2>4. conn = "fin" => total = Len(stream)
    <3>1. Len(stream) \in Nat /\ Len(stream) <= Len(theReply) /\ Len(theReply) <= 5 /\ Len(theReply) \in Nat
      <4>1. Len(theReply) <= 5 /\ theReply \in Seq(Kinds)
        BY DEF Fits, theReply
      <4>2. stream \in Seq(Kinds) /\ Len(stream) <= Len(theReply)
        BY DEF StreamInv, TypeOK, Coming, StartOf
      <4>3. QED
        BY <4>1, <4>2
    <3>2. Len(stream) <= MaxStream + 1 /\ total \in Nat
      BY <3>1, StreamAssumption DEF EnoughRoom, StreamInv, TypeOK
    <3>3. QED
      BY <2>1, <3>1, <3>2 DEF Readable
  <2>5. parentDone' \/ (conn' = "fin" /\ total = Len(stream))
    BY <2>1, <2>2, <2>3, <2>4 DEF stay, netVars
  <2>6. QED
    BY <1>1, <2>1, <2>5, NothingDecoded DEF stay, resultVars, netVars, decodeVars
<1>7. CASE stay /\ pc = "error" /\ pc' = "error2"
  <2>1. parentDone' \/ (conn' = "fin" /\ total = Len(stream))
    BY <1>7 DEF Concluded, stay, netVars
  <2>2. QED
    BY <1>1, <1>7, <2>1, NothingDecoded DEF stay, resultVars, netVars, decodeVars
<1>8. CASE ErrorIdle
  <2> DEFINE class == IF streamDone THEN "idle" ELSE "truncated"
  <2>1. Returns(class, requestSent) /\ UNCHANGED decodeVars /\ pc = "error2"
    BY <1>8 DEF ErrorIdle, DecodeReturns, Coming, Concluded, streamDone
  <2>2. class \in {"canceled", "idle", "truncated", "failed"} /\ class # "failed"
        /\ (class = "truncated" => ~streamDone)
    OBVIOUS
  <2> HIDE DEF class
  <2>3. ASSUME ~streamDone
        PROVE  header = "ok" /\ total = Len(stream) /\ Len(stream) = Len(theReply)
    <3>1. conn = "fin" /\ total = Len(stream)
      BY <2>1, <2>3 DEF Concluded, streamDone
    <3>2. header = "ok" /\ ~AnEnd
      BY <2>1, <3>1, NoEndDecoded DEF Decoding, AnEnd
    <3>3. QED
      BY <3>1, <3>2 DEF Coming
  <2>4. QED
    BY <1>2, <1>3, <2>1, <2>2, <2>3
<1>9. CASE \E class \in {"canceled", "idle"} : DecodeReturns(class) /\ UNCHANGED decodeVars
  <2>1. PICK class \in {"canceled", "idle"} : DecodeReturns(class) /\ UNCHANGED decodeVars
    BY <1>9
  <2>2. Returns(class, requestSent) /\ class # "truncated" /\ class # "failed"
    BY <2>1 DEF DecodeReturns
  <2>3. QED
    BY <1>2, <1>3, <2>1, <2>2
<1>10. CASE DrainEnds
  <2>1. Returns("failed", sent) /\ UNCHANGED decodeVars /\ header # "ok"
    BY <1>10 DEF DrainEnds, StreamInv, Phases
  <2>2. QED
    BY <1>2, <1>3, <2>1
<1>11. CASE TopParent \/ TopIdle \/ ErrorParent
  <2>1. \/ stay /\ pc \in {"top", "top2"} /\ pc' \in {"top2", "reading"}
        \/ stay /\ pc = "error" /\ pc' = "error2"
        \/ \E class \in {"canceled", "idle"} : DecodeReturns(class) /\ UNCHANGED decodeVars
    BY <1>11 DEF TopParent, TopIdle, ErrorParent
  <2>2. QED
    BY <1>4, <1>7, <1>9, <2>1
<1>12. QED
  BY <1>5, <1>6, <1>8, <1>10, <1>11

LEMMA EventConcludes ==
    ASSUME StreamInv, Coming, Decoded, Concluded, UNCHANGED mockVars,
           \/ \E kind \in Kinds : EventFails(kind) \/ Textless(kind)
           \/ Delta \/ Completes \/ FlushFails
    PROVE  Decoded' /\ Concluded'
<1>1. scenario' = scenario /\ theReply' = theReply
  BY DEF mockVars, theReply
<1>2. ASSUME NEW kind, Event(kind)
      PROVE  /\ pc = "reading" /\ outcome = "none" /\ total' = total + 1 /\ total \in Nat
             /\ total + 1 \in 1..Len(stream) /\ stream[total + 1] = kind
             /\ \A i \in 1..total : stream[i] = "comment" \/ sawChoice
             /\ finish = "bad" => \E i \in 1..total : stream[i] = "finishBad"
             /\ Len(assembled) <= total /\ Len(assembled) \in Nat
  <2>1. pc = "reading" /\ nread > total /\ stream[total + 1] = kind /\ total' = total + 1
    BY <1>2 DEF Event
  <2>2. outcome = "none"
    BY <2>1, NoEndDecoded DEF Decoding
  <2>3. total \in Nat /\ total + 1 \in 1..Len(stream) /\ Len(assembled) \in Nat
    BY <2>1 DEF StreamInv, TypeOK
  <2>4. QED
    BY <2>1, <2>2, <2>3 DEF Decoded
<1>3. ASSUME NEW kind \in Kinds, EventFails(kind) PROVE Decoded' /\ Concluded'
  <2>1. /\ Event(kind) /\ UNCHANGED <<assembled, printed, sawChoice, finish>>
        /\ Returns("failed", requestSent)
    BY <1>3 DEF EventFails, DecodeReturns
  <2>2. pc' = "done" /\ outcome' = "failed" /\ UNCHANGED <<stream, header, parentDone>>
    BY <2>1 DEF Returns
  <2>3. Decoded'
    <3>1. \A i \in 1..total : i \in 1..(total + 1)
      BY <1>2, <2>1
    <3>2. QED
      BY <1>2, <2>1, <2>2, <3>1 DEF Decoded
  <2>4. Rejected'
    <3> DEFINE n == total + 1
    <3>1. /\ n \in 1..Len(stream) /\ total' = n /\ stream[n] = kind /\ Len(assembled) < n
          /\ n - 1 = total /\ n \in Nat
      BY <1>2, <2>1
    <3>2. \A i \in 1..total : i \in 1..n
      BY <1>2, <2>1
    <3>3. CASE TooMuch
      BY <2>1, <2>2, <3>1, <3>3 DEF TooMuch, Rejected
    <3>4. CASE kind = "bad"
      BY <2>1, <2>2, <3>1, <3>4 DEF Rejected
    <3>5. CASE kind = "delta" /\ TooLong
      <4>1. Len(assembled) >= OutputLimit
        BY <1>2, <2>1, <3>5, StreamAssumption DEF TooLong
      <4>2. QED
        BY <2>1, <2>2, <3>1, <3>5, <4>1 DEF Rejected
    <3>6. CASE kind = "done" /\ ~sawChoice
      <4>1. \A i \in 1..(n - 1) : stream[i] = "comment"
        BY <1>2, <2>1, <3>1, <3>6
      <4>2. QED
        BY <2>1, <2>2, <3>1, <3>6, <4>1 DEF Rejected
    <3>7. CASE kind = "done" /\ finish = "bad"
      <4>1. \E i \in 1..n : stream[i] = "finishBad"
        BY <1>2, <2>1, <3>2, <3>7
      <4>2. QED
        BY <2>1, <2>2, <3>1, <3>7, <4>1 DEF Rejected
    <3>8. QED
      BY <1>3, <3>3, <3>4, <3>5, <3>6, <3>7 DEF EventFails
  <2>5. QED
    BY <1>1, <2>2, <2>3, <2>4 DEF Concluded
<1>4. ASSUME NEW kind \in Kinds, Textless(kind) PROVE Decoded' /\ Concluded'
  <2>1. /\ Event(kind) /\ UNCHANGED <<outcome, assembled, stream>> /\ pc' = "top"
        /\ sawChoice' = (sawChoice \/ kind # "comment")
        /\ finish' = CASE kind = "finishOk" -> "ok"
                       [] kind = "finishBad" -> "bad"
                       [] OTHER -> finish
    BY <1>4 DEF Textless, resultVars, netVars
  <2> DEFINE n == total + 1
  <2>2. n \in Nat /\ n \in 1..n /\ total' = n /\ stream[n] = kind
        /\ \A i \in 1..n : i \in 1..total \/ i = n
    BY <1>2, <2>1
  <2>3. \A i \in 1..n : stream[i] = "comment" \/ sawChoice'
    BY <1>2, <2>1, <2>2
  <2>4. finish' = "bad" => \E i \in 1..n : stream[i] = "finishBad"
    <3>1. \A i \in 1..total : i \in 1..n
      BY <1>2, <2>1
    <3>2. finish' = "bad" => kind = "finishBad" \/ finish = "bad"
      BY <2>1
    <3>3. QED
      BY <1>2, <2>1, <2>2, <3>1, <3>2
  <2>5. Len(assembled) <= n
    BY <1>2, <2>1
  <2>6. Decoded'
    BY <2>1, <2>2, <2>3, <2>4, <2>5 DEF Decoded
  <2>7. outcome' = "none"
    BY <1>2, <2>1
  <2>8. QED
    BY <2>1, <2>6, <2>7 DEF Concluded
<1>5. CASE Delta
  <2>1. /\ Event("delta") /\ UNCHANGED <<outcome, stream, finish>> /\ pc' = "output"
        /\ assembled' = Append(assembled, total + 1) /\ sawChoice'
    BY <1>5 DEF Delta, resultVars, netVars
  <2> DEFINE n == total + 1
  <2>2. total' = n /\ \A i \in 1..total : i \in 1..n
    BY <1>2, <2>1
  <2>3. Len(assembled') <= n
    <3>1. assembled \in Seq(Nat) /\ n \in Nat
      BY <1>2, <2>1 DEF StreamInv, TypeOK
    <3>2. Len(assembled') = Len(assembled) + 1
      BY <2>1, <3>1
    <3>3. QED
      BY <1>2, <2>1, <3>2
  <2>4. Decoded'
    BY <1>2, <2>1, <2>2, <2>3 DEF Decoded
  <2>5. outcome' = "none"
    BY <1>2, <2>1
  <2>6. QED
    BY <2>1, <2>4, <2>5 DEF Concluded
<1>6. CASE Completes
  <2>1. /\ Event("done") /\ UNCHANGED <<assembled, printed, sawChoice, finish>>
        /\ Returns("ok", requestSent)
    BY <1>6 DEF Completes, DecodeReturns
  <2>2. pc' = "done" /\ outcome' = "ok" /\ UNCHANGED stream
    BY <2>1 DEF Returns
  <2>3. \A i \in 1..total : i \in 1..(total + 1)
    BY <1>2, <2>1
  <2>4. Decoded'
    BY <1>2, <2>1, <2>2, <2>3 DEF Decoded
  <2>5. QED
    BY <2>2, <2>4 DEF Concluded
<1>7. CASE FlushFails
  <2>1. /\ Event("done") /\ UNCHANGED <<assembled, printed, sawChoice, finish>>
        /\ Returns("failed", requestSent) /\ flushFailed'
    BY <1>7 DEF FlushFails, DecodeReturns
  <2>2. pc' = "done" /\ outcome' = "failed" /\ UNCHANGED stream
    BY <2>1 DEF Returns
  <2>3. \A i \in 1..total : i \in 1..(total + 1)
    BY <1>2, <2>1
  <2>4. Decoded'
    BY <1>2, <2>1, <2>2, <2>3 DEF Decoded
  <2>5. QED
    BY <2>1, <2>2, <2>4 DEF Concluded
<1>8. QED
  BY <1>3, <1>4, <1>5, <1>6, <1>7

LEMMA OutputConcludes ==
    ASSUME StreamInv, Coming, Decoded, Concluded, UNCHANGED mockVars, Output
    PROVE  Decoded' /\ Concluded'
<1>1. scenario' = scenario
  BY DEF mockVars
<1>2. CASE OutputWritten
  <2>1. pc' = "top" /\ pc = "output" /\ UNCHANGED <<total, assembled, sawChoice, finish, stream, outcome>>
    BY <1>2 DEF OutputWritten, resultVars, netVars
  <2>2. outcome' = "none"
    BY <2>1, NoEndDecoded DEF Decoding
  <2>3. QED
    BY <2>1, <2>2 DEF Decoded, Concluded
<1>3. CASE OutputFails
  <2>1. pc = "output" /\ Returns("failed", requestSent) /\ UNCHANGED decodeVars
    BY <1>3 DEF OutputFails, DecodeReturns
  <2>2. printed # assembled
    <3>1. printed \in Seq(Nat) /\ assembled = Append(printed, assembled[Len(assembled)])
      BY <2>1 DEF StreamInv, TypeOK, Text
    <3>2. Len(assembled) = Len(printed) + 1 /\ Len(printed) \in Nat
      BY <3>1
    <3>3. QED
      BY <3>2
  <2>3. requestSent \in BOOLEAN
    BY DEF StreamInv, TypeOK
  <2>4. QED
    BY <1>1, <2>1, <2>2, <2>3, ReturnConcludes DEF Outcomes
<1>4. QED
  BY <1>2, <1>3 DEF Output

LEMMA BesideConcludes ==
    ASSUME StreamInv, Coming, Decoded, Concluded, UNCHANGED mockVars,
           RequestWritten \/ WroteRequest \/ WriteFails \/ CloserRuns \/ ParentCancels
    PROVE  Decoded' /\ Concluded'
<1>1. scenario' = scenario
  BY DEF mockVars
<1>2. beside /\ UNCHANGED <<stream, header>> /\ (parentDone => parentDone')
      /\ (conn' = conn \/ (conn' = "closed" /\ streamDone /\ UNCHANGED parentDone))
  BY DEF RequestWritten, WroteRequest, WriteFails, CloserRuns, ParentCancels, netVars
<1>3. pc' = pc /\ UNCHANGED <<total, assembled, printed, sawChoice, finish, flushFailed, outcome>>
  BY <1>2 DEF beside, decodeVars, resultVars
<1>4. pc' \in {"error", "error2"} => parentDone' \/ (conn' = "fin" /\ total = Len(stream))
  BY <1>2, <1>3 DEF Concluded, streamDone, Coming
<1>5. QED
  BY <1>1, <1>2, <1>3, <1>4, NothingDecoded

LEMMA ClientNotes ==
    ASSUME StreamInv, NoteInv, Fits(scenario), EnoughRoom, Client, UNCHANGED mockVars
    PROVE  NoteInv'
<1>1. Coming'
  BY ClientComing DEF NoteInv
<1>2. Decoded' /\ Concluded'
  BY DoConcludes, LoopConcludes, EventConcludes, OutputConcludes, BesideConcludes
     DEF NoteInv, Client, Decode
<1>3. QED
  BY <1>1, <1>2 DEF NoteInv

LEMMA HandlerNotes ==
    ASSUME StreamInv, RecordInv, NoteInv, Fits(scenario), Handler
    PROVE  NoteInv'
<1>1. ASSUME UNCHANGED <<vars, scenario>>, written' \in 0..Len(scenario.wire) PROVE NoteInv'
  <2>1. theReply' = theReply /\ AnEnd' = AnEnd /\ Rejected' = Rejected
    BY <1>1 DEF theReply, AnEnd, Rejected, vars, netVars, decodeVars
  <2>2. Coming'
    BY <1>1, <2>1 DEF NoteInv, Coming, vars, netVars, timerVars
  <2>3. Decoded'
    BY <1>1 DEF NoteInv, Decoded, vars, netVars, decodeVars
  <2>4. Concluded'
    BY <1>1, <2>1 DEF NoteInv, Concluded, vars, netVars, decodeVars, resultVars
  <2>5. QED
    BY <2>2, <2>3, <2>4 DEF NoteInv
<1>2. written \in 0..Len(scenario.wire) /\ scenario.wire \in Seq(Seq(WireBytes))
  BY Zenon DEF NoteInv, Coming, Fits, Sends
<1>3. CASE HandlerReads \/ HandlerRefusesBody \/ HandlerCannotRead
  BY <1>1, <1>2, <1>3 DEF HandlerReads, HandlerRefusesBody, HandlerCannotRead, handles
<1>4. CASE HandlerAnswers
  <2>1. CASE conn # "open"
    BY <1>1, <1>2, <1>4, <2>1 DEF HandlerAnswers, handles
  <2>2. CASE conn = "open"
    <3>1. /\ ServerAnswers(answer) /\ UNCHANGED <<scenario, written>>
      BY <1>4, <2>2 DEF HandlerAnswers, handles
    <3>2. /\ pc = "waiting" /\ pc' = pc /\ header = "none" /\ outcome' = outcome
          /\ UNCHANGED <<conn, ended, stream, fired, parentDone, total, assembled, printed, sawChoice, finish,
                      flushFailed>>
      BY <3>1 DEF ServerAnswers, beside, decodeVars, resultVars, timerVars
    <3>3. stream = <<>> /\ outcome = "none"
      BY <3>2 DEF NoteInv, Coming, StreamInv, Phases
    <3>4. theReply' = theReply /\ AnEnd' = AnEnd
      BY <3>1, <3>2 DEF theReply, AnEnd
    <3>5. Coming'
      BY <2>2, <3>1, <3>2, <3>3, <3>4 DEF NoteInv, Coming
    <3>6. Decoded'
      BY <3>2 DEF NoteInv, Decoded
    <3>7. Concluded'
      BY <3>2, <3>3 DEF Concluded
    <3>8. QED
      BY <3>5, <3>6, <3>7 DEF NoteInv
  <2>3. QED
    BY <2>1, <2>2
<1>5. CASE HandlerWrites
  <2>1. UNCHANGED <<vars, scenario>> /\ written < Len(scenario.wire)
        /\ written' \in {written, written + 1}
    BY <1>5 DEF HandlerWrites, handles
  <2>2. written' \in 0..Len(scenario.wire)
    BY <1>2, <2>1
  <2>3. QED
    BY <1>1, <2>1, <2>2
<1>6. CASE Arrives
  <2> DEFINE n == Len(stream) + 1
  <2>1. PICK kind \in Kinds : kind = unitsWritten[n] /\ ServerSends(kind)
    BY <1>6 DEF Arrives, nextUnit
  <2>2. header = "ok" /\ Len(stream) < Len(unitsWritten) /\ UNCHANGED <<scenario, written>>
    BY <1>6 DEF Arrives, nextUnit, mockVars
  <2>3. /\ pc # "done" /\ conn = "open" /\ stream' = Append(stream, kind) /\ outcome' = outcome /\ pc' = pc
        /\ UNCHANGED <<conn, ended, header, fired, parentDone, total, assembled, printed, sawChoice, finish,
                    flushFailed>>
    BY <2>1 DEF ServerSends, beside, decodeVars, resultVars, timerVars
  <2>4. outcome = "none" /\ pc \notin {"error", "error2"}
    BY <2>3 DEF StreamInv, Phases
  <2>5. /\ stream \in Seq(Kinds) /\ Len(stream) \in Nat /\ total \in Nat /\ total <= Len(stream)
    BY DEF StreamInv, TypeOK
  <2>6. /\ unitsWritten \in Seq(Kinds) /\ theReply \in Seq(Kinds)
        /\ Len(unitsWritten) <= Len(theReply)
        /\ \A k \in 1..Len(unitsWritten) : theReply[k] = unitsWritten[k]
    BY <1>2, WrittenBegins DEF StartOf, theReply
  <2>7. /\ Len(stream') = n /\ n \in Nat /\ stream'[n] = kind
        /\ \A k \in 1..Len(stream) : stream'[k] = stream[k]
    BY <2>3, <2>5
  <2>8. StartOf(stream', theReply)
    <3>1. n <= Len(unitsWritten) /\ Len(unitsWritten) \in Nat /\ Len(theReply) \in Nat
      BY <2>2, <2>5, <2>6
    <3>2. n \in 1..Len(unitsWritten) /\ n <= Len(theReply)
      BY <2>6, <2>7, <3>1
    <3>3. theReply[n] = kind
      BY <2>1, <2>6, <3>2
    <3>4. \A k \in 1..Len(stream) : theReply[k] = stream[k]
      BY DEF NoteInv, Coming, StartOf
    <3>5. \A k \in 1..n : k \in 1..Len(stream) \/ k = n
      BY <2>5
    <3>6. QED
      BY <2>7, <3>2, <3>3, <3>4, <3>5 DEF StartOf
  <2>9. theReply' = theReply
    BY <2>2 DEF theReply
  <2>10. Coming'
    BY <2>2, <2>3, <2>8, <2>9 DEF NoteInv, Coming
  <2>11. \A i \in 1..total : stream'[i] = stream[i]
    BY <2>5, <2>7
  <2>12. Decoded'
    BY <2>3, <2>11 DEF NoteInv, Decoded
  <2>13. Concluded'
    BY <2>2, <2>3, <2>4 DEF NoteInv, Concluded
  <2>14. QED
    BY <2>10, <2>12, <2>13 DEF NoteInv
<1>7. CASE HandlerReturns
  <2>1. CASE ~(conn = "open" /\ pc # "done")
    BY <1>1, <1>2, <1>7, <2>1 DEF HandlerReturns, handles
  <2>2. CASE conn = "open" /\ pc # "done"
    <3>1. allArrived /\ ServerEnds("fin") /\ UNCHANGED <<scenario, written>>
          /\ (refused \/ written = Len(scenario.wire))
      BY <1>7, <2>2 DEF HandlerReturns, handles
    <3>2. /\ pc' = pc /\ outcome' = outcome /\ conn' = "fin" /\ ended' = "fin"
          /\ UNCHANGED <<header, stream, fired, parentDone, total, assembled, printed, sawChoice, finish,
                      flushFailed>>
      BY <3>1 DEF ServerEnds, beside, decodeVars, resultVars, timerVars
    <3>3. outcome = "none" /\ pc \notin {"error", "error2"}
      BY <2>2 DEF StreamInv, Phases
    <3>4. theReply' = theReply /\ AnEnd' = AnEnd
      BY <3>1, <3>2 DEF theReply, AnEnd
    <3>5. header = "ok" => unitsWritten = theReply
      <4>1. header = "ok" => ~refused
        BY DEF RecordInv, answer
      <4>2. QED
        BY <1>2, <3>1, <4>1, WrittenBegins DEF theReply
    <3>6. header = "ok" => Len(stream) = Len(theReply) \/ AnEnd
      BY <3>1, <3>5 DEF allArrived, AnEnd
    <3>7. Coming'
      BY <1>2, <3>1, <3>2, <3>4, <3>6 DEF NoteInv, Coming
    <3>8. Decoded'
      BY <3>2 DEF NoteInv, Decoded
    <3>9. Concluded'
      BY <3>2, <3>3 DEF NoteInv, Concluded
    <3>10. QED
      BY <3>7, <3>8, <3>9 DEF NoteInv
  <2>3. QED
    BY <2>1, <2>2
<1>8. QED
  BY <1>3, <1>4, <1>5, <1>6, <1>7 DEF Handler

LEMMA NextNoteInv ==
    ASSUME EnoughRoom
    PROVE  StreamInv /\ RecordInv /\ NoteInv /\ [ScenarioNext]_scenarioVars => NoteInv'
<1> SUFFICES ASSUME StreamInv, RecordInv, NoteInv, [ScenarioNext]_scenarioVars PROVE NoteInv'
  OBVIOUS
<1>1. Fits(scenario)
  BY ScenarioFits
<1>2. CASE UNCHANGED scenarioVars
  <2>1. UNCHANGED <<pc, outcome, conn, ended, header, stream, fired, parentDone, total, assembled, printed,
                    sawChoice, finish, flushFailed, scenario, written>>
    BY <1>2 DEF scenarioVars, vars, netVars, decodeVars, timerVars, resultVars, mockVars
  <2>2. theReply' = theReply /\ AnEnd' = AnEnd /\ Rejected' = Rejected
    BY <2>1 DEF theReply, AnEnd, Rejected
  <2>3. Coming' /\ Decoded' /\ Concluded'
    BY <2>1, <2>2 DEF NoteInv, Coming, Decoded, Concluded
  <2>4. QED
    BY <2>3 DEF NoteInv
<1>3. CASE Client /\ UNCHANGED mockVars
  BY <1>1, <1>3, ClientNotes
<1>4. CASE Handler
  BY <1>1, <1>4, HandlerNotes
<1>5. QED
  BY <1>2, <1>3, <1>4 DEF ScenarioNext, ScenarioFinished

\* What is known of the events when a call has ended.
LEMMA ReplyDecoded ==
    ASSUME StreamInv, NoteInv, Fits(scenario)
    PROVE  /\ total \in Nat /\ total <= Len(stream) /\ Len(stream) \in Nat
           /\ Len(stream) <= Len(theReply) /\ Len(theReply) \in 0..5
           /\ \A i \in 1..total : i \in 1..Len(theReply) /\ theReply[i] = stream[i]
           /\ \A i \in 1..total : stream[i] \in {"done", "bad"} => i = total /\ outcome \in {"ok", "failed"}
           /\ stream # <<>> => header = "ok"
<1>1. stream \in Seq(Kinds) /\ total \in Nat /\ total <= Len(stream) /\ Len(stream) \in Nat
  BY DEF StreamInv, TypeOK
<1>2. theReply \in Seq(Kinds) /\ Len(theReply) <= 5
  BY DEF Fits, theReply
<1>3. /\ Len(stream) <= Len(theReply) /\ \A i \in 1..Len(stream) : theReply[i] = stream[i]
      /\ stream # <<>> => header = "ok"
  BY DEF NoteInv, Coming, StartOf
<1>4. Len(theReply) \in 0..5
  <2> DEFINE n == Len(theReply)
  <2>1. n \in Nat /\ n <= 5
    BY <1>2
  <2> HIDE DEF n
  <2>2. n \in 0..5
    BY <2>1
  <2>3. QED
    BY <2>2 DEF n
<1>5. \A i \in 1..total : i \in 1..Len(stream) /\ i \in 1..Len(theReply)
  BY <1>1, <1>3, <1>4
<1>6. \A i \in 1..total : stream[i] \in {"done", "bad"} => i = total /\ outcome \in {"ok", "failed"}
  BY DEF StreamInv, Text
<1>7. QED
  BY <1>1, <1>3, <1>4, <1>5, <1>6

\* The answer of the mock to a request, by its scenario.
LEMMA AnswerOk ==
    ASSUME Fits(scenario)
    PROVE  /\ answer = "ok" =>
                 /\ scenario.known /\ ~scenario.redirect /\ scenario.status = 200
                 /\ scenario.type \in {"sse", "none"}
                 /\ scenario.auth => bearer # "" /\ expected \in {"", bearer}
           /\ PromisesSuccess /\ ~sniffed => answer = "ok"
<1>1. contentType = scenario.type \/ contentType = "plain"
  BY DEF contentType
<1>2. classifyAuth = "match" <=> bearer # "" /\ expected \in {"", bearer}
  BY DEF classifyAuth
<1>3. ASSUME answer = "ok"
      PROVE  /\ scenario.known /\ ~scenario.redirect /\ scenario.status = 200
             /\ scenario.type \in {"sse", "none"}
             /\ scenario.auth => classifyAuth = "match"
  BY <1>1, <1>3 DEF answer, refused, ownAnswer
<1>4. ASSUME PromisesSuccess, ~sniffed PROVE answer = "ok"
  <2>1. /\ scenario.known /\ ~scenario.redirect /\ scenario.status = 200
        /\ scenario.type = "sse" \/ (scenario.type = "none" /\ scenario.mode = "raw")
    BY <1>4 DEF Fits, PromisesSuccess, sniffed, sniffedName
  <2>2. contentType \in {"sse", "none"}
    BY <2>1 DEF contentType
  <2>3. scenario.auth => classifyAuth = "match"
    BY <1>2, <1>4 DEF PromisesSuccess
  <2>4. QED
    BY <1>4, <2>1, <2>2, <2>3 DEF answer, refused, ownAnswer, PromisesSuccess
<1>5. QED
  BY <1>2, <1>3, <1>4

\* No reply that the catalogue calls a failure or cut short is a success, and
\* none that it calls a failure is cut short.
LEMMA NoteOfFailure ==
    ASSUME StreamInv, RecordInv, NoteInv, Fits(scenario), outcome \in {"ok", "truncated"}
    PROVE  /\ outcome = "ok" => scenario.note = "ok"
           /\ outcome = "truncated" => scenario.note # "failed"
           /\ header = "ok" /\ answer = "ok"
<1>1. header = "ok" /\ answer = "ok"
  <2>1. outcome = "ok" => stream # <<>>
    <3>1. outcome = "ok" => total > 0
      BY DEF StreamInv, Text
    <3>2. QED
      BY <3>1, ReplyDecoded
  <2>2. header = "ok"
    BY <2>1, ReplyDecoded DEF NoteInv, Concluded
  <2>3. QED
    BY <2>2 DEF RecordInv
<1>2. /\ outcome = "ok" => total > 0 /\ stream[total] = "done"
      /\ outcome = "truncated" => total = Len(theReply)
      /\ outcome = "ok" /\ total = 2 => stream[1] # "finishBad"
  <2>1. outcome = "truncated" => total = Len(theReply)
    BY DEF NoteInv, Concluded
  <2>2. outcome = "ok" =>
            /\ total > 0 /\ stream[total] = "done"
            /\ \A i \in 1..total : stream[i] = "finishBad" => \E j \in (i + 1)..total : stream[j] = "finishOk"
    BY DEF StreamInv, Text
  <2>3. ASSUME outcome = "ok", total = 2 PROVE stream[1] # "finishBad"
    <3>1. 1 \in 1..total /\ \A j \in (1 + 1)..total : j = total
      BY <2>3
    <3>2. QED
      BY <2>2, <2>3, <3>1
  <2>4. QED
    BY <2>1, <2>2, <2>3
<1>3. ASSUME outcome = "ok" PROVE scenario.note # "truncated"
  <2>1. total \in 1..total
    BY <1>2, <1>3, ReplyDecoded
  <2>2. total \in 1..Len(theReply) /\ theReply[total] = "done"
    BY <1>2, <1>3, <2>1, ReplyDecoded
  <2>3. ~NoEnd(theReply)
    BY <2>2 DEF NoEnd
  <2>4. QED
    BY <2>3, Zenon DEF Fits, theReply
<1>4. scenario.note # "failed"
  <2>1. ASSUME scenario.note = "failed" PROVE theReply # <<>> /\ Broken(theReply)
    <3>1. /\ scenario.known /\ ~scenario.redirect /\ scenario.status = 200
          /\ scenario.type \in {"sse", "none"}
      BY <1>1, AnswerOk
    <3>2. QED
      BY <2>1, <3>1 DEF Fits, theReply
  <2>2. ASSUME theReply # <<>>, theReply[1] = "bad" PROVE FALSE
    <3>1. total > 0
      <4>1. theReply \in Seq(Kinds)
        BY DEF Fits, theReply
      <4>2. Len(theReply) # 0
        BY <2>2, <4>1
      <4>3. QED
        BY <1>2, <4>2, ReplyDecoded
    <3>2. 1 \in 1..total
      BY <3>1, ReplyDecoded
    <3>3. stream[1] = "bad"
      BY <2>2, <3>2, ReplyDecoded
    <3>4. total = 1 /\ outcome \in {"ok", "failed"}
      BY <3>2, <3>3, ReplyDecoded
    <3>5. QED
      BY <1>2, <3>3, <3>4
  <2>3. ASSUME theReply = <<"finishBad", "done">> PROVE FALSE
    <3>1. Len(theReply) = 2 /\ theReply[1] = "finishBad" /\ theReply[2] = "done"
      BY <2>3
    <3>2. total = 2
      <4>1. CASE outcome = "truncated"
        BY <1>2, <3>1, <4>1
      <4>2. CASE outcome = "ok"
        <5>1. total \in 1..total
          BY <1>2, <4>2, ReplyDecoded
        <5>2. total \in 1..2 /\ theReply[total] = "done"
          BY <1>2, <3>1, <4>2, <5>1, ReplyDecoded
        <5>3. QED
          BY <3>1, <5>2
      <4>3. QED
        BY <4>1, <4>2
    <3>3. 1 \in 1..total /\ 2 \in 1..total
      BY <3>2
    <3>4. stream[1] = "finishBad" /\ stream[2] = "done"
      BY <3>1, <3>3, ReplyDecoded
    <3>5. outcome \in {"ok", "failed"}
      BY <3>3, <3>4, ReplyDecoded
    <3>6. QED
      BY <1>2, <3>2, <3>4, <3>5
  <2>4. QED
    BY <2>1, <2>2, <2>3 DEF Broken
<1>5. scenario.note \in {"ok", "truncated", "failed"}
  BY Zenon DEF Fits
<1>6. QED
  BY <1>1, <1>3, <1>4, <1>5

\* All the text of a scenario that succeeds was printed.
LEMMA TextsPrinted ==
    ASSUME StreamInv, NoteInv, Fits(scenario), outcome = "ok", scenario.note = "ok"
    PROVE  Len(printed) = scenario.texts
<1> DEFINE D == deltasOf(theReply)
<1>1. /\ total > 0 /\ stream[total] = "done" /\ printed = assembled /\ assembled \in Seq(Nat)
      /\ TextIsTheStream
  BY DEF StreamInv, TypeOK, Text
<1>2. Complete(theReply, scenario.texts)
  BY Zenon DEF Fits, theReply
<1>3. total = Len(theReply)
  <2>1. total \in 1..total
    BY <1>1, ReplyDecoded
  <2>2. total \in 1..Len(theReply) /\ theReply[total] = "done"
    BY <1>1, <2>1, ReplyDecoded
  <2>3. QED
    BY <1>2, <2>2 DEF Complete
<1>4. DeltasUpTo(total) = D /\ D \subseteq Int
  <2>1. \A i \in 1..total : theReply[i] = stream[i]
    BY ReplyDecoded
  <2>2. DeltasUpTo(total) = D
    BY <1>3, <2>1 DEF DeltasUpTo, deltasOf
  <2>3. D \subseteq Int
    BY DEF deltasOf
  <2>4. QED
    BY <2>2, <2>3
<1>5. Lists(assembled, D)
  <2> HIDE DEF D
  <2>1. Assembled = D /\ \A i, j \in 1..Len(assembled) : i < j => assembled[i] < assembled[j]
    BY <1>1, <1>4 DEF TextIsTheStream
  <2>2. Len(assembled) \in Nat /\ \A i \in 1..Len(assembled) : assembled[i] \in D
        /\ assembled[i] \in Nat
    BY <1>1, <2>1 DEF Assembled
  <2>3. \A x \in D : \E i \in 1..Len(assembled) : x = assembled[i]
    BY <2>1 DEF Assembled
  <2>4. assembled \in Seq(D)
    BY <1>1, <2>2
  <2>5. assembled = <<>> => D = {}
    BY <2>3
  <2>6. ASSUME assembled # <<>>, NEW x \in D
        PROVE  assembled[1] <= x /\ x <= assembled[Len(assembled)]
    <3>1. PICK i \in 1..Len(assembled) : x = assembled[i]
      BY <2>3
    <3>2. 1 \in 1..Len(assembled) /\ Len(assembled) \in 1..Len(assembled)
      BY <2>2, <3>1
    <3>3. (1 < i => assembled[1] < assembled[i])
          /\ (i < Len(assembled) => assembled[i] < assembled[Len(assembled)])
      BY <2>1, <3>1, <3>2
    <3>4. 1 = i \/ 1 < i
      BY <3>1
    <3>5. i = Len(assembled) \/ i < Len(assembled)
      BY <2>2, <3>1
    <3>6. assembled[i] \in Nat /\ assembled[1] \in Nat /\ assembled[Len(assembled)] \in Nat
      BY <2>2, <3>1, <3>2
    <3>7. QED
      BY <3>1, <3>3, <3>4, <3>5, <3>6
  <2>7. ASSUME NEW k \in 1..(Len(assembled) - 1)
        PROVE  /\ assembled[k] < assembled[k + 1]
               /\ \A x \in D : ~(assembled[k] < x /\ x < assembled[k + 1])
    <3>1. k \in 1..Len(assembled) /\ k + 1 \in 1..Len(assembled) /\ k < k + 1 /\ k \in Nat
      BY <2>2
    <3>2. assembled[k] < assembled[k + 1]
      BY <2>1, <3>1
    <3>3. ASSUME NEW x \in D, assembled[k] < x, x < assembled[k + 1] PROVE FALSE
      <4>1. PICK i \in 1..Len(assembled) : x = assembled[i]
        BY <2>3
      <4>2. i < k => assembled[i] < assembled[k]
        BY <2>1, <3>1, <4>1
      <4>3. k + 1 < i => assembled[k + 1] < assembled[i]
        BY <2>1, <3>1, <4>1
      <4>4. i < k \/ i = k \/ i = k + 1 \/ k + 1 < i
        BY <3>1, <4>1
      <4>5. assembled[i] \in Nat /\ assembled[k] \in Nat /\ assembled[k + 1] \in Nat
        BY <2>2, <3>1, <4>1
      <4>6. QED
        BY <3>3, <4>1, <4>2, <4>3, <4>4, <4>5
    <3>4. QED
      BY <3>2, <3>3
  <2>8. QED
    BY <2>4, <2>5, <2>6, <2>7 DEF Lists
<1>6. PICK r : Lists(r, D) /\ Len(r) = scenario.texts
  BY <1>2 DEF Complete
<1> HIDE DEF D
<1>7. assembled = r
  BY <1>4, <1>5, <1>6, ListsOnce
<1>8. QED
  BY <1>1, <1>6, <1>7

\* Nothing that the catalogue calls a success is rejected.
LEMMA CompleteIsAccepted ==
    ASSUME StreamInv, NoteInv, Fits(scenario), EnoughRoom, scenario.note = "ok"
    PROVE  ~Rejected
<1>1. Complete(theReply, scenario.texts)
  BY Zenon DEF Fits, theReply
<1> SUFFICES ASSUME Rejected PROVE FALSE
  OBVIOUS
<1>2. total \in 1..Len(stream) /\ total \in 1..total
  BY DEF Rejected
<1>3. total \in 1..Len(theReply) /\ theReply[total] = stream[total]
      /\ \A i \in 1..total : i \in 1..Len(theReply) /\ theReply[i] = stream[i]
  BY <1>2, ReplyDecoded
<1>4. total <= MaxStream
  BY <1>3, ReplyDecoded, StreamAssumption DEF EnoughRoom
<1>5. \A i \in 1..total : stream[i] \notin {"bad", "finishBad"}
  BY <1>1, <1>3 DEF Complete
<1>6. ASSUME stream[total] = "delta", Len(assembled) >= OutputLimit, Len(assembled) < total PROVE FALSE
  <2>1. total <= 3
    BY <1>1, <1>3, <1>6 DEF Complete
  <2>2. Len(assembled) \in Nat
    BY DEF StreamInv, TypeOK
  <2>3. QED
    BY <1>3, <1>6, <2>1, <2>2, StreamAssumption DEF EnoughRoom
<1>7. ASSUME stream[total] = "done", \A i \in 1..(total - 1) : stream[i] = "comment" PROVE FALSE
  <2>1. total = Len(theReply)
    BY <1>1, <1>3, <1>7 DEF Complete
  <2>2. PICK i \in 1..(Len(theReply) - 1) : theReply[i] # "comment"
    BY <1>1 DEF Complete
  <2>3. i \in 1..(total - 1) /\ i \in 1..total
    BY <1>3, <2>1, <2>2
  <2>4. stream[i] = theReply[i]
    BY <1>3, <2>3
  <2>5. QED
    BY <1>7, <2>2, <2>3, <2>4
<1>8. QED
  <2>1. \/ total > MaxStream \/ stream[total] = "bad" \/ \E i \in 1..total : stream[i] = "finishBad"
        \/ stream[total] = "delta" /\ Len(assembled) >= OutputLimit /\ Len(assembled) < total
        \/ stream[total] = "done" /\ \A i \in 1..(total - 1) : stream[i] = "comment"
    BY DEF Rejected
  <2>2. total > MaxStream => FALSE
    BY <1>3, <1>4, StreamAssumption
  <2>3. QED
    BY <1>2, <1>5, <1>6, <1>7, <2>1, <2>2

\* A scenario that succeeds ends with [DONE], so it is not cut short.
LEMMA CompleteIsWhole ==
    ASSUME StreamInv, NoteInv, Fits(scenario), scenario.note = "ok", outcome = "truncated"
    PROVE  FALSE
<1>1. Complete(theReply, scenario.texts) /\ theReply # <<>> /\ theReply \in Seq(Kinds)
  BY Zenon DEF Fits, theReply
<1>2. total = Len(theReply)
  BY DEF NoteInv, Concluded
<1>3. Len(theReply) # 0
  BY <1>1
<1>4. total \in 1..total /\ total \in 1..Len(theReply)
  BY <1>2, <1>3, ReplyDecoded
<1>5. theReply[total] = "done"
  BY <1>1, <1>2, <1>4 DEF Complete
<1>6. stream[total] = "done"
  BY <1>4, <1>5, ReplyDecoded
<1>7. QED
  BY <1>4, <1>6, ReplyDecoded

LEMMA NoteInvMeansIt ==
    ASSUME EnoughRoom
    PROVE  StreamInv /\ RecordInv /\ NoteInv => NotesHold
<1> SUFFICES ASSUME StreamInv, RecordInv, NoteInv, pc = "done" PROVE NotesHold
  BY DEF NotesHold
<1>1. Fits(scenario)
  BY ScenarioFits
<1>2. ASSUME outcome = "ok" PROVE PromisesSuccess /\ Len(printed) = scenario.texts
  <2>1. scenario.note = "ok" /\ answer = "ok"
    BY <1>1, <1>2, NoteOfFailure
  <2>2. PromisesSuccess
    BY <1>1, <2>1, AnswerOk DEF PromisesSuccess, answer, refused
  <2>3. QED
    BY <1>1, <1>2, <2>1, <2>2, TextsPrinted
<1>3. ASSUME outcome = "truncated" PROVE scenario.note = "truncated"
  <2>1. scenario.note # "failed"
    BY <1>1, <1>3, NoteOfFailure
  <2>2. scenario.note # "ok"
    BY <1>1, <1>3, CompleteIsWhole
  <2>3. scenario.note \in {"ok", "truncated", "failed"}
    BY <1>1, Zenon DEF Fits
  <2>4. QED
    BY <2>1, <2>2, <2>3
<1>4. ASSUME PromisesSuccess, ~sniffed, ~parentDone, header # "none", printed = assembled, ~flushFailed
      PROVE  outcome = "ok"
  <2>1. header = "ok"
    BY <1>1, <1>4, AnswerOk DEF RecordInv
  <2>2. outcome \in Outcomes /\ outcome # "none"
    BY DEF StreamInv, TypeOK, Phases
  <2>3. outcome # "canceled" /\ outcome # "idle"
    BY <1>4 DEF StreamInv, Causes, streamDone, NoteInv, Coming
  <2>4. scenario.note = "ok"
    BY <1>4 DEF PromisesSuccess
  <2>5. outcome # "truncated"
    BY <1>1, <2>4, CompleteIsWhole
  <2>6. outcome # "failed"
    BY <1>1, <1>4, <2>1, <2>4, CompleteIsAccepted DEF NoteInv, Concluded
  <2>7. QED
    BY <2>2, <2>3, <2>5, <2>6 DEF Outcomes
<1>5. QED
  BY <1>2, <1>3, <1>4, Zenon DEF NotesHold

\* What the note of a scenario promises of the client is what the client does, for
\* every scenario of the catalogue, whatever credentials there are, however the
\* bytes of the wire come apart and whenever the call is cancelled, if the
\* client's limits are beyond the replies of the catalogue.
THEOREM NotesAlwaysHold ==
    ASSUME EnoughRoom
    PROVE  MCSpec => []NotesHold
<1>1. ScenarioSpec => []StreamInv
  BY MockIsAServer, StreamInvAlways, PTL
<1>2. StreamInv /\ RecordInv /\ NoteInv /\ [ScenarioNext]_scenarioVars => NoteInv'
  BY NextNoteInv
<1>3. StreamInv /\ RecordInv /\ NoteInv => NotesHold
  BY NoteInvMeansIt
<1>4. QED
  BY <1>1, <1>2, <1>3, InitNoteInv, RecordInvAlways, RunsAreScenarios, PTL DEF ScenarioSpec
=============================================================================
