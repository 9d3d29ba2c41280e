----------------------------- MODULE MCScenarios -----------------------------
(***************************************************************************)
(* Two systems in one run: the catalogue against the client, and the       *)
(* client's decoder alone, fed with any bytes, or with a reply that comes  *)
(* in any deltas to a client with any token.                               *)
(***************************************************************************)
EXTENDS Scenarios, SecretFilter

CONSTANTS MaxBytes, MaxText     \* bounds: bytes, and letters of a reply or a token

ASSUME BoundsAssumption == MaxBytes \in Nat /\ MaxText \in Nat

VARIABLES bytes, secret, deltas

decoderVars == <<bytes, secret, deltas>>
catalogue == secret = <<>>

Letters == {"a", "b"}
TextsUpTo(n) == UNION {[1..k -> Letters] : k \in 1..n}

MCInit ==
    /\ ScenarioInit /\ bytes = <<>> /\ deltas = <<>>
    /\ \/ secret = <<>>
       \/ /\ secret \in TextsUpTo(MaxText - 1)
          /\ scenario = unknownScenario /\ bearer = "" /\ expected = "" /\ ~tooLarge /\ ~parentDone

ByteArrives ==
    /\ secret = <<"a">> /\ deltas = <<>> /\ Len(bytes) < MaxBytes
    /\ \E byte \in {"CR", "LF", "data:", ":", "v"} : bytes' = Append(bytes, byte)
    /\ UNCHANGED <<secret, deltas, scenarioVars>>

DeltaArrives ==
    /\ ~catalogue /\ bytes = <<>>
    /\ \E text \in TextsUpTo(MaxText - Len(FlattenSeq(deltas))) : deltas' = Append(deltas, text)
    /\ UNCHANGED <<bytes, secret, scenarioVars>>

MCNext ==
    \/ catalogue /\ ScenarioNext /\ UNCHANGED decoderVars
    \/ ByteArrives
    \/ DeltaArrives
    \/ ~catalogue /\ UNCHANGED <<scenarioVars, decoderVars>>

MCSpec == MCInit /\ [][MCNext]_<<scenarioVars, decoderVars>>

-----------------------------------------------------------------------------
\* Of a stream that has ended the client reads the events of the SSE standard,
\* in every mixture of line ends, comments and fields, and a limit rejects only
\* an event that is too long, the events before it being the same.
SSEReadsTheStandard ==
    ReadsTheStandard(bytes) /\ \A max \in 1..(MaxBytes + 1) : KeepsTheLimit(bytes, max)

\* Of a stream that goes on nothing that has arrived is held back, but a line
\* whose CR came last; and what was delivered when fewer bytes had arrived is the
\* beginning of what is delivered of all of them.
SSEDeliversAtOnce == DeliversAtOnce(bytes) /\ StaysDelivered(bytes)

\* The bearer token is never printed nor kept, and what is printed of a reply
\* is what is kept of it, wherever its deltas are split.
RedactionIsWhole == ~catalogue => ShowsWhatItKeeps(secret, deltas)
=============================================================================
