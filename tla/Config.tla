-------------------------------- MODULE Config --------------------------------
(***************************************************************************)
(* Parse of config.go: from the members of a JSON document and the         *)
(* environment to a configuration or a refusal.  A text is a sequence of   *)
(* characters, or of the parts of a URL; a number keeps its value and      *)
(* whether it is written as an integer.                                    *)
(***************************************************************************)
EXTENDS Integers, Sequences

CONSTANTS
    MaxInt64,                   \* the widest int64
    maxEnvName, maxTokenBytes,  \* longest name and value of a variable
    NoConfig                    \* what Parse returns with an error

ASSUME ConfigAssumption ==
    /\ MaxInt64 \in Nat /\ maxEnvName \in Nat /\ maxTokenBytes \in Nat

\* The members of fileConfig.
required == {"endpoint", "model", "context_budget", "generation_reserve"}
fileConfig == required \cup {"system_prompt", "system_prompt_file", "bearer_token_env"}

\* What a member may hold: an object may repeat a key.
Other(type) == [type |-> type, text |-> <<>>, int |-> 0, whole |-> FALSE]
String(text) == [type |-> "string", text |-> text, int |-> 0, whole |-> FALSE]
Number(n, whole) == [type |-> "number", text |-> <<>>, int |-> n, whole |-> whole]
absent == Other("absent")

\* A member is a key, which is a name in one of two spellings that differ in
\* the case of letters only, and a value.
Member(name, spelling, value) == [key |-> <<name, spelling>>, value |-> value]

-----------------------------------------------------------------------------
(* The JSON document.                                                      *)

\* consumeJSONValue compares keys as they are spelt, in every object.
rejectDuplicateKeys(members) ==
    \/ \E i, j \in DOMAIN members : i < j /\ members[i].key = members[j].key
    \/ \E i \in DOMAIN members : members[i].value.type = "repeats a key"

\* DisallowUnknownFields; names match whatever their spelling.
unknownField(members) == \E i \in DOMAIN members : members[i].key[1] \notin fileConfig

\* The last member of a name wins.
lastOf(members, name) ==
    LET named == {i \in DOMAIN members : members[i].key[1] = name}
    IN  {i \in named : \A j \in named : j <= i}

raw(members, name) ==
    IF lastOf(members, name) = {} THEN absent
    ELSE members[CHOOSE i \in lastOf(members, name) : TRUE].value

\* null decodes into a document without members.
decoded(document) == IF document.json = "null" THEN <<>> ELSE document.members

wellFormed(document) ==
    /\ document.json \in {"object", "null"} /\ document.trailing = "none"
    /\ ~rejectDuplicateKeys(decoded(document)) /\ ~unknownField(decoded(document))

-----------------------------------------------------------------------------
(* The members.                                                            *)

parseString(value) == value.type = "string"

parseRequiredString(value) == parseString(value) /\ \E i \in DOMAIN value.text : value.text[i] # " "

\* JSON admits neither leading zeros nor a plus sign.
parsePositiveInt(value) == value.type = "number" /\ value.whole /\ value.int \in 1..MaxInt64

partsOf(text) == {text[i] : i \in DOMAIN text}

\* Of a URL after its scheme: what follows no // is opaque and has no host.
validateEndpoint(text) ==
    /\ text # <<>> /\ text[1] \in {"http:", "https:"}
    /\ {"//", "host"} \subseteq partsOf(text)
    /\ partsOf(text) \cap {"user@", "?query", "#fragment", "%"} = {}

validEnvName(name) ==
    /\ Len(name) \in 1..maxEnvName
    /\ \A i \in DOMAIN name : name[i] \in (IF i = 1 THEN {"x"} ELSE {"x", "1"})

\* Nothing but visible ASCII.
validateBearerToken(token) ==
    /\ Len(token) <= maxTokenBytes
    /\ \A i \in DOMAIN token : token[i] \notin {" ", "LF"}

\* environment holds the value of the named variable, if there is one.
resolveBearerToken(name, environment) ==
    /\ validEnvName(name)
    /\ \E value \in environment : value # <<>> /\ validateBearerToken(value)

\* Mutant: null counts as an omitted member, as encoding/json takes it.
optionalOrNull(value, parses) == value = absent \/ value.type = "null" \/ parses

optional(value, parses) == value = absent \/ parses

\* The members are looked at in this order and the first that is wrong is
\* reported; which one it is, is not part of the result.
membersAreRight(members, environment) ==
    /\ parseRequiredString(raw(members, "endpoint"))
    /\ parseRequiredString(raw(members, "model"))
    /\ parsePositiveInt(raw(members, "context_budget"))
    /\ parsePositiveInt(raw(members, "generation_reserve"))
    /\ raw(members, "generation_reserve").int < raw(members, "context_budget").int
    /\ absent \in {raw(members, "system_prompt"), raw(members, "system_prompt_file")}
    /\ optional(raw(members, "system_prompt"), parseString(raw(members, "system_prompt")))
    /\ optional(raw(members, "system_prompt_file"),
                parseRequiredString(raw(members, "system_prompt_file")))
    /\ optional(raw(members, "bearer_token_env"),
                /\ parseRequiredString(raw(members, "bearer_token_env"))
                /\ resolveBearerToken(raw(members, "bearer_token_env").text, environment))
    /\ validateEndpoint(raw(members, "endpoint").text)

configOf(members, environment) ==
    [endpoint |-> raw(members, "endpoint").text,
     model |-> raw(members, "model").text,
     contextBudget |-> raw(members, "context_budget").int,
     generationReserve |-> raw(members, "generation_reserve").int,
     systemPrompt |-> raw(members, "system_prompt").text,
     systemPromptFile |-> raw(members, "system_prompt_file").text,
     bearerToken |-> IF raw(members, "bearer_token_env") = absent THEN {} ELSE environment]

Parse(document, environment) ==
    IF /\ wellFormed(document)
       /\ membersAreRight(decoded(document), environment)
    THEN configOf(decoded(document), environment)
    ELSE NoConfig
=============================================================================
