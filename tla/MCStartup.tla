------------------------------ MODULE MCStartup ------------------------------
(***************************************************************************)
(* Two systems in one run: processes that start, and Parse alone with a    *)
(* document that is edited member by member.                               *)
(***************************************************************************)
EXTENDS Startup, Config

CONSTANT MaxEdits       \* bound: edits of the document

\* What the texts of this module are made of.
Characters == {"http:", "ftp:", "//", "user@", "host", "?query", "#fragment", "%", " ", "x", "1", "-",
               "~", "LF"}

\* Names and Tokens have one value on each side of these lengths; no
\* configuration is NoConfig.
ASSUME MCStartupAssumption ==
    /\ maxEnvName = 2 /\ maxTokenBytes = 2
    /\ NoConfig \notin [endpoint : Seq(Characters), model : Seq(Characters), contextBudget : Int,
                        generationReserve : Int, systemPrompt : Seq(Characters),
                        systemPromptFile : Seq(Characters), bearerToken : SUBSET Seq(Characters)]

VARIABLES document, environment, edits

documentVars == <<document, environment, edits>>
starting == edits = -1

\* A URL, and what it is with one part less, more or other.
Url == <<"http:", "//", "host">>
Endpoints ==
    {Url, <<"//", "host">>, <<"http:", "host">>, <<"http:", "//">>,
     <<"http:", "//", "user@", "host">>, <<"http:", "//", "host", "?query">>,
     <<"http:", "//", "host", "#fragment">>, <<"ftp:", "//", "host">>,
     <<"http:", "//", "%", "host">>}
Texts == {<<>>, <<" ">>, <<" ", "x">>}
Names == {<<>>, <<" ">>, <<"x", "1">>, <<"1", "x">>, <<"x", "-">>, <<"x", "x", "x">>}
Tokens == {<<>>, <<"x", "~">>, <<"x", "LF">>, <<"x", "x", "x">>}
Numbers == {Number(n, TRUE) : n \in {-1, 0, 1, 2, MaxInt64, MaxInt64 + 1}} \cup {Number(2, FALSE)}

valuesOf(name) ==
    {Other("null"), Other("object"), Other("repeats a key")}
        \cup (CASE name = "endpoint" -> {String(text) : text \in Endpoints}
                [] name \in {"context_budget", "generation_reserve"} -> Numbers \cup {String(<<"1">>)}
                [] name = "bearer_token_env" -> {String(text) : text \in Names}
                [] OTHER -> {String(text) : text \in Texts} \cup {Number(1, TRUE)})

Complete ==
    <<Member("endpoint", "lower", String(Url)),
      Member("model", "lower", String(<<"x">>)),
      Member("context_budget", "lower", Number(2, TRUE)),
      Member("generation_reserve", "lower", Number(1, TRUE))>>

MCInit ==
    /\ Init
    /\ document = [json |-> "object", trailing |-> "none", members |-> Complete]
    /\ environment = {<<"x">>}
    /\ edits \in {-1, 0}

Edit(to) ==
    /\ ~starting /\ edits < MaxEdits
    /\ edits' = edits + 1 /\ document' = to
    /\ UNCHANGED <<environment, vars>>

members == document.members

AddMember ==
    \E name \in fileConfig \cup {"api_key"}, spelling \in {"lower", "Upper"} :
        \E value \in valuesOf(name) :
            Edit([document EXCEPT !.members = Append(members, Member(name, spelling, value))])

ChangeMember ==
    \E i \in DOMAIN members : \E value \in valuesOf(members[i].key[1]) :
        Edit([document EXCEPT !.members[i].value = value])

RemoveMember ==
    \E i \in DOMAIN members :
        Edit([document EXCEPT !.members = SubSeq(members, 1, i - 1) \o SubSeq(members, i + 1, Len(members))])

ChangeDocument ==
    \/ \E json \in {"null", "array", "malformed", "blank"} : Edit([document EXCEPT !.json = json])
    \/ \E trailing \in {"value", "garbage"} : Edit([document EXCEPT !.trailing = trailing])

ChangeEnvironment ==
    /\ ~starting /\ edits < MaxEdits /\ edits' = edits + 1
    /\ \E values \in {{}} \cup {{token} : token \in Tokens} : environment' = values
    /\ UNCHANGED <<document, vars>>

Edits == AddMember \/ ChangeMember \/ RemoveMember \/ ChangeDocument \/ ChangeEnvironment

MCNext ==
    \/ starting /\ Next /\ UNCHANGED documentVars
    \/ Edits
    \/ ~starting /\ UNCHANGED <<vars, documentVars>>

Starts(p) == starting /\ RunSteps(p) /\ UNCHANGED documentVars

MCSpec ==
    /\ MCInit /\ [][MCNext]_<<vars, documentVars>>
    /\ \A p \in Procs : WF_<<vars, documentVars>>(Starts(p))

-----------------------------------------------------------------------------
\* The values configuration.md allows, among those of this module; an integer
\* is a number written as one.
Allowed == [
    endpoint |-> {Url},
    model |-> {<<"x">>, <<" ", "x">>},
    system_prompt |-> Texts,
    system_prompt_file |-> {<<" ", "x">>},
    bearer_token_env |-> {<<"x", "1">>, <<"x", "x", "x">>}]
AllowedTokens == {<<"x">>, <<"x", "~">>, <<"x", "x", "x">>}

\* The members that count: no later one has the same name.
Counts(i) == \A j \in DOMAIN members : j > i => members[j].key[1] # members[i].key[1]
Given(name) == \E i \in DOMAIN members : members[i].key[1] = name
NumberOf(name) ==
    {members[i].value.int : i \in {j \in DOMAIN members :
        Counts(j) /\ members[j].key[1] = name /\ members[j].value.whole}}

\* What configuration.md asks of the keys: those of its table, as it spells
\* them, and none twice.
SpeltAsDocumented == \A i \in DOMAIN members : members[i].key[2] = "lower"
KeysAreDocumented ==
    /\ SpeltAsDocumented
    /\ \A i, j \in DOMAIN members : members[i].key = members[j].key => i = j
    /\ \A i \in DOMAIN members :
          members[i].value.type # "repeats a key" /\ members[i].key[1] \in fileConfig

\* What it asks of the values.
ValuesFollow ==
    /\ \A i \in DOMAIN members :
          Counts(i) /\ members[i].key[1] \in DOMAIN Allowed =>
              /\ members[i].value.type = "string"
              /\ members[i].value.text \in Allowed[members[i].key[1]]
    /\ \A name \in required : Given(name)
    /\ \E budget \in NumberOf("context_budget"), reserve \in NumberOf("generation_reserve") :
          0 < reserve /\ reserve < budget
    /\ ~(Given("system_prompt") /\ Given("system_prompt_file"))
    /\ Given("bearer_token_env") => environment \in {{token} : token \in AllowedTokens}

\* What it asks of a file ("Validation failures").
FollowsTheRules ==
    document.json = "object" /\ document.trailing = "none" /\ KeysAreDocumented /\ ValuesFollow

\* What only the code asks: a budget that fits an int64, a name and a token that
\* are not too long (config.go:318, 334).
WithinLimits ==
    /\ \A budget \in NumberOf("context_budget") : budget <= MaxInt64
    /\ Given("bearer_token_env") =>
          /\ \A i \in DOMAIN members :
                Counts(i) /\ members[i].key[1] = "bearer_token_env" =>
                    Len(members[i].value.text) <= maxEnvName
          /\ \A token \in environment : Len(token) <= maxTokenBytes

\* A file whose keys are spelt as documented is accepted exactly when it follows
\* the rules and exceeds no limit, in whatever order and combination they are
\* broken; and the values of any accepted file follow the rules and are what the
\* others assume of them: a reserve below the budget and a budget that fits an
\* int64 (Accounting), a token that can be filtered and sent (SecretFilter).  The
\* first half is false without its condition: a key in another case is taken too,
\* even beside the documented one (config.go:409, against configuration.md:85).
ParseFollowsTheRules ==
    ~starting =>
        LET config == Parse(document, environment) IN
        /\ SpeltAsDocumented => (config # NoConfig <=> FollowsTheRules /\ WithinLimits)
        /\ config # NoConfig =>
              /\ ValuesFollow /\ WithinLimits
              /\ config.generationReserve \in 1..(config.contextBudget - 1)
              /\ config.contextBudget \in NumberOf("context_budget")
              /\ config.systemPrompt = <<>> \/ config.systemPromptFile = <<>>
              /\ config.bearerToken = IF Given("bearer_token_env") THEN environment ELSE {}
=============================================================================
