------------------------------ MODULE StartupProofs ------------------------------
(***************************************************************************)
(* Proofs about Startup, for any number of processes and of changes to     *)
(* their files: what a session starts with and who writes a result file;   *)
(* and about Parse of Config, for documents any number of edits away from  *)
(* a complete one.                                                         *)
(***************************************************************************)
EXTENDS MCStartup, WellFoundedInduction, TLAPS

-----------------------------------------------------------------------------
(* The inductive invariant.                                                *)

\* A result file is open only from the session on, and is the process's own.
FilesInv ==
    \A p \in Procs :
        /\ wfile[p] \in {NoFile, p}
        /\ pc[p] \notin {"session", "exited"} => wfile[p] = NoFile
        /\ pc[p] = "createOutput" => args[p].output # "none"
        /\ pc[p] \in {"session", "exited"} /\ args[p].output # "none" => wfile[p] # NoFile

\* Nothing follows the configuration without a prompt that passed its checks.
PromptInv ==
    \A p \in Procs :
        pc[p] \in {"statInput", "openInput", "createOutput", "session", "exited"} =>
            prompt[p] = "good"

StartupInv == TypeOK /\ fs \in [Paths -> Kinds] /\ FilesInv /\ PromptInv

LEMMA InitStartupInv == Init => StartupInv
<1> SUFFICES ASSUME Init PROVE StartupInv
  OBVIOUS
<1> USE StartupAssumption DEF Init
<1>1. TypeOK /\ fs \in [Paths -> Kinds]
  BY DEF TypeOK, Paths, Kinds, KindsAt, Regular, Running
<1>2. FilesInv /\ PromptInv
  BY DEF FilesInv, PromptInv
<1>3. QED
  BY <1>1, <1>2 DEF StartupInv

-----------------------------------------------------------------------------
\* A process that goes on or stops where nothing but pc matters to FilesInv and
\* PromptInv: not to the creation of the output or the session, unless it is ready.
LEMMA StepOfOne ==
    ASSUME StartupInv, NEW p \in Procs, NEW step, NEW code,
           pc' = [pc EXCEPT ![p] = step],
           exit' = [exit EXCEPT ![p] = code], code \in {0, 1, 2, 130, 143, Running},
           step \in {"flags", "openConfig", "readConfig", "statPrompt", "openPrompt", "readPrompt",
                     "statInput", "openInput", "createOutput", "session", "stopped"},
           pc[p] \notin {"session", "exited"},
           UNCHANGED <<fileVars, args, wfile, signalled>>,
           prompt' \in [Procs -> Regular \cup {"error"}],
           handle' \in [Procs -> Kinds \cup {NoFile}],
           \A q \in Procs : q # p => prompt'[q] = prompt[q],
           step \in {"statInput", "openInput", "createOutput", "session"} => prompt'[p] = "good",
           step = "createOutput" => args[p].output # "none",
           step = "session" => args[p].output = "none"
    PROVE  StartupInv'
<1> USE DEF StartupInv, fileVars
<1>1. TypeOK' /\ (fs \in [Paths -> Kinds])'
  BY DEF TypeOK
<1>2. FilesInv'
  BY DEF FilesInv, TypeOK
<1>3. PromptInv'
  BY DEF PromptInv, TypeOK
<1>4. QED
  BY <1>1, <1>2, <1>3

\* Where main.run goes after the configuration or the input.
LEMMA AfterIs ==
    ASSUME TypeOK, NEW p \in Procs, NEW done \in {"config", "input"}
    PROVE  /\ after(p, done) \in {"statInput", "createOutput", "session"}
           /\ after(p, done) = "createOutput" => args[p].output # "none"
           /\ after(p, done) = "session" => args[p].output = "none"
  BY DEF after

\* What can be read from a file.
LEMMA ReadsType == ASSUME NEW kind PROVE Reads(kind) \subseteq Regular \cup {"error"}
  BY DEF Reads, Regular

LEMMA GoesOn ==
    ASSUME StartupInv, NEW p \in Procs, NEW step, Goes(p, step)
    PROVE  /\ pc' = [pc EXCEPT ![p] = step] /\ exit' = [exit EXCEPT ![p] = exit[p]]
           /\ exit[p] \in {0, 1, 2, 130, 143, Running}
  BY DEF Goes, StartupInv, TypeOK

LEMMA FlagsInv ==
    ASSUME StartupInv, NEW p \in Procs, Flags(p)
    PROVE  StartupInv'
<1>1. CASE \E code \in usageExit : Stops(p, code) /\ UNCHANGED args
  <2>1. PICK code \in {0, 2} : Stops(p, code) /\ UNCHANGED args
    BY <1>1 DEF usageExit
  <2>2. pc[p] = "flags" /\ UNCHANGED <<fileVars, handle, prompt, wfile, signalled>>
    BY DEF Flags
  <2>3. QED
    BY <2>1, <2>2, StepOfOne DEF Stops, StartupInv, TypeOK
<1>2. CASE \E a \in Args : args' = [args EXCEPT ![p] = a] /\ Goes(p, "openConfig")
  <2>1. PICK a \in Args : args' = [args EXCEPT ![p] = a] /\ Goes(p, "openConfig")
    BY <1>2
  <2>2. pc[p] = "flags" /\ UNCHANGED <<fileVars, handle, prompt, wfile, signalled>>
    BY DEF Flags
  <2>3. TypeOK' /\ (fs \in [Paths -> Kinds])'
    BY <2>1, <2>2 DEF StartupInv, TypeOK, Goes, Args, fileVars
  <2>4. FilesInv' /\ PromptInv'
    BY <2>1, <2>2 DEF StartupInv, FilesInv, PromptInv, TypeOK, Goes
  <2>5. QED
    BY <2>3, <2>4 DEF StartupInv
<1>3. QED
  BY <1>1, <1>2 DEF Flags

LEMMA OpenInv ==
    ASSUME StartupInv, NEW p \in Procs, NEW path \in ReadablePaths,
           OpenFails(p, path) \/ Opens(p, path) \/ WriterConnects(p, path)
    PROVE  StartupInv'
<1>1. /\ pc[p] \in {"openConfig", "openPrompt", "openInput"}
      /\ path = "input" => prompt[p] = "good"
      /\ path \in Paths /\ fs[path] \in Kinds
  BY DEF OpenFails, Opens, WriterConnects, OpensAt, ReadablePaths, StartupInv, PromptInv, Paths
<1>2. prompt \in [Procs -> Regular \cup {"error"}] /\ handle \in [Procs -> Kinds \cup {NoFile}]
  BY DEF StartupInv, TypeOK
<1>3. CASE OpenFails(p, path)
  BY <1>1, <1>2, <1>3, StepOfOne DEF OpenFails, Stops
<1>4. ASSUME OpenGoes(p, path), UNCHANGED <<fileVars, args, prompt, wfile, signalled>>,
             handle' \in [Procs -> Kinds \cup {NoFile}]
      PROVE  StartupInv'
  <2> DEFINE step == CASE path = "config" -> "readConfig"
                       [] path = "prompt" -> "readPrompt"
                       [] OTHER -> after(p, "input")
  <2>1. Goes(p, step)
    BY <1>4 DEF OpenGoes
  <2>2. \/ step \in {"readConfig", "readPrompt"}
        \/ path = "input" /\ step = after(p, "input")
    BY DEF ReadablePaths
  <2> HIDE DEF step
  <2>3. /\ pc' = [pc EXCEPT ![p] = step] /\ exit' = [exit EXCEPT ![p] = exit[p]]
        /\ exit[p] \in {0, 1, 2, 130, 143, Running}
    BY <2>1, GoesOn
  <2>4. /\ step \in {"readConfig", "readPrompt", "statInput", "createOutput", "session"}
        /\ step \in {"statInput", "createOutput", "session"} => prompt[p] = "good"
        /\ step = "createOutput" => args[p].output # "none"
        /\ step = "session" => args[p].output = "none"
    BY <1>1, <2>2, AfterIs DEF StartupInv
  <2>5. QED
    BY <1>1, <1>2, <1>4, <2>3, <2>4, StepOfOne
<1>5. CASE Opens(p, path)
  <2>1. handle' \in [Procs -> Kinds \cup {NoFile}]
    BY <1>1, <1>2, <1>5 DEF Opens
  <2>2. CASE UNCHANGED <<pc, exit>>
    BY <1>5, <2>1, <2>2 DEF Opens, StartupInv, TypeOK, FilesInv, PromptInv, fileVars
  <2>3. QED
    BY <1>4, <1>5, <2>1, <2>2 DEF Opens
<1>6. CASE WriterConnects(p, path)
  BY <1>2, <1>4, <1>6 DEF WriterConnects
<1>7. QED
  BY <1>3, <1>5, <1>6

LEMMA ReadInv ==
    ASSUME StartupInv, NEW p \in Procs, ReadConfig(p) \/ ReadPrompt(p)
    PROVE  StartupInv'
<1>1. /\ pc[p] \in {"readConfig", "readPrompt"}
      /\ handle' \in [Procs -> Kinds \cup {NoFile}]
      /\ UNCHANGED <<fileVars, args, wfile, signalled>>
  BY DEF ReadConfig, ReadPrompt, StartupInv, TypeOK
<1>2. PICK content \in Regular \cup {"error"} :
        /\ prompt' = [prompt EXCEPT ![p] = content]
        /\ \/ Stops(p, 1)
           \/ Goes(p, "statPrompt")
           \/ content = "good" /\ Goes(p, after(p, "config"))
  <2>1. CASE ReadConfig(p)
    BY <2>1, ReadsType DEF ReadConfig
  <2>2. CASE ReadPrompt(p)
    <3>1. PICK content \in Reads(handle[p]) \ {"refers"} :
            /\ prompt' = [prompt EXCEPT ![p] = content]
            /\ IF promptAccepted(content) THEN Goes(p, after(p, "config")) ELSE Stops(p, 1)
      BY <2>2 DEF ReadPrompt
    <3>2. content \in (Regular \cup {"error"}) \ {"refers"}
      BY ReadsType
    <3>3. promptAccepted(content) => content = "good"
      BY <3>2 DEF promptAccepted, promptFits, Regular
    <3>4. QED
      BY <3>1, <3>2, <3>3
  <2>3. QED
    BY <2>1, <2>2
<1>3. /\ prompt' \in [Procs -> Regular \cup {"error"}] /\ prompt'[p] = content
      /\ \A q \in Procs : q # p => prompt'[q] = prompt[q]
  BY <1>2 DEF StartupInv, TypeOK
<1>4. CASE Stops(p, 1)
  BY <1>1, <1>3, <1>4, StepOfOne DEF Stops
<1>5. CASE Goes(p, "statPrompt")
  BY <1>1, <1>3, <1>5, StepOfOne, GoesOn
<1>6. CASE content = "good" /\ Goes(p, after(p, "config"))
  <2>1. /\ after(p, "config") \in {"statInput", "createOutput", "session"}
        /\ after(p, "config") = "createOutput" => args[p].output # "none"
        /\ after(p, "config") = "session" => args[p].output = "none"
    BY AfterIs DEF StartupInv
  <2>2. QED
    BY <1>1, <1>3, <1>6, <2>1, StepOfOne, GoesOn
<1>7. QED
  BY <1>2, <1>4, <1>5, <1>6

LEMMA StatInv ==
    ASSUME StartupInv, NEW p \in Procs, StatPrompt(p) \/ StatInput(p) \/ CreateFails(p)
    PROVE  StartupInv'
<1>1. /\ pc[p] \in {"statPrompt", "statInput", "createOutput"}
      /\ pc[p] = "statInput" => prompt[p] = "good"
      /\ UNCHANGED <<fileVars, args, handle, prompt, wfile, signalled>>
      /\ prompt \in [Procs -> Regular \cup {"error"}] /\ handle \in [Procs -> Kinds \cup {NoFile}]
  BY DEF StatPrompt, StatInput, CreateFails, StartupInv, PromptInv, TypeOK
<1>2. CASE Stops(p, 1)
  BY <1>1, <1>2, StepOfOne DEF Stops
<1>3. CASE Goes(p, "openPrompt") \/ (pc[p] = "statInput" /\ Goes(p, "openInput"))
  BY <1>1, <1>3, StepOfOne, GoesOn
<1>4. QED
  BY <1>2, <1>3 DEF StatPrompt, StatInput, CreateFails

LEMMA CreateInv ==
    ASSUME StartupInv, NEW p \in Procs, CreateOutput(p)
    PROVE  StartupInv'
<1> USE DEF StartupInv
<1>1. OutputPath(p) \in {"output", "input"} /\ pc[p] = "createOutput" /\ prompt[p] = "good"
  BY DEF CreateOutput, OutputPath, FilesInv, PromptInv, TypeOK
<1>2. pc' = [pc EXCEPT ![p] = "session"] /\ UNCHANGED exit
  BY DEF CreateOutput, Goes, after
<1>3. fs' = [fs EXCEPT ![OutputPath(p)] = "good"] /\ (fs \in [Paths -> Kinds])'
  BY DEF CreateOutput, opensExclusively, Kinds, Regular
<1>4. \A path \in Paths : fs'[path] \in KindsAt[path]
  BY <1>1, <1>3 DEF TypeOK, KindsAt, Paths
<1>5. TypeOK'
  <2>1. creator' \in [Paths -> Procs \cup {Others}]
    BY DEF CreateOutput, TypeOK
  <2>2. wfile' \in [Procs -> Procs \cup {Others, NoFile}]
    BY <1>1, <2>1 DEF CreateOutput, TypeOK, Paths
  <2>3. QED
    BY <1>2, <1>4, <2>1, <2>2 DEF CreateOutput, TypeOK
<1>6. FilesInv' /\ PromptInv'
  <2>1. wfile' = [wfile EXCEPT ![p] = p] /\ UNCHANGED <<args, prompt>>
    <3>1. OutputPath(p) \in Paths /\ fs[OutputPath(p)] = "missing"
      BY <1>1 DEF CreateOutput, opensExclusively, Paths
    <3>2. creator'[OutputPath(p)] = p
      BY <3>1 DEF CreateOutput, TypeOK
    <3>3. QED
      BY <3>2 DEF CreateOutput
  <2>2. p # NoFile
    BY StartupAssumption
  <2>3. QED
    BY <1>1, <1>2, <2>1, <2>2 DEF FilesInv, PromptInv, TypeOK
<1>7. QED
  BY <1>3, <1>5, <1>6

LEMMA SessionInv ==
    ASSUME StartupInv, NEW p \in Procs, SessionInterrupted(p) \/ SessionEnds(p)
    PROVE  StartupInv'
<1> USE DEF StartupInv
<1>1. /\ pc[p] = "session" /\ pc' = [pc EXCEPT ![p] = "exited"]
      /\ \E code \in {0, 1, 130, 143} : exit' = [exit EXCEPT ![p] = code]
      /\ UNCHANGED <<fileVars, args, handle, prompt, wfile, signalled>>
  BY DEF SessionInterrupted, SessionEnds
<1>2. TypeOK' /\ (fs \in [Paths -> Kinds])'
  BY <1>1 DEF TypeOK, fileVars
<1>3. FilesInv' /\ PromptInv'
  BY <1>1 DEF FilesInv, PromptInv, TypeOK
<1>4. QED
  BY <1>2, <1>3

LEMMA OutsideInv ==
    ASSUME StartupInv,
           \/ \E p \in Procs : SignalArrives(p)
           \/ \E path \in Paths : \E kind \in KindsAt[path] : OthersChange(path, kind)
    PROVE  StartupInv'
<1> USE DEF StartupInv
<1>1. CASE \E p \in Procs : SignalArrives(p)
  BY <1>1 DEF SignalArrives, TypeOK, FilesInv, PromptInv, fileVars
<1>2. ASSUME NEW path \in Paths, NEW kind \in KindsAt[path], OthersChange(path, kind)
      PROVE  StartupInv'
  <2>1. KindsAt[path] \subseteq Kinds
    BY DEF KindsAt, Paths, Kinds, Regular
  <2>2. fs' = [fs EXCEPT ![path] = kind] /\ changes' = changes + 1 /\ changes < MaxChanges
        /\ creator' = [creator EXCEPT ![path] = Others] /\ UNCHANGED procVars
    BY <1>2 DEF OthersChange
  <2>3. (fs \in [Paths -> Kinds])' /\ \A q \in Paths : fs'[q] \in KindsAt[q]
    BY <2>1, <2>2 DEF TypeOK
  <2>4. creator' \in [Paths -> Procs \cup {Others}] /\ changes' \in 0..MaxChanges
    BY <2>2, StartupAssumption DEF TypeOK
  <2>5. QED
    BY <2>2, <2>3, <2>4 DEF TypeOK, FilesInv, PromptInv, procVars
<1>3. QED
  BY <1>1, <1>2

LEMMA NextStartupInv == StartupInv /\ [Next]_vars => StartupInv'
<1> SUFFICES ASSUME StartupInv, [Next]_vars PROVE StartupInv'
  OBVIOUS
<1>1. CASE UNCHANGED vars
  BY <1>1 DEF vars, fileVars, procVars, StartupInv, TypeOK, FilesInv, PromptInv
<1>2. ASSUME NEW p \in Procs, RunSteps(p) PROVE StartupInv'
  BY <1>2, FlagsInv, OpenInv, ReadInv, StatInv, CreateInv, SessionInv DEF RunSteps
<1>3. QED
  BY <1>1, <1>2, OpenInv, ReadInv, SessionInv, OutsideInv DEF Next, Finished

LEMMA StartupInvAlways == Spec => []StartupInv
  BY InitStartupInv, NextStartupInv, PTL DEF Spec

-----------------------------------------------------------------------------
\* Type correctness of the startups.
THEOREM StartupTypeCorrect == Spec => []TypeOK
<1>1. StartupInv => TypeOK
  BY DEF StartupInv
<1>2. QED
  BY <1>1, StartupInvAlways, PTL

\* However many processes race for one output path, and whatever others do to
\* it, no process writes to a file that others created, and no two to one file.
THEOREM AlwaysOneWriterPerFile == Spec => []OneWriterPerFile
<1>1. StartupInv => OneWriterPerFile
  BY StartupAssumption DEF StartupInv, FilesInv, OneWriterPerFile
<1>2. QED
  BY <1>1, StartupInvAlways, PTL

\* A run that stops before its session leaves no output file behind.
THEOREM FailureAlwaysLeavesNothing == Spec => []FailureLeavesNothing
<1>1. StartupInv => FailureLeavesNothing
  BY DEF StartupInv, FilesInv, FailureLeavesNothing
<1>2. QED
  BY <1>1, StartupInvAlways, PTL

\* Every session starts with contents that passed every check.
THEOREM SessionsAlwaysStartValid == Spec => []SessionStartsValid
<1>1. StartupInv => SessionStartsValid
  BY DEF StartupInv, FilesInv, PromptInv, SessionStartsValid
<1>2. QED
  BY <1>1, StartupInvAlways, PTL

-----------------------------------------------------------------------------
(* The documents that edits lead to.                                       *)

Keys == fileConfig \cup {"api_key"}
Spellings == {"lower", "Upper"}

\* What a member of the name may hold: the model of the complete document is
\* none of the values edits give it.
Held(name) == valuesOf(name) \cup (IF name = "model" THEN {String(<<"x">>)} ELSE {})

MembersOf(name) == {Member(name, spelling, value) : spelling \in Spellings, value \in Held(name)}
AnyMember == UNION {MembersOf(name) : name \in Keys}

DocumentInv ==
    /\ document \in [json : {"object", "null", "array", "malformed", "blank"},
                     trailing : {"none", "value", "garbage"}, members : Seq(AnyMember)]
    /\ environment \in {{}, {<<"x">>}} \cup {{token} : token \in Tokens}

LEMMA MemberIs ==
    ASSUME NEW name, NEW spelling, NEW value
    PROVE  /\ Member(name, spelling, value).key = <<name, spelling>>
           /\ Member(name, spelling, value).key[1] = name
           /\ Member(name, spelling, value).value = value
           /\ Member(name, spelling, value) = [key |-> <<name, spelling>>, value |-> value]
  BY DEF Member

LEMMA MemberType ==
    ASSUME NEW x \in AnyMember
    PROVE  /\ x.key[1] \in Keys /\ x.value \in Held(x.key[1])
           /\ \E spelling \in Spellings : x = Member(x.key[1], spelling, x.value)
<1>1. PICK name \in Keys : x \in MembersOf(name)
  BY DEF AnyMember
<1>2. PICK spelling \in Spellings, value \in Held(name) : x = Member(name, spelling, value)
  BY <1>1 DEF MembersOf
<1>3. QED
  BY <1>2, MemberIs

LEMMA AMember ==
    ASSUME NEW name \in Keys, NEW spelling \in Spellings, NEW value \in Held(name)
    PROVE  Member(name, spelling, value) \in AnyMember
  BY DEF AnyMember, MembersOf

LEMMA InitDocumentInv == MCInit => DocumentInv
<1> SUFFICES ASSUME MCInit PROVE DocumentInv
  OBVIOUS
<1>1. /\ Member("endpoint", "lower", String(Url)) \in AnyMember
      /\ Member("model", "lower", String(<<"x">>)) \in AnyMember
      /\ Member("context_budget", "lower", Number(2, TRUE)) \in AnyMember
      /\ Member("generation_reserve", "lower", Number(1, TRUE)) \in AnyMember
  <2>1. "lower" \in Spellings /\ {"endpoint", "model", "context_budget", "generation_reserve"} \subseteq Keys
    BY DEF Spellings, Keys, fileConfig, required
  <2>2. String(Url) \in Held("endpoint")
    BY DEF Held, valuesOf, Endpoints
  <2>3. String(<<"x">>) \in Held("model")
    BY DEF Held
  <2>4. Number(2, TRUE) \in Held("context_budget") /\ Number(1, TRUE) \in Held("generation_reserve")
    BY DEF Held, valuesOf, Numbers
  <2>5. QED
    BY <2>1, <2>2, <2>3, <2>4, AMember
<1>2. Complete \in Seq(AnyMember)
  <2>1. \A a, b, c, d \in AnyMember : <<a, b, c, d>> \in Seq(AnyMember)
    OBVIOUS
  <2>2. QED
    BY <1>1, <2>1, Zenon DEF Complete
<1>3. QED
  BY <1>2 DEF MCInit, DocumentInv

LEMMA EditInv ==
    ASSUME DocumentInv, NEW to, Edit(to),
           to \in [json : {"object", "null", "array", "malformed", "blank"},
                   trailing : {"none", "value", "garbage"}, members : Seq(AnyMember)]
    PROVE  DocumentInv'
  BY DEF DocumentInv, Edit

LEMMA NextDocumentInv == DocumentInv /\ [MCNext]_<<vars, documentVars>> => DocumentInv'
<1> SUFFICES ASSUME DocumentInv, [MCNext]_<<vars, documentVars>> PROVE DocumentInv'
  OBVIOUS
<1> DEFINE Documents == [json : {"object", "null", "array", "malformed", "blank"},
                         trailing : {"none", "value", "garbage"}, members : Seq(AnyMember)]
<1>1. document \in Documents /\ members \in Seq(AnyMember)
  BY DEF DocumentInv, members
<1>2. ASSUME NEW to, Edit(to), to \in Documents PROVE DocumentInv'
  BY <1>2, EditInv
<1>3. ASSUME NEW more \in Seq(AnyMember) PROVE [document EXCEPT !.members = more] \in Documents
  BY <1>1, <1>3
<1>4. CASE AddMember
  <2>1. PICK name \in Keys, spelling \in Spellings : \E value \in valuesOf(name) :
            Edit([document EXCEPT !.members = Append(members, Member(name, spelling, value))])
    BY <1>4 DEF AddMember, Keys, Spellings
  <2>2. PICK value \in valuesOf(name) :
            Edit([document EXCEPT !.members = Append(members, Member(name, spelling, value))])
    BY <2>1
  <2>3. Member(name, spelling, value) \in AnyMember
    BY AMember DEF Held
  <2>4. Append(members, Member(name, spelling, value)) \in Seq(AnyMember)
    BY <1>1, <2>3
  <2> HIDE DEF Documents
  <2>5. QED
    BY <1>2, <1>3, <2>2, <2>4
<1>5. CASE ChangeMember
  <2>0. PICK i \in DOMAIN members : \E value \in valuesOf(members[i].key[1]) :
            Edit([document EXCEPT !.members[i].value = value])
    BY <1>5 DEF ChangeMember
  <2>1. PICK value \in valuesOf(members[i].key[1]) : Edit([document EXCEPT !.members[i].value = value])
    BY <2>0
  <2> DEFINE x == members[i]
             more == [members EXCEPT ![i] = [x EXCEPT !.value = value]]
  <2>2. x \in AnyMember
    BY <1>1
  <2>3. PICK spelling \in Spellings : x = Member(x.key[1], spelling, x.value)
    BY <2>2, MemberType
  <2>4. [x EXCEPT !.value = value] = Member(x.key[1], spelling, value)
    <3> DEFINE name == x.key[1]
               old == x.value
    <3>1. x = [key |-> <<name, spelling>>, value |-> old]
      <4>1. x = Member(name, spelling, old)
        BY <2>3
      <4> HIDE DEF x, name, old
      <4>2. QED
        BY <4>1 DEF Member
    <3> HIDE DEF x, name, old
    <3>2. [x EXCEPT !.value = value] = [key |-> <<name, spelling>>, value |-> value]
      BY <3>1
    <3>3. [x EXCEPT !.value = value] = Member(name, spelling, value)
      BY <3>2 DEF Member
    <3>4. QED
      BY <3>3 DEF name
  <2>5. [x EXCEPT !.value = value] \in AnyMember
    BY <2>1, <2>2, <2>4, MemberType, AMember DEF Held
  <2>6. more \in Seq(AnyMember)
    BY <1>1, <2>1, <2>5
  <2>7. [document EXCEPT !.members[i].value = value] = [document EXCEPT !.members = more]
    BY <1>1 DEF members
  <2> HIDE DEF Documents, more
  <2>8. QED
    BY <1>2, <1>3, <2>1, <2>6, <2>7
<1>6. CASE RemoveMember
  <2>1. PICK i \in DOMAIN members :
            Edit([document EXCEPT !.members = SubSeq(members, 1, i - 1) \o SubSeq(members, i + 1, Len(members))])
    BY <1>6 DEF RemoveMember
  <2>2. SubSeq(members, 1, i - 1) \in Seq(AnyMember) /\ SubSeq(members, i + 1, Len(members)) \in Seq(AnyMember)
    BY <1>1
  <2>3. SubSeq(members, 1, i - 1) \o SubSeq(members, i + 1, Len(members)) \in Seq(AnyMember)
    BY <2>2
  <2> HIDE DEF Documents
  <2>4. QED
    BY <1>2, <1>3, <2>1, <2>3
<1>7. CASE ChangeDocument
  <2>1. ASSUME NEW json \in {"null", "array", "malformed", "blank"}
        PROVE  [document EXCEPT !.json = json] \in Documents
    BY <1>1
  <2>2. ASSUME NEW trailing \in {"value", "garbage"}
        PROVE  [document EXCEPT !.trailing = trailing] \in Documents
    BY <1>1
  <2> HIDE DEF Documents
  <2>3. QED
    BY <1>2, <1>7, <2>1, <2>2 DEF ChangeDocument
<1>8. CASE ChangeEnvironment
  BY <1>8 DEF ChangeEnvironment, DocumentInv
<1>9. CASE UNCHANGED documentVars
  BY <1>9 DEF documentVars, DocumentInv
<1>10. QED
  BY <1>4, <1>5, <1>6, <1>7, <1>8, <1>9 DEF MCNext, Edits

-----------------------------------------------------------------------------
(* The member of a name that counts.                                       *)

\* A nonempty set of naturals has a least element.
LEMMA LeastElement ==
    ASSUME NEW T, T \subseteq Nat, T # {}
    PROVE  \E x \in T : \A y \in T : x <= y
<1>1. PICK x \in T : \A y \in T : ~ (<<y, x>> \in OpToRel(<, Nat))
  BY WFMin, NatLessThanWellFounded, Zenon
<1>2. ASSUME NEW y \in T PROVE ~ (y < x)
  BY <1>1, Zenon DEF OpToRel
<1>3. QED
  BY <1>2

LEMMA GreatestElement ==
    ASSUME NEW n \in Nat, NEW T, T \subseteq 1..n, T # {}
    PROVE  \E x \in T : \A y \in T : y <= x
<1> DEFINE U == {k \in 0..n : n - k \in T}
<1>1. U # {}
  <2>1. PICK x \in T : x \in 1..n
    OBVIOUS
  <2>2. n - x \in 0..n /\ n - (n - x) = x
    BY <2>1
  <2>3. QED
    BY <2>1, <2>2
<1>2. PICK k \in U : \A l \in U : k <= l
  <2>1. U \subseteq Nat
    OBVIOUS
  <2> HIDE DEF U
  <2>2. QED
    BY <1>1, <2>1, LeastElement
<1>3. ASSUME NEW y \in T PROVE y <= n - k
  <2>1. n - y \in 0..n /\ n - (n - y) = y
    OBVIOUS
  <2>2. n - y \in U
    BY <2>1
  <2>3. k <= n - y
    BY <1>2, <2>2
  <2>4. QED
    BY <1>2, <2>1, <2>3
<1>4. QED
  BY <1>2, <1>3

Last(name, i) == i \in DOMAIN members /\ members[i].key[1] = name /\ Counts(i)

\* A name that is given has one member that counts, and raw is its value.
LEMMA RawIsLast ==
    ASSUME members \in Seq(AnyMember), NEW name
    PROVE  IF Given(name)
           THEN \E i \in DOMAIN members :
                   /\ \A j : Last(name, j) <=> j = i
                   /\ raw(members, name) = members[i].value
           ELSE raw(members, name) = absent
<1> DEFINE named == {i \in DOMAIN members : members[i].key[1] = name}
<1>1. Len(members) \in Nat /\ DOMAIN members = 1..Len(members)
  OBVIOUS
<1>2. lastOf(members, name) = {i \in named : \A j \in named : j <= i}
  BY DEF lastOf
<1>3. ASSUME NEW i PROVE Last(name, i) <=> i \in lastOf(members, name)
  BY <1>1, <1>2 DEF Last, Counts
<1>4. CASE Given(name)
  <2>1. named # {} /\ named \subseteq 1..Len(members)
    BY <1>1, <1>4 DEF Given
  <2>2. PICK i \in named : \A j \in named : j <= i
    <3> HIDE DEF named
    <3>1. QED
      BY <1>1, <2>1, GreatestElement
  <2>3. lastOf(members, name) = {i}
    <3>1. \A j \in named : j \in 1..Len(members)
      BY <2>1
    <3> HIDE DEF named
    <3>2. QED
      BY <1>1, <1>2, <2>2, <3>1
  <2>4. (CHOOSE j \in {i} : TRUE) = i
    OBVIOUS
  <2>5. raw(members, name) = members[i].value
    BY <2>3, <2>4 DEF raw
  <2>6. \A j : Last(name, j) <=> j = i
    BY <1>3, <2>3
  <2>7. QED
    BY <1>4, <2>2, <2>5, <2>6
<1>5. CASE ~Given(name)
  <2>1. lastOf(members, name) = {}
    BY <1>2, <1>5 DEF Given
  <2>2. QED
    BY <1>5, <2>1 DEF raw
<1>6. QED
  BY <1>4, <1>5

-----------------------------------------------------------------------------
(* What the values are, name by name.                                      *)

NumberNames == {"context_budget", "generation_reserve"}
Common == {Other("null"), Other("object"), Other("repeats a key")}

LEMMA HeldIs ==
    /\ Held("endpoint") = Common \cup {String(text) : text \in Endpoints}
    /\ Held("model") = Common \cup {String(text) : text \in Texts} \cup {Number(1, TRUE), String(<<"x">>)}
    /\ Held("context_budget") = Common \cup Numbers \cup {String(<<"1">>)}
    /\ Held("generation_reserve") = Common \cup Numbers \cup {String(<<"1">>)}
    /\ Held("bearer_token_env") = Common \cup {String(text) : text \in Names}
    /\ Held("system_prompt") = Common \cup {String(text) : text \in Texts} \cup {Number(1, TRUE)}
    /\ Held("system_prompt_file") = Common \cup {String(text) : text \in Texts} \cup {Number(1, TRUE)}
<1>1. Held("endpoint") = Common \cup {String(text) : text \in Endpoints}
  BY DEF Held, valuesOf, Common
<1>2. Held("model") = Common \cup {String(text) : text \in Texts} \cup {Number(1, TRUE), String(<<"x">>)}
  BY DEF Held, valuesOf, Common
<1>3. /\ Held("context_budget") = Common \cup Numbers \cup {String(<<"1">>)}
      /\ Held("generation_reserve") = Common \cup Numbers \cup {String(<<"1">>)}
  BY DEF Held, valuesOf, Common
<1>4. Held("bearer_token_env") = Common \cup {String(text) : text \in Names}
  BY DEF Held, valuesOf, Common
<1>5. /\ Held("system_prompt") = Common \cup {String(text) : text \in Texts} \cup {Number(1, TRUE)}
      /\ Held("system_prompt_file") = Common \cup {String(text) : text \in Texts} \cup {Number(1, TRUE)}
  BY DEF Held, valuesOf, Common
<1>6. QED
  BY <1>1, <1>2, <1>3, <1>4, <1>5

LEMMA AllowedIs ==
    /\ DOMAIN Allowed = {"endpoint", "model", "system_prompt", "system_prompt_file", "bearer_token_env"}
    /\ Allowed["endpoint"] = {Url}
    /\ Allowed["model"] = {<<"x">>, <<" ", "x">>}
    /\ Allowed["system_prompt"] = Texts
    /\ Allowed["system_prompt_file"] = {<<" ", "x">>}
    /\ Allowed["bearer_token_env"] = {<<"x", "1">>, <<"x", "x", "x">>}
  BY DEF Allowed

LEMMA Tuples ==
    /\ Len(<<>>) = 0 /\ DOMAIN <<>> = {}
    /\ \A a : Len(<<a>>) = 1 /\ DOMAIN <<a>> = {1} /\ <<a>>[1] = a
    /\ \A a, b : Len(<<a, b>>) = 2 /\ DOMAIN <<a, b>> = {1, 2} /\ <<a, b>>[1] = a /\ <<a, b>>[2] = b
    /\ \A a, b, c : /\ Len(<<a, b, c>>) = 3 /\ DOMAIN <<a, b, c>> = {1, 2, 3}
                   /\ <<a, b, c>>[1] = a /\ <<a, b, c>>[2] = b /\ <<a, b, c>>[3] = c
<1>1. Len(<<>>) = 0 /\ DOMAIN <<>> = {}
  OBVIOUS
<1>2. \A a : Len(<<a>>) = 1 /\ DOMAIN <<a>> = {1} /\ <<a>>[1] = a
  OBVIOUS
<1>3. \A a, b : Len(<<a, b>>) = 2 /\ DOMAIN <<a, b>> = {1, 2} /\ <<a, b>>[1] = a /\ <<a, b>>[2] = b
  OBVIOUS
<1>4. \A a, b, c : /\ Len(<<a, b, c>>) = 3 /\ DOMAIN <<a, b, c>> = {1, 2, 3}
                   /\ <<a, b, c>>[1] = a /\ <<a, b, c>>[2] = b /\ <<a, b, c>>[3] = c
  OBVIOUS
<1>5. QED
  BY <1>1, <1>2, <1>3, <1>4

\* The values that are no strings.
LEMMA NotAString ==
    ASSUME NEW v \in Common \cup {absent, Number(1, TRUE)}
    PROVE  v.type # "string"
<1>1. \A type : Other(type).type = type
  BY DEF Other
<1>2. Number(1, TRUE).type = "number"
  BY DEF Number
<1>3. QED
  BY <1>1, <1>2 DEF Common, absent

LEMMA StringIs ==
    ASSUME NEW text
    PROVE  String(text).type = "string" /\ String(text).text = text /\ String(text) # absent
  BY DEF String, absent, Other

LEMMA EndpointsValid ==
    ASSUME NEW text \in Endpoints
    PROVE  validateEndpoint(text) <=> text = Url
<1>1. validateEndpoint(Url)
  <2>1. partsOf(Url) = {"http:", "//", "host"}
    BY DEF Url, partsOf
  <2>2. Url # <<>> /\ Url[1] = "http:"
    BY DEF Url
  <2>3. QED
    BY <2>1, <2>2 DEF validateEndpoint
<1>2. ~validateEndpoint(<<"//", "host">>)
  BY DEF validateEndpoint
<1>3. ~validateEndpoint(<<"http:", "host">>)
  <2>1. "//" \notin partsOf(<<"http:", "host">>)
    BY DEF partsOf
  <2>2. QED
    BY <2>1 DEF validateEndpoint
<1>4. ~validateEndpoint(<<"http:", "//">>)
  <2>1. "host" \notin partsOf(<<"http:", "//">>)
    BY DEF partsOf
  <2>2. QED
    BY <2>1 DEF validateEndpoint
<1>5. ~validateEndpoint(<<"http:", "//", "user@", "host">>)
  <2>1. "user@" \in partsOf(<<"http:", "//", "user@", "host">>)
    BY DEF partsOf
  <2>2. QED
    BY <2>1 DEF validateEndpoint
<1>6. ~validateEndpoint(<<"http:", "//", "host", "?query">>)
  <2>1. "?query" \in partsOf(<<"http:", "//", "host", "?query">>)
    BY DEF partsOf
  <2>2. QED
    BY <2>1 DEF validateEndpoint
<1>7. ~validateEndpoint(<<"http:", "//", "host", "#fragment">>)
  <2>1. "#fragment" \in partsOf(<<"http:", "//", "host", "#fragment">>)
    BY DEF partsOf
  <2>2. QED
    BY <2>1 DEF validateEndpoint
<1>8. ~validateEndpoint(<<"ftp:", "//", "host">>)
  BY DEF validateEndpoint
<1>9. ~validateEndpoint(<<"http:", "//", "%", "host">>)
  <2>1. "%" \in partsOf(<<"http:", "//", "%", "host">>)
    BY DEF partsOf
  <2>2. QED
    BY <2>1 DEF validateEndpoint
<1>10. QED
  BY <1>1, <1>2, <1>3, <1>4, <1>5, <1>6, <1>7, <1>8, <1>9, Zenon DEF Endpoints

LEMMA TextsRequired ==
    /\ parseRequiredString(String(Url)) /\ parseRequiredString(String(<<"x">>))
    /\ parseRequiredString(String(<<" ", "x">>)) /\ parseRequiredString(String(<<"x", "1">>))
    /\ ~parseRequiredString(String(<<>>)) /\ ~parseRequiredString(String(<<" ">>))
<1> DEFINE Blank(text) == ~\E i \in DOMAIN text : text[i] # " "
<1>1. \A text : parseRequiredString(String(text)) <=> ~Blank(text)
  BY StringIs DEF parseRequiredString, parseString
<1>2. \A text : (\E i \in DOMAIN text : text[i] # " ") <=> ~Blank(text)
  OBVIOUS
<1>3. ~Blank(Url)
  <2>1. 1 \in DOMAIN Url /\ Url[1] # " "
    BY DEF Url
  <2>2. QED
    BY <1>2, <2>1, Zenon
<1>4. ~Blank(<<"x">>) /\ ~Blank(<<"x", "1">>)
  <2>1. /\ 1 \in DOMAIN <<"x">> /\ <<"x">>[1] # " "
        /\ 1 \in DOMAIN <<"x", "1">> /\ <<"x", "1">>[1] # " "
    OBVIOUS
  <2>2. QED
    BY <1>2, <2>1, Zenon
<1>5. ~Blank(<<" ", "x">>)
  <2>1. 2 \in DOMAIN <<" ", "x">> /\ <<" ", "x">>[2] # " "
    OBVIOUS
  <2>2. QED
    BY <1>2, <2>1, Zenon
<1>6. Blank(<<>>) /\ Blank(<<" ">>)
  <2>1. DOMAIN <<>> = {} /\ DOMAIN <<" ">> = {1} /\ <<" ">>[1] = " "
    OBVIOUS
  <2>2. QED
    BY <2>1, Zenon
<1> HIDE DEF Blank
<1>7. QED
  BY <1>1, <1>2, <1>3, <1>4, <1>5, <1>6, Zenon

LEMMA NamesValid ==
    ASSUME NEW name \in Names
    PROVE  validEnvName(name) <=> name = <<"x", "1">>
<1>0. maxEnvName = 2 /\ maxTokenBytes = 2
  BY MCStartupAssumption
<1> USE <1>0
<1>1. ~validEnvName(<<>>)
  BY Tuples DEF validEnvName
<1>2. ~validEnvName(<<" ">>)
  BY Tuples DEF validEnvName
<1>3. validEnvName(<<"x", "1">>)
  BY Tuples DEF validEnvName
<1>4. ~validEnvName(<<"1", "x">>)
  BY Tuples DEF validEnvName
<1>5. ~validEnvName(<<"x", "-">>)
  BY Tuples DEF validEnvName
<1>6. ~validEnvName(<<"x", "x", "x">>)
  BY Tuples DEF validEnvName
<1>7. QED
  BY <1>1, <1>2, <1>3, <1>4, <1>5, <1>6, Zenon DEF Names

LEMMA TokensValid ==
    ASSUME environment \in {{}, {<<"x">>}} \cup {{token} : token \in Tokens}
    PROVE  (\E value \in environment : value # <<>> /\ validateBearerToken(value)) <=>
               environment \in {{<<"x">>}, {<<"x", "~">>}}
<1>0. maxEnvName = 2 /\ maxTokenBytes = 2
  BY MCStartupAssumption
<1> USE <1>0
<1> DEFINE Good(value) == value # <<>> /\ validateBearerToken(value)
<1>1. Good(<<"x">>)
  <2>1. /\ Len(<<"x">>) <= maxTokenBytes /\ DOMAIN <<"x">> = {1} /\ <<"x">> # <<>>
        /\ <<"x">>[1] \notin {" ", "LF"}
    OBVIOUS
  <2>2. QED
    BY <2>1, Zenon DEF validateBearerToken
<1>2. ~Good(<<>>)
  OBVIOUS
<1>3. Good(<<"x", "~">>)
  <2>1. /\ Len(<<"x", "~">>) <= maxTokenBytes /\ DOMAIN <<"x", "~">> = {1, 2} /\ <<"x", "~">> # <<>>
        /\ <<"x", "~">>[1] \notin {" ", "LF"} /\ <<"x", "~">>[2] \notin {" ", "LF"}
    OBVIOUS
  <2>2. QED
    BY <2>1, Zenon DEF validateBearerToken
<1>4. ~Good(<<"x", "LF">>)
  <2>1. 2 \in DOMAIN <<"x", "LF">> /\ <<"x", "LF">>[2] \in {" ", "LF"}
    OBVIOUS
  <2>2. QED
    BY <2>1, Zenon DEF validateBearerToken
<1>5. ~Good(<<"x", "x", "x">>)
  BY Tuples DEF validateBearerToken
<1>6. <<"x">> # <<>> /\ <<"x", "~">> # <<>> /\ <<"x", "LF">> # <<"x", "~">> /\ <<"x", "LF">> # <<"x">>
      /\ <<"x", "x", "x">> # <<"x">> /\ <<"x", "x", "x">> # <<"x", "~">>
  OBVIOUS
<1> HIDE DEF Good
<1>7. (\E value \in environment : Good(value)) <=> environment \in {{<<"x">>}, {<<"x", "~">>}}
  BY <1>1, <1>2, <1>3, <1>4, <1>5, <1>6, Zenon DEF Tokens
<1>8. QED
  BY <1>7, Zenon DEF Good

-----------------------------------------------------------------------------
(* What the parsers of config.go make of the values.                       *)

\* A value that is given is one the documentation allows.
Permitted(v, name) == v # absent => v.type = "string" /\ v.text \in Allowed[name]

LEMMA HeldTypes ==
    ASSUME NEW name \in fileConfig, NEW v \in Held(name)
    PROVE  v # absent
<1>1. \A type : Other(type).type = type
  BY DEF Other
<1>2. \A text : String(text).type = "string"
  BY DEF String
<1>3. \A n, whole : Number(n, whole).type = "number"
  BY DEF Number
<1>4. absent.type = "absent"
  BY <1>1 DEF absent
<1>5. \A u \in Common : u.type \in {"null", "object", "repeats a key"}
  BY <1>1 DEF Common
<1>6. \A u \in Numbers : u.type = "number"
  BY <1>3 DEF Numbers
<1>7. v.type \in {"null", "object", "repeats a key", "string", "number"}
  <2> DEFINE T(u) == u.type \in {"null", "object", "repeats a key", "string", "number"}
  <2>1. /\ \A u \in Common \cup Numbers : T(u)
        /\ \A text : T(String(text))
        /\ T(Number(1, TRUE))
    BY <1>2, <1>3, <1>5, <1>6
  <2> HIDE DEF T
  <2>2. \A u \in Held("endpoint") : T(u)
    BY <2>1, HeldIs
  <2>3. ASSUME NEW u \in Held("model") PROVE T(u)
    <3>1. u \in Common \/ (\E text : u = String(text)) \/ u = Number(1, TRUE)
      BY Zenon, HeldIs
    <3>2. QED
      BY <2>1, <3>1
  <2>4. \A u \in Held("context_budget") \cup Held("generation_reserve") : T(u)
    BY <2>1, HeldIs
  <2>5. \A u \in Held("bearer_token_env") : T(u)
    BY <2>1, HeldIs
  <2>6. ASSUME NEW u \in Held("system_prompt") \cup Held("system_prompt_file") PROVE T(u)
    <3>1. u \in Common \/ (\E text : u = String(text)) \/ u = Number(1, TRUE)
      BY Zenon, HeldIs
    <3>2. QED
      BY <2>1, <3>1
  <2>7. T(v)
    BY <2>2, <2>3, <2>4, <2>5, <2>6 DEF fileConfig, required
  <2>8. QED
    BY <2>7 DEF T
<1>8. QED
  BY <1>4, <1>7

LEMMA EndpointRule ==
    ASSUME NEW v \in Held("endpoint") \cup {absent}
    PROVE  parseRequiredString(v) /\ validateEndpoint(v.text) <=> v # absent /\ Permitted(v, "endpoint")
<1>1. CASE v \in Common \cup {absent}
  BY <1>1, NotAString DEF parseRequiredString, parseString, Permitted
<1>2. CASE \E text \in Endpoints : v = String(text)
  <2>1. PICK text \in Endpoints : v = String(text)
    BY <1>2
  <2>2. v.type = "string" /\ v.text = text /\ v # absent
    BY <2>1, StringIs
  <2>3. validateEndpoint(v.text) <=> v.text = Url
    BY <2>2, EndpointsValid
  <2>4. v.text = Url => parseRequiredString(v)
    BY <2>1, <2>2, TextsRequired
  <2>5. QED
    BY <2>2, <2>3, <2>4, AllowedIs DEF Permitted
<1>3. QED
  BY <1>1, <1>2, HeldIs

LEMMA ModelRule ==
    ASSUME NEW v \in Held("model") \cup {absent}
    PROVE  parseRequiredString(v) <=> v # absent /\ Permitted(v, "model")
<1>1. CASE v \in Common \cup {absent, Number(1, TRUE)}
  BY <1>1, NotAString DEF parseRequiredString, parseString, Permitted
<1>2. CASE \E text \in Texts \cup {<<"x">>} : v = String(text)
  <2>1. PICK text \in Texts \cup {<<"x">>} : v = String(text)
    BY <1>2
  <2>2. v.type = "string" /\ v.text = text /\ v # absent
    BY <2>1, StringIs
  <2>3. parseRequiredString(v) <=> text \in {<<"x">>, <<" ", "x">>}
    <3>1. <<>> \notin {<<"x">>, <<" ", "x">>} /\ <<" ">> \notin {<<"x">>, <<" ", "x">>}
      BY Tuples
    <3>2. QED
      BY <2>1, <3>1, TextsRequired, Zenon DEF Texts
  <2>4. QED
    BY <2>2, <2>3, AllowedIs DEF Permitted
<1>3. QED
  BY <1>1, <1>2, HeldIs

LEMMA PromptRule ==
    ASSUME NEW v \in Held("system_prompt") \cup {absent}
    PROVE  optional(v, parseString(v)) <=> Permitted(v, "system_prompt")
<1>1. CASE v \in Common \cup {absent, Number(1, TRUE)}
  BY <1>1, NotAString DEF parseString, Permitted, optional
<1>2. CASE \E text \in Texts : v = String(text)
  <2>1. PICK text \in Texts : v = String(text)
    BY <1>2
  <2>2. v.type = "string" /\ v.text = text /\ v # absent
    BY <2>1, StringIs
  <2>3. QED
    BY <2>2, AllowedIs DEF parseString, Permitted, optional
<1>3. QED
  BY <1>1, <1>2, HeldIs

LEMMA PromptFileRule ==
    ASSUME NEW v \in Held("system_prompt_file") \cup {absent}
    PROVE  optional(v, parseRequiredString(v)) <=> Permitted(v, "system_prompt_file")
<1>1. CASE v \in Common \cup {absent, Number(1, TRUE)}
  BY <1>1, NotAString DEF parseRequiredString, parseString, Permitted, optional
<1>2. CASE \E text \in Texts : v = String(text)
  <2>1. PICK text \in Texts : v = String(text)
    BY <1>2
  <2>2. v.type = "string" /\ v.text = text /\ v # absent
    BY <2>1, StringIs
  <2>3. parseRequiredString(v) <=> text = <<" ", "x">>
    <3>1. <<>> # <<" ", "x">> /\ <<" ">> # <<" ", "x">>
      BY Tuples
    <3>2. QED
      BY <2>1, <3>1, TextsRequired, Zenon DEF Texts
  <2>4. QED
    BY <2>2, <2>3, AllowedIs DEF Permitted, optional
<1>3. QED
  BY <1>1, <1>2, HeldIs

LEMMA BearerRule ==
    ASSUME NEW v \in Held("bearer_token_env") \cup {absent},
           environment \in {{}, {<<"x">>}} \cup {{token} : token \in Tokens}
    PROVE  optional(v, parseRequiredString(v) /\ resolveBearerToken(v.text, environment)) <=>
              /\ Permitted(v, "bearer_token_env")
              /\ v # absent => v.text = <<"x", "1">> /\ environment \in {{<<"x">>}, {<<"x", "~">>}}
<1>1. CASE v \in Common \cup {absent}
  BY <1>1, NotAString DEF parseRequiredString, parseString, Permitted, optional
<1>2. CASE \E text \in Names : v = String(text)
  <2>1. PICK text \in Names : v = String(text)
    BY <1>2
  <2>2. v.type = "string" /\ v.text = text /\ v # absent
    BY <2>1, StringIs
  <2>3. validEnvName(v.text) <=> v.text = <<"x", "1">>
    BY <2>2, NamesValid
  <2>4. v.text = <<"x", "1">> => parseRequiredString(v)
    BY <2>1, <2>2, TextsRequired
  <2>5. resolveBearerToken(v.text, environment) <=>
            v.text = <<"x", "1">> /\ environment \in {{<<"x">>}, {<<"x", "~">>}}
    BY <2>3, TokensValid DEF resolveBearerToken
  <2>6. QED
    BY <2>2, <2>4, <2>5, AllowedIs DEF Permitted, optional
<1>3. QED
  BY <1>1, <1>2, HeldIs

LEMMA NumberRule ==
    ASSUME NEW name \in NumberNames, NEW v \in Held(name) \cup {absent}
    PROVE  /\ v.int \in Int /\ v.whole \in BOOLEAN
           /\ parsePositiveInt(v) <=> v.whole /\ v.int \in 1..MaxInt64
<1>1. CASE v \in Common \cup {absent}
  <2>1. \A type : Other(type).type = type /\ Other(type).int = 0 /\ Other(type).whole = FALSE
    BY DEF Other
  <2>2. PICK type : v = Other(type)
    BY <1>1 DEF Common, absent
  <2>3. v.int = 0 /\ v.whole = FALSE
    BY <2>1, <2>2, Zenon
  <2>4. ~parsePositiveInt(v)
    BY <2>3, Zenon DEF parsePositiveInt
  <2>5. v.int \in Int
    BY <2>3
  <2>6. v.whole \in BOOLEAN /\ ~v.whole
    BY <2>3, Zenon
  <2>7. QED
    BY <2>4, <2>5, <2>6, Zenon
<1>2. CASE v = String(<<"1">>)
  BY <1>2 DEF String, parsePositiveInt
<1>3. CASE v \in Numbers
  <2>1. PICK n \in Int, whole \in BOOLEAN : v = Number(n, whole)
    <3>1. \A n \in {-1, 0, 1, 2, MaxInt64, MaxInt64 + 1} : n \in Int
      BY ConfigAssumption
    <3>2. QED
      BY <1>3, <3>1 DEF Numbers
  <2>2. v.type = "number" /\ v.int = n /\ v.whole = whole
    BY <2>1 DEF Number
  <2>3. QED
    BY <2>2 DEF parsePositiveInt
<1>4. QED
  BY <1>1, <1>2, <1>3, HeldIs DEF NumberNames

-----------------------------------------------------------------------------
(* Member by member.                                                       *)

LEMMA RawHeld ==
    ASSUME members \in Seq(AnyMember), NEW name
    PROVE  /\ raw(members, name) \in Held(name) \cup {absent}
           /\ name \in fileConfig => (Given(name) <=> raw(members, name) # absent)
<1>1. CASE Given(name)
  <2>1. PICK i \in DOMAIN members :
           /\ \A j : Last(name, j) <=> j = i
           /\ raw(members, name) = members[i].value
    BY <1>1, RawIsLast
  <2>2. members[i] \in AnyMember /\ members[i].key[1] = name
    BY <2>1 DEF Last
  <2>3. raw(members, name) \in Held(name)
    BY <2>1, <2>2, MemberType
  <2>4. QED
    BY <1>1, <2>3, HeldTypes
<1>2. CASE ~Given(name)
  BY <1>2, RawIsLast
<1>3. QED
  BY <1>1, <1>2

LEMMA RuleOfName ==
    ASSUME members \in Seq(AnyMember), NEW name \in fileConfig
    PROVE  Permitted(raw(members, name), name) <=>
              \A i \in DOMAIN members :
                 Counts(i) /\ members[i].key[1] = name =>
                     /\ members[i].value.type = "string"
                     /\ members[i].value.text \in Allowed[name]
<1>1. CASE Given(name)
  <2>1. PICK i \in DOMAIN members :
           /\ \A j : Last(name, j) <=> j = i
           /\ raw(members, name) = members[i].value
    BY <1>1, RawIsLast
  <2>2. raw(members, name) # absent
    BY <1>1, RawHeld
  <2>3. \A j \in DOMAIN members : Counts(j) /\ members[j].key[1] = name <=> j = i
    BY <2>1 DEF Last
  <2>4. QED
    BY <2>1, <2>2, <2>3, Zenon DEF Permitted
<1>2. CASE ~Given(name)
  BY <1>2, RawIsLast DEF Given, Permitted
<1>3. QED
  BY <1>1, <1>2

LEMMA NumberOfName ==
    ASSUME members \in Seq(AnyMember), NEW name \in NumberNames
    PROVE  NumberOf(name) = IF raw(members, name).whole THEN {raw(members, name).int} ELSE {}
<1>1. CASE Given(name)
  <2>1. PICK i \in DOMAIN members :
           /\ \A j : Last(name, j) <=> j = i
           /\ raw(members, name) = members[i].value
    BY <1>1, RawIsLast
  <2>2. \A j \in DOMAIN members : Counts(j) /\ members[j].key[1] = name <=> j = i
    BY <2>1 DEF Last
  <2>3. {j \in DOMAIN members : Counts(j) /\ members[j].key[1] = name /\ members[j].value.whole} =
            IF members[i].value.whole THEN {i} ELSE {}
    BY <2>2
  <2>4. QED
    BY <2>1, <2>3 DEF NumberOf
<1>2. CASE ~Given(name)
  <2>1. absent.whole = FALSE
    BY DEF absent, Other
  <2>2. QED
    BY <1>2, <2>1, RawIsLast DEF NumberOf, Given
<1>3. QED
  BY <1>1, <1>2

-----------------------------------------------------------------------------
(* The whole document.                                                     *)

\* What the rules ask of the document as a whole.
Shaped ==
    /\ document.trailing = "none"
    /\ \A i, j \in DOMAIN members : members[i].key = members[j].key => i = j
    /\ \A i \in DOMAIN members :
          members[i].value.type # "repeats a key" /\ members[i].key[1] \in fileConfig

LEMMA WellFormedIsShaped ==
    ASSUME DocumentInv, document.json = "object"
    PROVE  wellFormed(document) <=> Shaped
<1>1. decoded(document) = members /\ members \in Seq(AnyMember)
  BY DEF decoded, members, DocumentInv
<1>2. ~rejectDuplicateKeys(members) <=>
          /\ \A i, j \in DOMAIN members : members[i].key = members[j].key => i = j
          /\ \A i \in DOMAIN members : members[i].value.type # "repeats a key"
  <2>1. \A i, j \in DOMAIN members : i \in Int /\ j \in Int
    BY <1>1
  <2>2. (\E i, j \in DOMAIN members : i < j /\ members[i].key = members[j].key) <=>
            ~\A i, j \in DOMAIN members : members[i].key = members[j].key => i = j
    <3> DEFINE K(i) == members[i].key
               D == DOMAIN members
    <3>1. D \subseteq Int
      BY <2>1
    <3> HIDE DEF D, K
    <3>2. (\E i, j \in D : i < j /\ K(i) = K(j)) <=> ~\A i, j \in D : K(i) = K(j) => i = j
      BY <3>1
    <3>3. QED
      BY <3>2, Zenon DEF D, K
  <2>3. QED
    BY <2>2, Zenon DEF rejectDuplicateKeys
<1>3. ~unknownField(members) <=> \A i \in DOMAIN members : members[i].key[1] \in fileConfig
  BY DEF unknownField
<1>4. QED
  BY <1>1, <1>2, <1>3, Zenon DEF wellFormed, Shaped

\* What they and the limits ask of the members.
MembersFollow ==
    /\ \A i \in DOMAIN members :
          Counts(i) /\ members[i].key[1] \in DOMAIN Allowed =>
              /\ members[i].value.type = "string"
              /\ members[i].value.text \in Allowed[members[i].key[1]]
    /\ \A name \in required : Given(name)
    /\ \E budget \in NumberOf("context_budget"), reserve \in NumberOf("generation_reserve") :
          0 < reserve /\ reserve < budget /\ budget <= MaxInt64
    /\ ~(Given("system_prompt") /\ Given("system_prompt_file"))
    /\ Given("bearer_token_env") =>
          /\ raw(members, "bearer_token_env").text = <<"x", "1">>
          /\ environment \in {{<<"x">>}, {<<"x", "~">>}}

LEMMA AllowedByName ==
    ASSUME members \in Seq(AnyMember)
    PROVE  (\A i \in DOMAIN members :
               Counts(i) /\ members[i].key[1] \in DOMAIN Allowed =>
                   /\ members[i].value.type = "string"
                   /\ members[i].value.text \in Allowed[members[i].key[1]]) <=>
           \A name \in DOMAIN Allowed : Permitted(raw(members, name), name)
<1> DEFINE Right(i, name) == /\ members[i].value.type = "string"
                             /\ members[i].value.text \in Allowed[name]
<1>1. DOMAIN Allowed \subseteq fileConfig
  BY AllowedIs DEF fileConfig, required
<1>2. \A name \in DOMAIN Allowed : Permitted(raw(members, name), name) <=>
          \A i \in DOMAIN members : Counts(i) /\ members[i].key[1] = name => Right(i, name)
  BY <1>1, RuleOfName
<1> HIDE DEF Right
<1>3. (\A i \in DOMAIN members :
          Counts(i) /\ members[i].key[1] \in DOMAIN Allowed => Right(i, members[i].key[1])) <=>
      \A name \in DOMAIN Allowed : Permitted(raw(members, name), name)
  BY <1>2, Zenon
<1>4. QED
  BY <1>3, Zenon DEF Right

LEMMA MembersAreRightIsFollow ==
    ASSUME DocumentInv
    PROVE  membersAreRight(members, environment) <=> MembersFollow
<1>1. members \in Seq(AnyMember) /\ environment \in {{}, {<<"x">>}} \cup {{token} : token \in Tokens}
  BY DEF DocumentInv, members
<1> DEFINE e == raw(members, "endpoint")
           m == raw(members, "model")
           b == raw(members, "context_budget")
           r == raw(members, "generation_reserve")
           s == raw(members, "system_prompt")
           f == raw(members, "system_prompt_file")
           t == raw(members, "bearer_token_env")
<1>2. /\ e \in Held("endpoint") \cup {absent} /\ m \in Held("model") \cup {absent}
      /\ b \in Held("context_budget") \cup {absent} /\ r \in Held("generation_reserve") \cup {absent}
      /\ s \in Held("system_prompt") \cup {absent} /\ f \in Held("system_prompt_file") \cup {absent}
      /\ t \in Held("bearer_token_env") \cup {absent}
  BY <1>1, RawHeld
<1>3. /\ Given("endpoint") <=> e # absent
      /\ Given("model") <=> m # absent
      /\ Given("context_budget") <=> b # absent
      /\ Given("generation_reserve") <=> r # absent
      /\ Given("system_prompt") <=> s # absent
      /\ Given("system_prompt_file") <=> f # absent
      /\ Given("bearer_token_env") <=> t # absent
  <2>1. {"endpoint", "model", "context_budget", "generation_reserve", "system_prompt",
         "system_prompt_file", "bearer_token_env"} = fileConfig
    BY DEF fileConfig, required
  <2>2. \A name \in fileConfig : Given(name) <=> raw(members, name) # absent
    BY <1>1, RawHeld
  <2>3. QED
    BY <2>1, <2>2
<1>4. /\ NumberOf("context_budget") = IF b.whole THEN {b.int} ELSE {}
      /\ NumberOf("generation_reserve") = IF r.whole THEN {r.int} ELSE {}
  BY <1>1, NumberOfName DEF NumberNames
<1>5. membersAreRight(members, environment) <=>
         /\ parseRequiredString(e) /\ validateEndpoint(e.text)
         /\ parseRequiredString(m)
         /\ parsePositiveInt(b) /\ parsePositiveInt(r) /\ r.int < b.int
         /\ absent \in {s, f}
         /\ optional(s, parseString(s))
         /\ optional(f, parseRequiredString(f))
         /\ optional(t, parseRequiredString(t) /\ resolveBearerToken(t.text, environment))
  BY DEF membersAreRight
<1>6. MembersFollow <=>
         /\ Permitted(e, "endpoint") /\ Permitted(m, "model") /\ Permitted(s, "system_prompt")
         /\ Permitted(f, "system_prompt_file") /\ Permitted(t, "bearer_token_env")
         /\ e # absent /\ m # absent /\ b # absent /\ r # absent
         /\ \E budget \in NumberOf("context_budget"), reserve \in NumberOf("generation_reserve") :
                0 < reserve /\ reserve < budget /\ budget <= MaxInt64
         /\ s = absent \/ f = absent
         /\ t # absent => t.text = <<"x", "1">> /\ environment \in {{<<"x">>}, {<<"x", "~">>}}
  <2>1. (\A name \in DOMAIN Allowed : Permitted(raw(members, name), name)) <=>
            /\ Permitted(e, "endpoint") /\ Permitted(m, "model") /\ Permitted(s, "system_prompt")
            /\ Permitted(f, "system_prompt_file") /\ Permitted(t, "bearer_token_env")
    BY AllowedIs
  <2>2. (\A name \in required : Given(name)) <=> e # absent /\ m # absent /\ b # absent /\ r # absent
    BY <1>3 DEF required
  <2> HIDE DEF e, m, b, r, s, f, t
  <2>3. Given("bearer_token_env") =>
           /\ raw(members, "bearer_token_env").text = t.text
    BY DEF t
  <2>4. QED
    BY <1>1, <1>3, <2>1, <2>2, <2>3, AllowedByName, Zenon DEF MembersFollow
<1> HIDE DEF e, m, b, r, s, f, t
<1>7. /\ parseRequiredString(e) /\ validateEndpoint(e.text) <=> e # absent /\ Permitted(e, "endpoint")
      /\ parseRequiredString(m) <=> m # absent /\ Permitted(m, "model")
      /\ optional(s, parseString(s)) <=> Permitted(s, "system_prompt")
      /\ optional(f, parseRequiredString(f)) <=> Permitted(f, "system_prompt_file")
  BY <1>2, EndpointRule, ModelRule, PromptRule, PromptFileRule, Zenon
<1>8. optional(t, parseRequiredString(t) /\ resolveBearerToken(t.text, environment)) <=>
         /\ Permitted(t, "bearer_token_env")
         /\ t # absent => t.text = <<"x", "1">> /\ environment \in {{<<"x">>}, {<<"x", "~">>}}
  BY <1>1, <1>2, BearerRule, Zenon
<1>9. /\ b.int \in Int /\ b.whole \in BOOLEAN /\ (parsePositiveInt(b) <=> b.whole /\ b.int \in 1..MaxInt64)
      /\ r.int \in Int /\ r.whole \in BOOLEAN /\ (parsePositiveInt(r) <=> r.whole /\ r.int \in 1..MaxInt64)
  BY <1>2, NumberRule, Zenon DEF NumberNames
<1>10. b.whole => b # absent
  BY DEF absent, Other
<1>11. r.whole => r # absent
  BY DEF absent, Other
<1>12. parsePositiveInt(b) /\ parsePositiveInt(r) /\ r.int < b.int <=>
         \E budget \in NumberOf("context_budget"), reserve \in NumberOf("generation_reserve") :
            0 < reserve /\ reserve < budget /\ budget <= MaxInt64
  <2>1. (\E budget \in NumberOf("context_budget"), reserve \in NumberOf("generation_reserve") :
            0 < reserve /\ reserve < budget /\ budget <= MaxInt64) <=>
        b.whole /\ r.whole /\ 0 < r.int /\ r.int < b.int /\ b.int <= MaxInt64
    BY <1>4
  <2>2. MaxInt64 \in Nat
    BY ConfigAssumption
  <2>3. b.int \in 1..MaxInt64 /\ r.int \in 1..MaxInt64 /\ r.int < b.int <=>
            0 < r.int /\ r.int < b.int /\ b.int <= MaxInt64
    BY <1>9, <2>2
  <2>4. QED
    BY <1>9, <2>1, <2>3, Zenon
<1>13. (\E budget \in NumberOf("context_budget"), reserve \in NumberOf("generation_reserve") :
            0 < reserve /\ reserve < budget /\ budget <= MaxInt64) => b # absent /\ r # absent
  BY <1>4, <1>10, <1>11
<1>14. absent \in {s, f} <=> s = absent \/ f = absent
  OBVIOUS
<1>15. QED
  BY <1>5, <1>6, <1>7, <1>8, <1>12, <1>13, <1>14, Zenon

LEMMA BearerLimits ==
    ASSUME DocumentInv, Given("bearer_token_env")
    PROVE  /\ \A i \in DOMAIN members :
                 Counts(i) /\ members[i].key[1] = "bearer_token_env" =>
                     /\ members[i].value.type = "string"
                     /\ members[i].value.text \in Allowed["bearer_token_env"]
                     /\ Len(members[i].value.text) <= maxEnvName
           /\ environment \in {{token} : token \in AllowedTokens}
           /\ \A token \in environment : Len(token) <= maxTokenBytes
           <=>
           /\ Permitted(raw(members, "bearer_token_env"), "bearer_token_env")
           /\ raw(members, "bearer_token_env").text = <<"x", "1">>
           /\ environment \in {{<<"x">>}, {<<"x", "~">>}}
<1>1. members \in Seq(AnyMember) /\ maxEnvName = 2 /\ maxTokenBytes = 2
  BY MCStartupAssumption DEF DocumentInv, members
<1>2. PICK i \in DOMAIN members :
         /\ \A j : Last("bearer_token_env", j) <=> j = i
         /\ raw(members, "bearer_token_env") = members[i].value
  BY <1>1, RawIsLast
<1>3. \A j \in DOMAIN members : Counts(j) /\ members[j].key[1] = "bearer_token_env" <=> j = i
  BY <1>2 DEF Last
<1> DEFINE v == members[i].value
<1>4. v # absent
  BY <1>1, <1>2, RawHeld DEF fileConfig
<1>5. Len(<<"x", "1">>) <= maxEnvName /\ ~(Len(<<"x", "x", "x">>) <= maxEnvName)
  BY <1>1, Tuples
<1>6. \A text \in {<<"x", "1">>, <<"x", "x", "x">>} : Len(text) <= maxEnvName <=> text = <<"x", "1">>
  BY <1>5, Zenon
<1>7. /\ environment \in {{token} : token \in AllowedTokens}
      /\ \A token \in environment : Len(token) <= maxTokenBytes
      <=> environment \in {{<<"x">>}, {<<"x", "~">>}}
  <2>1. Len(<<"x">>) <= maxTokenBytes /\ Len(<<"x", "~">>) <= maxTokenBytes
        /\ ~(Len(<<"x", "x", "x">>) <= maxTokenBytes)
    BY <1>1, Tuples
  <2>2. QED
    BY <2>1, Zenon DEF AllowedTokens
<1> HIDE DEF v
<1>8. Permitted(v, "bearer_token_env") <=>
          v.type = "string" /\ v.text \in {<<"x", "1">>, <<"x", "x", "x">>}
  BY <1>4, AllowedIs, Zenon DEF Permitted
<1>9. v.type = "string" /\ v.text \in Allowed["bearer_token_env"] /\ Len(v.text) <= maxEnvName
      <=> Permitted(v, "bearer_token_env") /\ v.text = <<"x", "1">>
  BY <1>6, <1>8, AllowedIs, Zenon
<1>10. QED
  BY <1>2, <1>3, <1>7, <1>9, Zenon DEF v

\* The values that follow the rules within the limits are those Parse accepts.
LEMMA ValuesWithinLimits ==
    ASSUME DocumentInv
    PROVE  ValuesFollow /\ WithinLimits <=> MembersFollow
<1>1. members \in Seq(AnyMember)
  BY DEF DocumentInv, members
<1>2. /\ \E budget \in NumberOf("context_budget"), reserve \in NumberOf("generation_reserve") :
            0 < reserve /\ reserve < budget
      /\ \A budget \in NumberOf("context_budget") : budget <= MaxInt64
      <=>
      \E budget \in NumberOf("context_budget"), reserve \in NumberOf("generation_reserve") :
            0 < reserve /\ reserve < budget /\ budget <= MaxInt64
  BY <1>1, NumberOfName DEF NumberNames
<1> DEFINE RuleOf(i, name) == /\ members[i].value.type = "string"
                              /\ members[i].value.text \in Allowed[name]
           Rules == \A i \in DOMAIN members :
                       Counts(i) /\ members[i].key[1] \in DOMAIN Allowed => RuleOf(i, members[i].key[1])
           Short == \A i \in DOMAIN members :
                       Counts(i) /\ members[i].key[1] = "bearer_token_env" =>
                           Len(members[i].value.text) <= maxEnvName
           Sent == environment \in {{token} : token \in AllowedTokens}
           Fits == \A token \in environment : Len(token) <= maxTokenBytes
           Taken == /\ raw(members, "bearer_token_env").text = <<"x", "1">>
                    /\ environment \in {{<<"x">>}, {<<"x", "~">>}}
<1>3. ASSUME Rules, Given("bearer_token_env") PROVE Short /\ Sent /\ Fits <=> Taken
  <2>1. "bearer_token_env" \in DOMAIN Allowed
    BY AllowedIs
  <2>2. \A i \in DOMAIN members :
           Counts(i) /\ members[i].key[1] = "bearer_token_env" => RuleOf(i, "bearer_token_env")
    BY <1>3, <2>1
  <2>3. Permitted(raw(members, "bearer_token_env"), "bearer_token_env")
    BY <1>1, <1>3, <2>1, AllowedByName
  <2>4. QED
    BY <1>3, <2>2, <2>3, BearerLimits, Zenon
<1>4. ValuesFollow <=>
         /\ Rules /\ \A name \in required : Given(name)
         /\ \E budget \in NumberOf("context_budget"), reserve \in NumberOf("generation_reserve") :
                0 < reserve /\ reserve < budget
         /\ ~(Given("system_prompt") /\ Given("system_prompt_file"))
         /\ Given("bearer_token_env") => Sent
  BY Zenon DEF ValuesFollow
<1>5. WithinLimits <=>
         /\ \A budget \in NumberOf("context_budget") : budget <= MaxInt64
         /\ Given("bearer_token_env") => Short /\ Fits
  BY Zenon DEF WithinLimits
<1>6. MembersFollow <=>
         /\ Rules /\ \A name \in required : Given(name)
         /\ \E budget \in NumberOf("context_budget"), reserve \in NumberOf("generation_reserve") :
                0 < reserve /\ reserve < budget /\ budget <= MaxInt64
         /\ ~(Given("system_prompt") /\ Given("system_prompt_file"))
         /\ Given("bearer_token_env") => Taken
  BY Zenon DEF MembersFollow
<1> HIDE DEF Rules, Short, Sent, Fits, Taken
<1>7. QED
  BY <1>2, <1>3, <1>4, <1>5, <1>6, Zenon

\* Of keys as documented, the shape is all that the rules ask.
LEMMA RulesAreShapeAndMembers ==
    ASSUME DocumentInv
    PROVE  FollowsTheRules /\ WithinLimits <=>
               document.json = "object" /\ SpeltAsDocumented /\ Shaped /\ MembersFollow
<1>1. document.trailing = "none" /\ KeysAreDocumented <=> SpeltAsDocumented /\ Shaped
  BY Zenon DEF KeysAreDocumented, Shaped
<1>2. QED
  BY <1>1, ValuesWithinLimits, Zenon DEF FollowsTheRules

LEMMA TupleTypes ==
    ASSUME NEW S
    PROVE  /\ <<>> \in Seq(S)
           /\ \A a \in S : <<a>> \in Seq(S)
           /\ \A a, b \in S : <<a, b>> \in Seq(S)
           /\ \A a, b, c \in S : <<a, b, c>> \in Seq(S)
<1>1. <<>> \in Seq(S) /\ \A a \in S : <<a>> \in Seq(S)
  OBVIOUS
<1>2. \A a, b \in S : <<a, b>> \in Seq(S)
  OBVIOUS
<1>3. \A a, b, c \in S : <<a, b, c>> \in Seq(S)
  OBVIOUS
<1>4. QED
  BY <1>1, <1>2, <1>3

\* What is accepted, piece by piece.
LEMMA AcceptedIs ==
    ASSUME DocumentInv, MembersFollow
    PROVE  /\ raw(members, "endpoint").text \in Seq(Characters)
           /\ raw(members, "model").text \in Seq(Characters)
           /\ raw(members, "context_budget").int \in NumberOf("context_budget")
           /\ raw(members, "context_budget").int \in Int
           /\ raw(members, "generation_reserve").int \in 1..(raw(members, "context_budget").int - 1)
           /\ raw(members, "system_prompt").text \in Seq(Characters)
           /\ raw(members, "system_prompt_file").text \in Seq(Characters)
           /\ raw(members, "system_prompt").text = <<>> \/ raw(members, "system_prompt_file").text = <<>>
           /\ environment \in SUBSET Seq(Characters)
           /\ Given("bearer_token_env") <=> raw(members, "bearer_token_env") # absent
<1>1. members \in Seq(AnyMember) /\ environment \in {{}, {<<"x">>}} \cup {{token} : token \in Tokens}
  BY DEF DocumentInv, members
<1>2. \A name \in fileConfig : Given(name) <=> raw(members, name) # absent
  BY <1>1, RawHeld
<1>3. \A name \in DOMAIN Allowed : Permitted(raw(members, name), name)
  BY <1>1, AllowedByName DEF MembersFollow
<1>4. absent.text = <<>>
  BY DEF absent, Other
<1>5. /\ Url \in Seq(Characters) /\ <<"x">> \in Seq(Characters) /\ <<" ", "x">> \in Seq(Characters)
      /\ <<>> \in Seq(Characters) /\ <<" ">> \in Seq(Characters)
  <2>1. {"http:", "//", "host", "x", " "} \subseteq Characters
    BY DEF Characters
  <2>2. QED
    BY <2>1, TupleTypes, Zenon DEF Url
<1>6. /\ \A text \in Allowed["endpoint"] : text \in Seq(Characters)
      /\ \A text \in Allowed["model"] : text \in Seq(Characters)
      /\ \A text \in Allowed["system_prompt"] : text \in Seq(Characters)
      /\ \A text \in Allowed["system_prompt_file"] : text \in Seq(Characters)
  BY <1>5, AllowedIs, Zenon DEF Texts
<1>7. \A name \in {"endpoint", "model", "system_prompt", "system_prompt_file"} :
         raw(members, name).text \in Seq(Characters)
  <2>1. ASSUME NEW name \in {"endpoint", "model", "system_prompt", "system_prompt_file"}
        PROVE  raw(members, name).text \in Seq(Characters)
    <3>1. name \in DOMAIN Allowed
      BY AllowedIs
    <3>2. raw(members, name) = absent \/ raw(members, name).text \in Allowed[name]
      BY <1>3, <3>1 DEF Permitted
    <3>3. \A text \in Allowed[name] : text \in Seq(Characters)
      BY <1>6
    <3>4. QED
      BY <1>4, <1>5, <3>2, <3>3
  <2>2. QED
    BY <2>1
<1>8. PICK budget \in NumberOf("context_budget"), reserve \in NumberOf("generation_reserve") :
         0 < reserve /\ reserve < budget /\ budget <= MaxInt64
  BY DEF MembersFollow
<1>9. /\ raw(members, "context_budget").int = budget
      /\ raw(members, "generation_reserve").int = reserve
  BY <1>1, <1>8, NumberOfName DEF NumberNames
<1>10. budget \in Int /\ reserve \in Int
  <2>1. /\ raw(members, "context_budget") \in Held("context_budget") \cup {absent}
        /\ raw(members, "generation_reserve") \in Held("generation_reserve") \cup {absent}
    BY <1>1, RawHeld
  <2>2. raw(members, "context_budget").int \in Int /\ raw(members, "generation_reserve").int \in Int
    BY <2>1, NumberRule DEF NumberNames
  <2>3. QED
    BY <1>9, <2>2
<1>11. raw(members, "system_prompt").text = <<>> \/ raw(members, "system_prompt_file").text = <<>>
  <2>1. raw(members, "system_prompt") = absent \/ raw(members, "system_prompt_file") = absent
    BY <1>2 DEF MembersFollow, fileConfig
  <2>2. QED
    BY <1>4, <2>1
<1>12. environment \in SUBSET Seq(Characters)
  <2>1. /\ <<"x", "~">> \in Seq(Characters) /\ <<"x", "LF">> \in Seq(Characters)
        /\ <<"x", "x", "x">> \in Seq(Characters)
    <3>1. {"x", "~", "LF"} \subseteq Characters
      BY DEF Characters
    <3>2. QED
      BY <3>1, TupleTypes, Zenon
  <2>2. QED
    BY <1>1, <1>5, <2>1 DEF Tokens
<1>13. Given("bearer_token_env") <=> raw(members, "bearer_token_env") # absent
  BY <1>2 DEF fileConfig
<1>14. raw(members, "generation_reserve").int \in 1..(raw(members, "context_budget").int - 1)
  BY <1>8, <1>9, <1>10
<1>15. QED
  BY <1>7, <1>8, <1>9, <1>10, <1>11, <1>12, <1>13, <1>14

LEMMA ConfigIsConfig ==
    ASSUME DocumentInv, MembersFollow
    PROVE  configOf(members, environment) # NoConfig
<1> DEFINE bearer == IF raw(members, "bearer_token_env") = absent THEN {} ELSE environment
<1>1. bearer \in SUBSET Seq(Characters)
  BY AcceptedIs
<1> HIDE DEF bearer
<1>2. configOf(members, environment) =
         [endpoint |-> raw(members, "endpoint").text,
          model |-> raw(members, "model").text,
          contextBudget |-> raw(members, "context_budget").int,
          generationReserve |-> raw(members, "generation_reserve").int,
          systemPrompt |-> raw(members, "system_prompt").text,
          systemPromptFile |-> raw(members, "system_prompt_file").text,
          bearerToken |-> bearer]
  BY DEF configOf, bearer
<1>3. raw(members, "generation_reserve").int \in Int
  BY AcceptedIs
<1>4. configOf(members, environment) \in
         [endpoint : Seq(Characters), model : Seq(Characters), contextBudget : Int,
          generationReserve : Int, systemPrompt : Seq(Characters),
          systemPromptFile : Seq(Characters), bearerToken : SUBSET Seq(Characters)]
  BY <1>1, <1>2, <1>3, AcceptedIs
<1>5. QED
  BY <1>4, MCStartupAssumption

LEMMA ParseFollows == DocumentInv => ParseFollowsTheRules
<1> SUFFICES ASSUME DocumentInv PROVE ParseFollowsTheRules
  OBVIOUS
<1>1. CASE document.json # "object"
  <2>1. ~(wellFormed(document) /\ membersAreRight(decoded(document), environment))
    <3>1. CASE document.json = "null"
      <4>1. decoded(document) = <<>>
        BY <3>1 DEF decoded
      <4>2. raw(<<>>, "model") = absent
        <5>1. DOMAIN <<>> = {}
          BY Tuples
        <5>2. lastOf(<<>>, "model") = {}
          BY <5>1 DEF lastOf
        <5>3. QED
          BY <5>2 DEF raw
      <4>3. ~parseRequiredString(absent)
        BY NotAString DEF parseRequiredString, parseString
      <4>4. QED
        BY <4>1, <4>2, <4>3 DEF membersAreRight
    <3>2. CASE document.json # "null"
      BY <1>1, <3>2 DEF wellFormed
    <3>3. QED
      BY <3>1, <3>2
  <2>2. Parse(document, environment) = NoConfig
    BY <2>1, Zenon DEF Parse
  <2>3. ~FollowsTheRules
    BY <1>1 DEF FollowsTheRules
  <2>4. QED
    BY <2>2, <2>3, Zenon DEF ParseFollowsTheRules
<1>2. CASE document.json = "object"
  <2>1. decoded(document) = members
    BY <1>2 DEF decoded, members
  <2>2. wellFormed(document) /\ membersAreRight(members, environment) <=> Shaped /\ MembersFollow
    BY <1>2, WellFormedIsShaped, MembersAreRightIsFollow, Zenon
  <2>3. Parse(document, environment) =
           IF Shaped /\ MembersFollow THEN configOf(members, environment) ELSE NoConfig
    BY <2>1, <2>2, Zenon DEF Parse
  <2>0. FollowsTheRules /\ WithinLimits <=> SpeltAsDocumented /\ Shaped /\ MembersFollow
    BY <1>2, RulesAreShapeAndMembers, Zenon
  <2>4. CASE ~(Shaped /\ MembersFollow)
    BY <2>0, <2>3, <2>4, Zenon DEF ParseFollowsTheRules
  <2>5. CASE Shaped /\ MembersFollow
    <3> DEFINE c == configOf(members, environment)
    <3>1. MembersFollow /\ ValuesFollow /\ WithinLimits
      BY <2>5, ValuesWithinLimits, Zenon
    <3>2. c # NoConfig
      BY <3>1, ConfigIsConfig, Zenon
    <3>3. /\ c.generationReserve = raw(members, "generation_reserve").int
          /\ c.contextBudget = raw(members, "context_budget").int
          /\ c.systemPrompt = raw(members, "system_prompt").text
          /\ c.systemPromptFile = raw(members, "system_prompt_file").text
          /\ c.bearerToken = IF raw(members, "bearer_token_env") = absent THEN {} ELSE environment
      BY DEF configOf
    <3> HIDE DEF c
    <3>4. /\ c.generationReserve \in 1..(c.contextBudget - 1)
          /\ c.contextBudget \in NumberOf("context_budget")
          /\ c.systemPrompt = <<>> \/ c.systemPromptFile = <<>>
          /\ c.bearerToken = IF Given("bearer_token_env") THEN environment ELSE {}
      BY <3>1, <3>3, AcceptedIs
    <3>5. Parse(document, environment) = c
      BY <2>3, <2>5 DEF c
    <3>6. QED
      BY <2>0, <2>5, <3>1, <3>2, <3>4, <3>5, Zenon DEF ParseFollowsTheRules
  <2>6. QED
    BY <2>4, <2>5
<1>3. QED
  BY <1>1, <1>2

\* However often a document is edited, Parse accepts it, if its keys are spelt as
\* documented, exactly when it follows the rules within the limits; and whatever
\* it accepts has values that follow them and are what the program assumes.
THEOREM ParseAlwaysFollowsTheRules == MCSpec => []ParseFollowsTheRules
<1>1. MCSpec => []DocumentInv
  BY InitDocumentInv, NextDocumentInv, PTL DEF MCSpec
<1>2. QED
  BY <1>1, ParseFollows, PTL

\* The start-ups of the run are start-ups of Startup.
LEMMA RunsAreStartups == MCSpec => Spec
<1>1. MCInit => Init
  BY DEF MCInit
<1>2. [MCNext]_<<vars, documentVars>> => [Next]_vars
  BY DEF MCNext, Edits, AddMember, ChangeMember, RemoveMember, ChangeDocument, ChangeEnvironment,
         Edit
<1>3. QED
  BY <1>1, <1>2, PTL DEF MCSpec, Spec
=============================================================================
