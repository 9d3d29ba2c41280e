------------------------------- MODULE Startup -------------------------------
(***************************************************************************)
(* What run of src/main.go does before the session: flags, configuration   *)
(* and system prompt file (config.go), the check that the prompt fits, the *)
(* input and the output, in this order.  Several processes share the files *)
(* they are given, and others may change those files at any time, between  *)
(* a Stat and the Open after it too.  Nothing here looks at the context: a *)
(* signal is noticed when the session starts.                              *)
(***************************************************************************)
EXTENDS Naturals

CONSTANTS
    Procs,          \* processes that run radichat
    Others,         \* the creator of any other file
    NoFile,         \* no file is open
    MaxChanges      \* bound: changes others make to the files

ASSUME StartupAssumption ==
    /\ Others \notin Procs
    /\ NoFile \notin Procs \cup {Others}
    /\ MaxChanges \in Nat

\* A path holds nothing that can be opened, a file of another type, or a
\* regular file, by content: over MaxFileBytes, refused by the parser or as a
\* prompt, with a prompt that does not fit the budget, usable, or (a
\* configuration only) usable and naming the system prompt file.
Regular == {"huge", "bad", "wide", "good", "refers"}
Kinds == {"missing", "dir", "device", "fifo"} \cup Regular
Paths == {"config", "prompt", "input", "output"}

\* The kinds that make a difference at a path.
KindsAt ==
    [config |-> Kinds, prompt |-> Kinds \ {"refers"},
     input |-> {"missing", "dir", "device", "fifo", "good"}, output |-> {"missing", "good"}]

\* Where each path is opened.
OpensAt == [config |-> "openConfig", prompt |-> "openPrompt", input |-> "openInput"]

VARIABLES
    fs,         \* what each path holds
    creator,    \* who created the file there
    changes,    \* changes made by others
    pc,         \* where each process is
    args,       \* its -input and -output
    handle,     \* kind of the file it opened last, or NoFile
    prompt,     \* the content that gave the prompt or its absence
    wfile,      \* the file its records go to, by its creator, or NoFile
    exit,       \* exit status, 99 while it runs
    signalled   \* a signal arrived: the context is cancelled

fileVars == <<fs, creator, changes>>
procVars == <<pc, args, handle, prompt, wfile, exit, signalled>>
vars == <<fileVars, procVars>>

Args == [input : {"none", "input"}, output : {"none", "output", "input"}]
Running == 99

Init ==
    /\ fs = [config |-> "refers", prompt |-> "good", input |-> "good", output |-> "missing"]
    /\ creator = [f \in Paths |-> Others]
    /\ changes = 0
    /\ pc = [p \in Procs |-> "flags"]
    /\ args = [p \in Procs |-> [input |-> "none", output |-> "none"]]
    /\ handle = [p \in Procs |-> NoFile]
    /\ prompt = [p \in Procs |-> "good"]
    /\ wfile = [p \in Procs |-> NoFile]
    /\ exit = [p \in Procs |-> Running]
    /\ signalled = [p \in Procs |-> FALSE]

-----------------------------------------------------------------------------
Goes(p, step) == pc' = [pc EXCEPT ![p] = step] /\ UNCHANGED exit

\* run returns before the session.
Stops(p, code) ==
    /\ pc' = [pc EXCEPT ![p] = "stopped"]
    /\ exit' = [exit EXCEPT ![p] = code]

\* Mutant: the output is created before the input is looked at.
createsFirst(p, done) ==
    CASE done = "config" /\ args[p].output # "none" -> "createOutput"
      [] done \in {"config", "output"} /\ args[p].input # "none" -> "statInput"
      [] OTHER -> "session"

\* The order of main.run after the configuration.
after(p, done) ==
    CASE done = "config" /\ args[p].input # "none" -> "statInput"
      [] done \in {"config", "input"} /\ args[p].output # "none" -> "createOutput"
      [] OTHER -> "session"

\* Mutant: another status for bad usage.
usageExits == {0, 2, 3}

\* -help exits 0, unknown flags and extra arguments exit 2.
usageExit == {0, 2}

Flags(p) ==
    /\ pc[p] = "flags"
    /\ \/ \E code \in usageExit : Stops(p, code) /\ UNCHANGED args
       \/ \E a \in Args : args' = [args EXCEPT ![p] = a] /\ Goes(p, "openConfig")
    /\ UNCHANGED <<fileVars, handle, prompt, wfile, signalled>>

-----------------------------------------------------------------------------
(* Files.                                                                  *)

OpenGoes(p, path) ==
    Goes(p, CASE path = "config" -> "readConfig"
              [] path = "prompt" -> "readPrompt"
              [] OTHER -> after(p, "input"))

OpenFails(p, path) ==
    /\ pc[p] = OpensAt[path] /\ handle[p] = NoFile /\ fs[path] = "missing"
    /\ Stops(p, 1)
    /\ UNCHANGED <<fileVars, args, handle, prompt, wfile, signalled>>

\* The path is resolved; a FIFO without a writer blocks.
Opens(p, path) ==
    /\ pc[p] = OpensAt[path] /\ handle[p] = NoFile /\ fs[path] # "missing"
    /\ handle' = [handle EXCEPT ![p] = fs[path]]
    /\ IF fs[path] = "fifo" THEN UNCHANGED <<pc, exit>> ELSE OpenGoes(p, path)
    /\ UNCHANGED <<fileVars, args, prompt, wfile, signalled>>

WriterConnects(p, path) ==
    /\ pc[p] = OpensAt[path] /\ handle[p] = "fifo"
    /\ OpenGoes(p, path)
    /\ UNCHANGED <<fileVars, args, handle, prompt, wfile, signalled>>

\* Contents ReadAll can return for an open file: a regular one may have grown,
\* a directory cannot be read, any other file may give anything.
Reads(kind) ==
    CASE kind \in Regular -> {kind, "huge"}
      [] kind = "dir" -> {"error"}
      [] OTHER -> Regular \cup {"error"}

\* Load reads and parses the configuration; systemPromptFits follows when the
\* prompt is not in a file.  A directory is refused like an unreadable file.
ReadConfig(p) ==
    /\ pc[p] = "readConfig"
    /\ \E content \in Reads(handle[p]) :
          /\ prompt' = [prompt EXCEPT ![p] = content]
          /\ CASE content = "good" -> Goes(p, after(p, "config"))
               [] content = "refers" -> Goes(p, "statPrompt")
               [] OTHER -> Stops(p, 1)
    /\ handle' = [handle EXCEPT ![p] = NoFile]
    /\ UNCHANGED <<fileVars, args, wfile, signalled>>

\* readSystemPromptFile wants a regular file that is not too long, by Stat.
StatPrompt(p) ==
    /\ pc[p] = "statPrompt"
    /\ IF fs["prompt"] \in Regular \ {"huge"} THEN Goes(p, "openPrompt") ELSE Stops(p, 1)
    /\ UNCHANGED <<fileVars, args, handle, prompt, wfile, signalled>>

\* Mutant: the length of what was read is not looked at again.
statIsEnough(content) == content \notin {"bad", "error", "wide"}

\* systemPromptFits, with an empty user message.
promptFits(content) == content # "wide"

\* The checks of the content read: length, UTF-8, not empty, then the fit.
promptAccepted(content) == content \notin {"huge", "bad", "error"} /\ promptFits(content)

ReadPrompt(p) ==
    /\ pc[p] = "readPrompt"
    /\ \E content \in Reads(handle[p]) \ {"refers"} :
          /\ prompt' = [prompt EXCEPT ![p] = content]
          /\ IF promptAccepted(content) THEN Goes(p, after(p, "config")) ELSE Stops(p, 1)
    /\ handle' = [handle EXCEPT ![p] = NoFile]
    /\ UNCHANGED <<fileVars, args, wfile, signalled>>

\* openInput wants a regular file or a FIFO, by Stat.
StatInput(p) ==
    /\ pc[p] = "statInput"
    /\ IF fs["input"] \in Regular \cup {"fifo"} THEN Goes(p, "openInput") ELSE Stops(p, 1)
    /\ UNCHANGED <<fileVars, args, handle, prompt, wfile, signalled>>

OutputPath(p) == args[p].output

\* Mutant: O_EXCL is not given, whatever the path holds is opened.
opensAny(path) == TRUE

\* O_EXCL: only a path that holds nothing is opened for writing.
opensExclusively(path) == fs[path] = "missing"

\* createOutput opens the path with O_CREATE: a file that is missing is created,
\* and the records go to the file that is at the path then.
CreateOutput(p) ==
    LET path == OutputPath(p)
        missing == fs[path] = "missing"
    IN  /\ pc[p] = "createOutput" /\ opensExclusively(path)
        /\ fs' = [fs EXCEPT ![path] = IF missing THEN "good" ELSE @]
        /\ creator' = [creator EXCEPT ![path] = IF missing THEN p ELSE @]
        /\ wfile' = [wfile EXCEPT ![p] = creator'[path]]
        /\ Goes(p, after(p, "output"))
        /\ UNCHANGED <<changes, args, handle, prompt, signalled>>

\* The path is taken, or the file cannot be created.
CreateFails(p) ==
    /\ pc[p] = "createOutput"
    /\ Stops(p, 1)
    /\ UNCHANGED <<fileVars, args, handle, prompt, wfile, signalled>>

-----------------------------------------------------------------------------
(* The session, of which only its start and its statuses matter here.      *)

\* Mutant: the context is not looked at.
SessionGoesOn(p) == FALSE

\* The status is that of the first signal, which Repl tells apart.
SessionInterrupted(p) ==
    /\ pc[p] = "session" /\ signalled[p]
    /\ pc' = [pc EXCEPT ![p] = "exited"]
    /\ \E code \in {130, 143} : exit' = [exit EXCEPT ![p] = code]
    /\ UNCHANGED <<fileVars, args, handle, prompt, wfile, signalled>>

SessionEnds(p) ==
    /\ pc[p] = "session" /\ ~signalled[p]
    /\ pc' = [pc EXCEPT ![p] = "exited"]
    /\ \E code \in {0, 1} : exit' = [exit EXCEPT ![p] = code]
    /\ UNCHANGED <<fileVars, args, handle, prompt, wfile, signalled>>

\* A signal is recorded; nothing before the session notices.
SignalArrives(p) ==
    /\ pc[p] \notin {"stopped", "exited"} /\ ~signalled[p]
    /\ signalled' = [signalled EXCEPT ![p] = TRUE]
    /\ UNCHANGED <<fileVars, pc, args, handle, prompt, wfile, exit>>

\* Somebody else removes, creates or replaces a file.
OthersChange(path, kind) ==
    /\ changes < MaxChanges /\ kind # fs[path]
    /\ changes' = changes + 1
    /\ fs' = [fs EXCEPT ![path] = kind]
    /\ creator' = [creator EXCEPT ![path] = Others]
    /\ UNCHANGED procVars

Finished == (\A p \in Procs : pc[p] \in {"stopped", "exited"}) /\ UNCHANGED vars

-----------------------------------------------------------------------------
ReadablePaths == {"config", "prompt", "input"}

\* What run does by itself: it does not include the writer of a FIFO.
RunSteps(p) ==
    \/ Flags(p) \/ StatPrompt(p) \/ StatInput(p)
    \/ \E path \in ReadablePaths : OpenFails(p, path) \/ Opens(p, path)
    \/ handle[p] \notin {"fifo", "device"} /\ (ReadConfig(p) \/ ReadPrompt(p))
    \/ CreateOutput(p) \/ CreateFails(p)
    \/ SessionInterrupted(p)

Next ==
    \/ \E p \in Procs : RunSteps(p) \/ SignalArrives(p) \/ SessionEnds(p)
                          \/ ReadConfig(p) \/ ReadPrompt(p)
                          \/ \E path \in ReadablePaths : WriterConnects(p, path)
    \/ \E path \in Paths : \E kind \in KindsAt[path] : OthersChange(path, kind)
    \/ Finished

Spec == Init /\ [][Next]_vars

\* A process goes on unless it waits for the other end of a FIFO or a device,
\* which may never do anything; a session may last for ever.
FairSpec == Spec /\ \A p \in Procs : WF_vars(RunSteps(p))

-----------------------------------------------------------------------------
TypeOK ==
    /\ \A path \in Paths : fs[path] \in KindsAt[path]
    /\ creator \in [Paths -> Procs \cup {Others}]
    /\ changes \in 0..MaxChanges
    /\ pc \in [Procs -> {"flags", "openConfig", "readConfig", "statPrompt", "openPrompt",
                          "readPrompt", "statInput", "openInput", "createOutput", "session",
                          "stopped", "exited"}]
    /\ args \in [Procs -> [input : {"none", "input"}, output : {"none", "output", "input"}]]
    /\ handle \in [Procs -> Kinds \cup {NoFile}]
    /\ prompt \in [Procs -> Regular \cup {"error"}]
    /\ wfile \in [Procs -> Procs \cup {Others, NoFile}]
    /\ exit \in [Procs -> {0, 1, 2, 130, 143, Running}]
    /\ signalled \in [Procs -> BOOLEAN]

\* However processes race for one path, and whatever others put there in
\* between, no file that somebody else created is written to, an input given as
\* the output included, and no two processes write to one file (batch.md,
\* Output: "RadiChat never appends or overwrites").
OneWriterPerFile ==
    \A p \in Procs : wfile[p] # NoFile =>
        /\ wfile[p] # Others
        /\ \A q \in Procs : wfile[q] = wfile[p] => q = p

\* A run that stops before its session leaves no output file behind: the file
\* is created when nothing but the session is left to fail (batch.md, Output).
FailureLeavesNothing ==
    \A p \in Procs : pc[p] = "stopped" => wfile[p] = NoFile

\* A session starts with a configuration and a prompt whose contents passed
\* every check, though the files may have been replaced or have grown between
\* each check and the read (cli.md, "Startup config errors always exit before
\* the REPL and before any network access").
SessionStartsValid ==
    \A p \in Procs :
        pc[p] \in {"session", "exited"} =>
            /\ prompt[p] = "good"
            /\ args[p].output # "none" => wfile[p] # NoFile

\* Blocked on the other end of a FIFO or a device, for which nothing is promised.
WaitsForOthers(p) ==
    \/ handle[p] = "fifo" /\ pc[p] \in {"openConfig", "openPrompt", "openInput"}
    \/ handle[p] \in {"fifo", "device"} /\ pc[p] \in {"readConfig", "readPrompt"}

\* A signal during startup is not lost: unless the process waits for the other
\* end of a FIFO (batch.md, FIFO and signal limitation) or a device, it ends.
SignalEndsStartup ==
    \A p \in Procs :
        signalled[p] ~> (pc[p] \in {"stopped", "exited"} \/ WaitsForOthers(p))

=============================================================================
