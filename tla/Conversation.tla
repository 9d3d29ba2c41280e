----------------------------- MODULE Conversation -----------------------------
(***************************************************************************)
(* The in-memory conversation of src/internal/chat/conversation.go: a      *)
(* committed history and at most one staged turn, driven by Stage, Commit, *)
(* Abort and Clear.  The calls may come in any order, as the type allows;  *)
(* module Repl composes them in the order the session loop makes them.     *)
(***************************************************************************)
EXTENDS Accounting

CONSTANTS
    SystemPrompt,   \* <<>>, or <<t>> with t the configured system prompt
    UserTexts,      \* contents a user line can have
    Replies,        \* contents an assistant response can have
    NoTurn          \* the nil *stagedTurn

ASSUME TextAssumption ==
    /\ UserTexts \subseteq Texts
    /\ Replies \subseteq Texts
    /\ SystemPrompt \in {<<>>} \cup {<<t>> : t \in Texts}

StagedTurn == [history : Seq(Message),
               user : [role : {"user"}, content : UserTexts], trimmed : Nat]

ASSUME NoTurnAssumption == NoTurn \notin StagedTurn

VARIABLES
    history,    \* committed messages, oldest first
    staged,     \* the staged turn, or NoTurn
    err         \* error of the last call: "none" when it succeeded

convVars == <<history, staged, err>>

\* "none", or which error the call returned.
Errors == {"none", "alreadyStaged", "nothingStaged", "tooBig", "overflow"}

-----------------------------------------------------------------------------
Assistant(text) == [role |-> "assistant", content |-> text]
\* Mutant: the wrong role.
UserAsAssistant(text) == Assistant(text)
User(text) == [role |-> "user", content |-> text]

System == IF SystemPrompt = <<>> THEN <<>>
          ELSE <<[role |-> "system", content |-> SystemPrompt[1]]>>

\* The request for a user message on top of a history.
prefix(hist, user) == System \o hist \o <<user>>

\* Mutant: history[1:] taken k times.
DropMessages(hist, k) == SubSeq(hist, k + 1, Len(hist))

\* history[2:] taken k times: the history without its k oldest pairs.
DropPairs(hist, k) == SubSeq(hist, 2 * k + 1, Len(hist))

Candidate(k, user) == prefix(DropPairs(history, k), user)

\* Mutant: the loop gives up one pair early.
DropsButLast == 0..(Len(history) \div 2 - 1)

\* The numbers of pairs the trimming loop can have dropped: it gives up when
\* fewer than two messages are left.
Drops == 0..(Len(history) \div 2)

\* Mutant: a pair is dropped before the first look.
DropsThenLooks(k, user) ==
    /\ k > 0 \/ history = <<>>
    /\ Fits(Candidate(k, user)) # "tooBig"
    /\ \A j \in 1..(k - 1) : Fits(Candidate(j, user)) = "tooBig"

\* The loop leaves at its k-th candidate: every earlier one was too big.
LoopStopsAt(k, user) ==
    /\ Fits(Candidate(k, user)) # "tooBig"
    /\ \A j \in 0..(k - 1) : Fits(Candidate(j, user)) = "tooBig"

\* What Stage answers: first the check without history, then the loop.
StageVerdict(user) ==
    IF Fits(prefix(<<>>, user)) # "fits" THEN Fits(prefix(<<>>, user))
    ELSE IF \E k \in Drops : LoopStopsAt(k, user)
         THEN Fits(Candidate(CHOOSE k \in Drops : LoopStopsAt(k, user), user))
         ELSE "tooBig"

-----------------------------------------------------------------------------
ConvInit ==
    /\ history = <<>>
    /\ staged = NoTurn
    /\ err = "none"

\* Stage succeeds: the first candidate that fits is staged.
StageFits(text) ==
    /\ staged = NoTurn
    /\ StageVerdict(User(text)) = "fits"
    /\ \E k \in Drops :
          /\ LoopStopsAt(k, User(text))
          /\ staged' = [history |-> DropPairs(history, k),
                        user |-> User(text), trimmed |-> k]
    /\ err' = "none"
    /\ UNCHANGED history

\* Stage fails: the turn does not fit, or the accounting overflows.
StageFails(text) ==
    /\ staged = NoTurn
    /\ StageVerdict(User(text)) # "fits"
    /\ err' = StageVerdict(User(text))
    /\ UNCHANGED <<history, staged>>

StageAgain(text) ==
    /\ staged # NoTurn
    /\ err' = "alreadyStaged"
    /\ UNCHANGED <<history, staged>>

Stage(text) == StageFits(text) \/ StageFails(text) \/ StageAgain(text)

\* Mutants: the untrimmed history is committed; the turn stays staged.
CommitUntrimmed(text) ==
    /\ staged # NoTurn
    /\ history' = history \o <<staged.user, Assistant(text)>>
    /\ staged' = NoTurn
    /\ err' = "none"
CommitStillStaged(text) ==
    /\ staged # NoTurn
    /\ history' = staged.history \o <<staged.user, Assistant(text)>>
    /\ UNCHANGED staged
    /\ err' = "none"

\* Commit of a staged turn: its trimmed history becomes the committed one.
CommitStaged(text) ==
    /\ staged # NoTurn
    /\ history' = staged.history \o <<staged.user, Assistant(text)>>
    /\ staged' = NoTurn
    /\ err' = "none"

CommitNothing ==
    /\ staged = NoTurn
    /\ err' = "nothingStaged"
    /\ UNCHANGED <<history, staged>>

Abort ==
    /\ staged' = NoTurn
    /\ err' = "none"
    /\ UNCHANGED history

Clear ==
    /\ history' = <<>>
    /\ staged' = NoTurn
    /\ err' = "none"

ConvNext ==
    \/ \E text \in UserTexts : Stage(text)
    \/ \E text \in Replies : CommitStaged(text)
    \/ CommitNothing
    \/ Abort
    \/ Clear

ConvSpec == ConvInit /\ [][ConvNext]_convVars

-----------------------------------------------------------------------------
ConvTypeOK ==
    /\ history \in Seq(Message)
    /\ staged \in StagedTurn \cup {NoTurn}
    /\ err \in Errors

IsPairs(hist) ==
    /\ Len(hist) % 2 = 0
    /\ \A i \in 1..Len(hist) :
          hist[i].role = IF i % 2 = 1 THEN "user" ELSE "assistant"

\* The committed history is whole user/assistant pairs: trimming, commits,
\* aborts and clears in any order never leave half a turn in it
\* (context-accounting.md, "zero or more complete user/assistant pairs").
HistoryIsPairs == IsPairs(history)

\* A staged turn is what it was checked to be for as long as it is staged: a
\* suffix of the history committed now, cut at a pair boundary, that fits the
\* budget with the system prompt, the new message and the reserve, while every
\* longer suffix does not (conversation.go:59-75).
StagedIsLongestThatFits ==
    staged # NoTurn =>
        /\ 2 * staged.trimmed <= Len(history)
        /\ staged.history = DropPairs(history, staged.trimmed)
        /\ Fits(prefix(staged.history, staged.user)) = "fits"
        /\ \A k \in 0..(staged.trimmed - 1) :
              Fits(Candidate(k, staged.user)) # "fits"

\* History outgrows the budget by at most the last reply: without that reply
\* it is a request that was checked to fit.  This is what bounds the memory a
\* session holds, however long it runs (conversation.go:79-86).
HistoryWasARequest ==
    history # <<>> =>
        Fits(System \o SubSeq(history, 1, Len(history) - 1)) = "fits"

\* A message that fits without history always ends the trimming loop: the loop
\* reaches the empty history, so its own "does not fit" exit at
\* conversation.go:69-71 is never the reason a turn is refused.
TrimmingEnds ==
    \A text \in UserTexts :
        Fits(prefix(<<>>, User(text))) = "fits" =>
            \E k \in Drops : LoopStopsAt(k, User(text))

\* Reference definition of Estimate: the sum over the integers, or an overflow
\* when that sum does not fit the integer width.
TrueCost(messages) ==
    LET sum[n \in 0..Len(messages)] ==
            IF n = 0 THEN PerRequest
            ELSE sum[n - 1] + (Size[messages[n].content] + PerMessage)
    IN sum[Len(messages)]

\* The sticky-overflow additions of Estimate, made message by message, agree
\* with the mathematical sum on every candidate of every reachable state: no
\* wrap-around is taken for a small total, no total that fits is refused.
EstimateIsExact ==
    \A text \in UserTexts : \A k \in Drops :
        LET c == Candidate(k, User(text))
        IN  Estimate(c) = IF TrueCost(c) <= MaxInt THEN TrueCost(c) ELSE Overflow

\* Dropping older turns is what the program does instead of refusing a turn:
\* Stage refuses a message only when the message itself, with the system
\* prompt, does not fit (context-accounting.md, Trimming, steps 2 and 3).
RefusesOnlyOversizedMessages ==
    [][\A text \in UserTexts :
          StageFails(text) => Fits(prefix(<<>>, User(text))) # "fits"]_convVars

=============================================================================
