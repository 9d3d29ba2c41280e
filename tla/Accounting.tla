------------------------------ MODULE Accounting ------------------------------
(***************************************************************************)
(* The budget arithmetic of src/internal/chat/conversation.go: addUnits,   *)
(* Estimate and Fits.  A message is a record [role, content] whose content *)
(* is a member of Texts; only the byte length of a text matters here, so a *)
(* text is an uninterpreted value with a Size.                             *)
(***************************************************************************)
EXTENDS Integers, Sequences, FiniteSets, SequencesExt

CONSTANTS
    Texts,      \* message contents: user lines, replies, the system prompt
    Size,       \* Size[t]: len(t), the UTF-8 bytes of text t
    MaxInt,     \* math.MaxInt64, shrunk so that an overflow is reachable
    Budget,     \* context_budget
    Reserve     \* generation_reserve

PerMessage == 32
PerRequest == 32

\* config.Parse accepts only 0 < generation_reserve < context_budget, both
\* int64 (config.go:126-136).  Texts fit in memory, hence in an int64.
ASSUME BudgetAssumption ==
    /\ MaxInt \in Nat
    /\ Budget \in 1..MaxInt
    /\ Reserve \in 1..(Budget - 1)
    /\ PerRequest <= MaxInt

ASSUME SizeAssumption == Size \in [Texts -> 0..MaxInt]

Roles == {"system", "user", "assistant"}
Message == [role : Roles, content : Texts]

-----------------------------------------------------------------------------
\* The error value of the int64 additions.  It is negative, and addUnits
\* refuses negative operands, so an overflow once met is never lost.
Overflow == -1

\* Mutant: the sign of the operands is not looked at.
addUnitsForgets(a, b) == IF a > MaxInt - b THEN Overflow ELSE a + b

addUnits(a, b) ==
    IF a < 0 \/ b < 0 \/ a > MaxInt - b THEN Overflow ELSE a + b

\* The total after each message.
Estimate(messages) ==
    LET total[n \in 0..Len(messages)] ==
            IF n = 0 THEN PerRequest
            ELSE addUnits(total[n - 1], addUnits(Size[messages[n].content], PerMessage))
    IN total[Len(messages)]

\* (bool, error) as one value: "fits", "tooBig" or "overflow".
Fits(messages) ==
    LET sum == addUnits(Estimate(messages), Reserve)
    IN  IF sum = Overflow THEN "overflow"
        ELSE IF sum <= Budget THEN "fits" ELSE "tooBig"

=============================================================================
