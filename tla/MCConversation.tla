---------------------------- MODULE MCConversation ----------------------------
(***************************************************************************)
(* Values of the constants of Conversation for TLC.  Lengths are chosen so *)
(* that two, three or four pairs fill the budget, depending on which texts *)
(* they hold, and the largest user line alone does not fit.                *)
(***************************************************************************)
EXTENDS Conversation

CONSTANTS sys, short, long, huge, empty

MCTexts == {sys, short, long, huge, empty}
MCSize == (sys :> 5) @@ (short :> 1) @@ (long :> 70) @@ (huge :> 300) @@ (empty :> 0)
MCSystemPrompt == <<sys>>
MCNoSystemPrompt == <<>>
MCUserTexts == {short, long, huge}
MCReplies == {empty, long}

=============================================================================
