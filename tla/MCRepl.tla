-------------------------------- MODULE MCRepl --------------------------------
(***************************************************************************)
(* Values of the constants of Repl for TLC.  The budget holds one short    *)
(* turn or a new message after it, so trims happen from the second turn    *)
(* on; the huge line never fits.                                           *)
(***************************************************************************)
EXTENDS Repl

CONSTANTS sys, short, huge, empty, reply

MCTexts == {sys, short, huge, empty, reply}
MCSize == (sys :> 5) @@ (short :> 1) @@ (huge :> 300) @@ (empty :> 0) @@ (reply :> 40)
MCSystemPrompt == <<sys>>
MCNoSystemPrompt == <<>>
MCUserTexts == {short, huge}
MCReplies == {empty, reply}
MCReply == {reply}
MCShort == {short}

=============================================================================
