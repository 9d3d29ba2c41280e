----------------------------- MODULE SecretFilter -----------------------------
(***************************************************************************)
(* The redaction of the bearer token in a reply: secretFilter of           *)
(* src/internal/client/client.go, which sees the reply delta by delta, and *)
(* what doStream does with it.  Text is a sequence of letters, the         *)
(* replacement a symbol that is none of them.                              *)
(***************************************************************************)
EXTENDS Integers, Sequences, SequencesExt

secretReplacement == "[redacted]"

\* strings.ReplaceAll: every occurrence, from the left, none overlapping.
ReplaceSecret(text, secret) ==
    LET From[i \in 1..(Len(text) + 1)] ==
            IF i > Len(text) THEN <<>>
            ELSE IF IsPrefix(secret, SubSeq(text, i, Len(text)))
                 THEN <<secretReplacement>> \o From[i + Len(secret)]
                 ELSE <<text[i]>> \o From[i + 1]
    IN From[1]

\* A text that may be the start of the secret.
mayGrow(text, secret) == Len(text) < Len(secret) /\ IsPrefix(text, secret)

\* Mutant: only a whole secret in one delta is seen.
pushForgets(f, s) ==
    [f EXCEPT !.pending = <<>>, !.out = @ \o ReplaceSecret(f.pending \o s, f.secret)]

\* What goes out of a text, and what stays pending because it may be the
\* beginning of the secret.
filtered(buf, secret) ==
    LET rest(i) == SubSeq(buf, i, Len(buf))
        From[i \in 1..(Len(buf) + 1)] ==
            IF i > Len(buf) THEN [out |-> <<>>, pending |-> <<>>]
            ELSE IF IsPrefix(secret, rest(i))
                 THEN [out |-> <<secretReplacement>> \o From[i + Len(secret)].out,
                       pending |-> From[i + Len(secret)].pending]
            ELSE IF mayGrow(rest(i), secret) THEN [out |-> <<>>, pending |-> rest(i)]
            ELSE [out |-> <<buf[i]>> \o From[i + 1].out, pending |-> From[i + 1].pending]
    IN From[1]

\* The filter takes delta s.
push(f, s) ==
    LET new == filtered(f.pending \o s, f.secret)
    IN [secret |-> f.secret, pending |-> new.pending, out |-> f.out \o new.out]

newSecretFilter(secret) == [secret |-> secret, pending |-> <<>>, out |-> <<>>]

\* The filter after a reply has come in these deltas; its field out is all that
\* was handed on to the output.
pushAll(secret, deltas) ==
    LET After[n \in 0..Len(deltas)] ==
            IF n = 0 THEN newSecretFilter(secret) ELSE push(After[n - 1], deltas[n])
    IN After[Len(deltas)]

\* What is left to print when the reply is complete.
flush(f) == IF f.pending = <<>> THEN <<>> ELSE <<secretReplacement>>

\* The text of the result: the assembled reply, redacted.
redactAssembled(f, text) ==
    LET all == ReplaceSecret(text, f.secret)
    IN IF f.pending # <<>> /\ IsSuffix(f.pending, all)
       THEN SubSeq(all, 1, Len(all) - Len(f.pending)) \o <<secretReplacement>>
       ELSE all

-----------------------------------------------------------------------------
\* However the secret is split over the deltas of a reply: it is never shown,
\* what is printed of a complete reply is what is kept of it, what was printed
\* of one that failed is the beginning of what is kept, and where the deltas
\* are split makes no difference.
ShowsWhatItKeeps(secret, deltas) ==
    LET reply == FlattenSeq(deltas)
        f == pushAll(secret, deltas)
        kept == redactAssembled(f, reply)
        shown == f.out \o flush(f)
    IN /\ \A i, j \in 1..Len(shown) : SubSeq(shown, i, j) # secret
       /\ kept = shown
       /\ IsPrefix(f.out, kept)
       /\ f = pushAll(secret, <<reply>>)
=============================================================================
