---------------------------------- MODULE SSE ----------------------------------
(***************************************************************************)
(* The framing of the stream: readSSEEvent, readSSELine and splitSSEField  *)
(* of src/internal/client/stream.go, as functions of the bytes that have   *)
(* arrived and of whether more may come.  A byte is the token "CR" or      *)
(* "LF", a token that starts a line ("data:", ":" and "event:" stand for a *)
(* field name and its colon, each one byte long), or a byte of a value.    *)
(***************************************************************************)
EXTENDS Integers, Sequences, SequencesExt

LineEnds == {"CR", "LF"}

\* A read has the result "line" or "event", "nothing" (an empty line on its
\* own), "eof" or "limit" (an error), or "blocks": it waits for more bytes.

\* The byte after a CR, when it is the LF that belongs to it.
FollowedByLF(bytes, j) == j < Len(bytes) /\ bytes[j + 1] = "LF"

\* Where the line that starts at byte from ends, or where the bytes do.
lineEnd(bytes, from) ==
    LET ends == {j \in from..Len(bytes) : bytes[j] \in LineEnds}
    IN IF ends = {} THEN Len(bytes) + 1 ELSE Min(ends)

\* Mutant: the byte after a CR is not looked at.
lineBytesBlindly(bytes, end) == 1

\* The bytes that end a line: CR LF, CR or LF.
lineBytes(bytes, end) == IF bytes[end] = "CR" /\ FollowedByLF(bytes, end) THEN 2 ELSE 1

\* Mutant: every line waits for the byte after it.
waitsForMore(bytes, over, end) == ~over /\ end = Len(bytes)

\* After a CR one more byte is read, to be unread unless it is an LF.
waitsAfterCR(bytes, over, end) == ~over /\ end = Len(bytes) /\ bytes[end] = "CR"

\* The line that starts at byte from and would end at byte end, of at most
\* remaining bytes; the LF of a CR LF is not held against the limit.
lineRead(bytes, over, from, remaining, end) ==
    LET arrived == end <= Len(bytes)
        n == IF arrived THEN end - from + 1 ELSE end - from
    IN CASE remaining <= 0 -> [result |-> "limit", n |-> 0]
         [] remaining > 0 /\ n > remaining -> [result |-> "limit", n |-> remaining + 1]
         [] remaining > 0 /\ n <= remaining /\ ~arrived ->
                [result |-> IF over THEN "eof" ELSE "blocks", n |-> n]
         [] OTHER ->
                IF waitsAfterCR(bytes, over, end) THEN [result |-> "blocks", n |-> n]
                ELSE [result |-> "line", n |-> end - from + lineBytes(bytes, end),
                      line |-> SubSeq(bytes, from, end - 1)]

readSSELine(bytes, over, from, remaining) ==
    lineRead(bytes, over, from, remaining, lineEnd(bytes, from))

\* The value of a data field; a comment and every other field have none.
dataValues(line) == IF line[1] = "data:" THEN <<Tail(line)>> ELSE <<>>

\* The event that starts at byte start: lines up to an empty one, at most max
\* bytes in all, and the values of its data fields.
readSSEEvent(bytes, over, start, max) ==
    LET From[p \in start..(Len(bytes) + 1)] ==
            LET After(read) ==
                    CASE read.result # "line" ->
                            [result |-> read.result, n |-> p + read.n - start, data |-> <<>>]
                      [] read.result = "line" /\ read.line = <<>> ->
                            [result |-> IF p = start THEN "nothing" ELSE "event",
                             n |-> p + read.n - start, data |-> <<>>]
                      [] OTHER ->
                            LET later == From[p + read.n]
                            IN [result |-> later.result, n |-> later.n,
                                data |-> dataValues(read.line) \o later.data]
            IN After(readSSELine(bytes, over, p, max - (p - start)))
    IN From[start]

\* Every event decodeStream reads of the bytes, and how the last read ends.
readEvents(bytes, over, max) ==
    LET From[p \in 1..(Len(bytes) + 1)] ==
            LET After(read) ==
                    IF read.result \in {"event", "nothing"} THEN <<read>> \o From[p + read.n]
                                                            ELSE <<read>>
            IN After(readSSEEvent(bytes, over, p, max))
    IN From[1]

\* What decodeStream makes of the events: the values of each, without those
\* reads that found nothing or failed.
Delivered(reads) ==
    [i \in 1..(Len(reads) - 1) |-> reads[i].data]

-----------------------------------------------------------------------------
(* The standard's reading of the same bytes, by position.                  *)

\* The members of S, which are among 1..n, in order.
InOrder(S, n) ==
    LET From[i \in 1..(n + 1)] ==
            IF i > n THEN <<>>
            ELSE IF i \in S THEN <<i>> \o From[i + 1] ELSE From[i + 1]
    IN From[1]

\* Where lines end, behind a 0 for the start of the first: at an LF, and at a CR
\* that none follows.
lineEndings(bytes) ==
    LET endsLine(j) == bytes[j] = "LF" \/ (bytes[j] = "CR" /\ ~FollowedByLF(bytes, j))
    IN <<0>> \o InOrder({j \in DOMAIN bytes : endsLine(j)}, Len(bytes))

\* Every line, in order: the bytes between two line ends.
StandardLines(bytes) ==
    LET ends == lineEndings(bytes)
        isCRLF(j) == j > 1 /\ bytes[j] = "LF" /\ bytes[j - 1] = "CR"
    IN [k \in 1..(Len(ends) - 1) |->
           SubSeq(bytes, ends[k] + 1, ends[k + 1] - (IF isCRLF(ends[k + 1]) THEN 2 ELSE 1))]

\* The values of the data fields among lines first to last.
dataOf(lines, first, last) ==
    LET fields == InOrder({k \in first..last : lines[k][1] = "data:"}, last)
    IN [i \in DOMAIN fields |-> Tail(lines[fields[i]])]

emptyLines(lines) == <<0>> \o InOrder({k \in DOMAIN lines : lines[k] = <<>>}, Len(lines))

\* An event ends with every empty line, and has the data fields since the last.
StandardEvents(bytes) ==
    LET lines == StandardLines(bytes)
        empties == emptyLines(lines)
    IN [e \in 1..(Len(empties) - 1) |-> dataOf(lines, empties[e] + 1, empties[e + 1] - 1)]

WithoutLastCR(bytes) ==
    IF bytes # <<>> /\ Last(bytes) = "CR" THEN Front(bytes) ELSE bytes

-----------------------------------------------------------------------------
\* Of a stream that has ended the client reads the events of the standard, in
\* every mixture of the three line endings and however the last line ends.
ReadsTheStandard(bytes) ==
    Delivered(readEvents(bytes, TRUE, Len(bytes) + 1)) = StandardEvents(bytes)

\* What has arrived is delivered: an event waits for nothing but its own end,
\* or for the byte after a CR that came last.
DeliversAtOnce(bytes) ==
    Delivered(readEvents(bytes, FALSE, Len(bytes) + 1)) = StandardEvents(WithoutLastCR(bytes))

\* What has been delivered of some bytes is delivered again of more of them: a
\* read never depends on where the bytes before it were cut.
StaysDelivered(bytes) ==
    \A n \in 0..Len(bytes), over \in BOOLEAN :
        IsPrefix(Delivered(readEvents(SubSeq(bytes, 1, n), FALSE, n + 1)),
                 Delivered(readEvents(bytes, over, Len(bytes) + 1)))

\* The limit of an event: at most one byte more is ever taken in of one, none
\* that keeps to the limit is rejected, and the events before an event that is
\* too long are what they would be without a limit.
limitKept(free, reads, max) ==
    /\ IsPrefix(Front(reads), free)
    /\ \A i \in DOMAIN reads : reads[i].n <= max + 1
    /\ Last(reads).result = "limit" =>
           LET last == free[Len(reads)]
           IN last.n > max \/ (last.result = "eof" /\ last.n = max)

KeepsTheLimit(bytes, max) ==
    limitKept(readEvents(bytes, TRUE, Len(bytes) + 1), readEvents(bytes, TRUE, max), max)
=============================================================================
