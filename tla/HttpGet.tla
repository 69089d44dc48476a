------------------------------- MODULE HttpGet -------------------------------
(***************************************************************************)
(* One HTTP/1.0 exchange of an update check: resolve, open, get and the    *)
(* readers of the body (app/src/ota/transport.rs), the byte-fed HeadParser *)
(* (core/src/ota/http.rs), and the loops that consume a body: read_small   *)
(* for the two text files, apply_update's for the image.                   *)
(*                                                                         *)
(* The server fixes its response when it has the request; what varies then *)
(* is how the network cuts it up, where the connection ends, and where an  *)
(* operation times out.                                                    *)
(*                                                                         *)
(* Bytes.  The text of a head line is one byte that carries what the       *)
(* parser makes of it; "CR" and "LF" are themselves.  A body byte carries  *)
(* its index.                                                              *)
(***************************************************************************)
EXTENDS Integers, Sequences, SequencesExt, FiniteSetsExt

CONSTANTS
    MAX_HEAD_BYTES,  \* core/src/ota/http.rs, 2048 in the code
    READ_CHUNK,      \* app/src/ota/transport.rs, 256 in the code
    MaxBody,         \* the text buffer, or ACTIVE_BYTES for the image
    CHUNK_BYTES,     \* the image loop's buffer, 4096 in the code
    Responses        \* the responses that servers give

\* What a head line says, the ends of a line, and the rest.
Kinds == {"status", "length", "chunked", "header", "malformed", "CR", "LF", "body"}
Byte == [kind : Kinds, n : Nat]

ASSUME HttpAssumption ==
    /\ {MAX_HEAD_BYTES, READ_CHUNK, MaxBody, CHUNK_BYTES} \subseteq Nat \ {0}
    /\ Responses \subseteq Seq(Byte)

VARIABLES
    response,  \* what the server sends
    consumer,  \* who reads the body: "text" or "image"
    end,       \* bytes of it that arrive before the connection ends
    pos,       \* bytes read from the connection
    chunk,     \* bytes of a read that are still to be pushed
    parser,    \* HeadParser
    leftover,  \* body bytes read together with the head
    out,       \* bytes the consumer has
    phase      \* the operation awaited, or the outcome

vars == <<response, consumer, end, pos, chunk, parser, leftover, out, phase>>
given == <<response, consumer, end>>

\* The operations of an exchange, and its outcomes; "missing" stands for a
\* status that ends the check without an error.
Operations == {"resolve", "connect", "handshake", "send", "head", "body"}
Outcomes == {"ok", "missing", "failed"}

None == -1

------------------------------------------------------------------------------
(* HeadParser *)

Parser ==
    [state : {"status", "headers", "done"}, event : {"NeedMore", "Complete", "Reject"},
     line : Seq(Byte), total : Nat, status : Nat, length : Nat \cup {None},
     chunked : BOOLEAN]

NewParser ==
    [state |-> "status", event |-> "NeedMore", line |-> <<>>, total |-> 0,
     status |-> 0, length |-> None, chunked |-> FALSE]

\* The line without a trailing CR.
Stripped(line) ==
    IF line # <<>> /\ Last(line).kind = "CR" THEN Front(line) ELSE line

\* What the line says; an empty line and two lines in one say nothing.
Meaning(line) ==
    IF Len(line) = 1 THEN line[1] ELSE [kind |-> "malformed", n |-> 0]

Reject(p) == [p EXCEPT !.state = "done", !.event = "Reject"]
Complete(p) == [p EXCEPT !.state = "done", !.event = "Complete"]

\* The status line: HTTP/1.0 or 1.1, three tokens, a number.
StatusLine(p, line) ==
    IF Meaning(line).kind = "status"
      THEN [p EXCEPT !.state = "headers", !.status = Meaning(line).n]
      ELSE Reject(p)

\* A header line: only two headers matter, and one of them once.
HeaderLine(p, line) ==
    LET says == Meaning(line) IN
    IF says.kind = "chunked" THEN [p EXCEPT !.chunked = TRUE]
    ELSE IF says.kind = "length" /\ p.length = None THEN [p EXCEPT !.length = says.n]
    ELSE IF says.kind = "header" THEN p
    ELSE Reject(p)

\* The blank line.
Finish(p) ==
    IF \/ p.chunked
       \/ p.status \notin 200..299 \cup {404}
       \/ p.length = None /\ p.status # 404
      THEN Reject(p)
      ELSE Complete(p)

\* Faulty Push: a line is parsed with the ones before it.
PushKeepingLine(p, b) ==
    IF p.state = "done" THEN p
    ELSE LET q == [p EXCEPT !.total = @ + 1] IN
         IF q.total > MAX_HEAD_BYTES THEN Reject(q)
         ELSE IF b.kind # "LF" THEN [q EXCEPT !.line = Append(@, b)]
         ELSE LET line == Stripped(q.line) IN
              IF q.state = "status" THEN StatusLine(q, line)
              ELSE IF line = <<>> THEN Finish(q)
              ELSE HeaderLine(q, line)

\* One byte.  A line is at most as long as the head, so that its own bound is
\* never the one that is reached.
Push(p, b) ==
    IF p.state = "done" THEN p
    ELSE LET q == [p EXCEPT !.total = @ + 1] IN
         IF q.total > MAX_HEAD_BYTES THEN Reject(q)
         ELSE IF b.kind # "LF" THEN [q EXCEPT !.line = Append(@, b)]
         ELSE LET line == Stripped(q.line)
                  r    == [q EXCEPT !.line = <<>>]
              IN  IF q.state = "status" THEN StatusLine(r, line)
                  ELSE IF line = <<>> THEN Finish(r)
                  ELSE HeaderLine(r, line)

------------------------------------------------------------------------------
(* The exchange *)

Init ==
    /\ consumer \in {"text", "image"}
    /\ response = <<>> /\ end = 0
    /\ pos = 0 /\ chunk = <<>>
    /\ parser = NewParser
    /\ leftover = <<>> /\ out = <<>>
    /\ phase = "resolve"

\* The host is an address, or has one.
Resolve ==
    /\ phase = "resolve"
    /\ phase' = "connect"
    /\ UNCHANGED <<given, pos, chunk, parser, leftover, out>>

\* The TCP connection is up; https needs a handshake on it.
Connect ==
    /\ phase = "connect"
    /\ phase' \in {"handshake", "send"}
    /\ UNCHANGED <<given, pos, chunk, parser, leftover, out>>

Handshake ==
    /\ phase = "handshake"
    /\ phase' = "send"
    /\ UNCHANGED <<given, pos, chunk, parser, leftover, out>>

\* The request is written and flushed; the server answers.
Send ==
    /\ phase = "send"
    /\ phase' = "head"
    /\ response' \in Responses
    /\ end' \in 0..Len(response')
    /\ UNCHANGED <<consumer, pos, chunk, parser, leftover, out>>

\* Bytes that one read may return, none at the end of the connection.
Available(size) ==
    IF pos = end THEN {0} ELSE {n \in 1..size : pos + n <= end}

\* The n bytes that come next.
Bytes(n) == SubSeq(response, pos + 1, pos + n)

\* What becomes of a complete head: a status other than 200 ends the check
\* without an error, and a body must have a length that fits.
Verdict(p) ==
    IF p.status # 200 THEN "missing"
    ELSE IF p.length = None \/ p.length > MaxBody THEN "failed"
    ELSE "body"

\* A read of get(): up to READ_CHUNK bytes, or the end of the connection.
ReadHead ==
    /\ phase = "head"
    /\ \E n \in Available(READ_CHUNK) :
         /\ chunk' = Bytes(n)
         /\ pos' = pos + n
         /\ phase' = IF n = 0 THEN "failed" ELSE "push"
    /\ UNCHANGED <<given, parser, leftover, out>>

\* Faulty PushByte: the byte that completes the head counts as body.
PushByteTwice ==
    /\ phase = "push"
    /\ LET p == Push(parser, Head(chunk)) IN
         /\ parser' = p
         /\ \/ /\ p.event = "NeedMore"
               /\ chunk' = Tail(chunk)
               /\ phase' = IF chunk' = <<>> THEN "head" ELSE "push"
               /\ UNCHANGED leftover
            \/ /\ p.event = "Complete"
               /\ chunk' = <<>>
               /\ leftover' = chunk
               /\ phase' = Verdict(p)
            \/ /\ p.event = "Reject"
               /\ chunk' = <<>>
               /\ phase' = "failed"
               /\ UNCHANGED leftover
    /\ UNCHANGED <<given, pos, out>>

\* Faulty PushByte: a head that ends with the read that brought it is taken for
\* the end of the connection.
PushByteAtEnd ==
    /\ phase = "push"
    /\ LET p == Push(parser, Head(chunk)) IN
         /\ parser' = p
         /\ \/ /\ p.event = "NeedMore"
               /\ chunk' = Tail(chunk)
               /\ phase' = IF chunk' = <<>> THEN "head" ELSE "push"
               /\ UNCHANGED leftover
            \/ /\ p.event = "Complete"
               /\ chunk' = <<>>
               /\ leftover' = Tail(chunk)
               /\ phase' = IF leftover' = <<>> THEN "failed" ELSE Verdict(p)
            \/ /\ p.event = "Reject"
               /\ chunk' = <<>>
               /\ phase' = "failed"
               /\ UNCHANGED leftover
    /\ UNCHANGED <<given, pos, out>>

\* A turn of its loop over them: one byte for the parser, until that
\* terminates.  The buffer for the rest always holds it.
PushByte ==
    /\ phase = "push"
    /\ LET p == Push(parser, Head(chunk)) IN
         /\ parser' = p
         /\ \/ /\ p.event = "NeedMore"
               /\ chunk' = Tail(chunk)
               /\ phase' = IF chunk' = <<>> THEN "head" ELSE "push"
               /\ UNCHANGED leftover
            \/ /\ p.event = "Complete"
               /\ chunk' = <<>>
               /\ leftover' = Tail(chunk)
               /\ phase' = Verdict(p)
            \/ /\ p.event = "Reject"
               /\ chunk' = <<>>
               /\ phase' = "failed"
               /\ UNCHANGED leftover
    /\ UNCHANGED <<given, pos, out>>

\* Bytes still to be read, and the most that one read asks for.
Remaining == parser.length - Len(out)
Room == IF consumer = "image" /\ CHUNK_BYTES < Remaining THEN CHUNK_BYTES ELSE Remaining

\* Faulty ReadLeftover: gives no heed to the room there is.
ReadLeftoverWhole ==
    /\ phase = "body"
    /\ Remaining > 0
    /\ leftover # <<>>
    /\ out' = out \o leftover
    /\ leftover' = <<>>
    /\ UNCHANGED <<given, pos, chunk, parser, phase>>

\* The over-read bytes come first.
ReadLeftover ==
    /\ phase = "body"
    /\ Remaining > 0
    /\ leftover # <<>>
    /\ LET n == IF Len(leftover) < Room THEN Len(leftover) ELSE Room
       IN  /\ out' = out \o SubSeq(leftover, 1, n)
           /\ leftover' = SubSeq(leftover, n + 1, Len(leftover))
    /\ UNCHANGED <<given, pos, chunk, parser, phase>>

\* Then what the connection brings.
ReadBody ==
    /\ phase = "body"
    /\ Remaining > 0
    /\ leftover = <<>>
    /\ pos < end
    /\ \E n \in Available(Room) :
         /\ out' = out \o Bytes(n)
         /\ pos' = pos + n
    /\ UNCHANGED <<given, chunk, parser, leftover, phase>>

\* Faulty BodyEnds: the end is not told from a read that brings nothing yet.
BodyEndsUnseen ==
    /\ phase = "body"
    /\ Remaining > 0
    /\ leftover = <<>> /\ pos = end
    /\ UNCHANGED vars

\* The connection ends early: an image is too short, a text is taken as it is.
BodyEnds ==
    /\ phase = "body"
    /\ Remaining > 0
    /\ leftover = <<>> /\ pos = end
    /\ phase' = IF consumer = "image" THEN "failed" ELSE "ok"
    /\ UNCHANGED <<given, pos, chunk, parser, leftover, out>>

\* All of it is there; nothing is read past it.
BodyDone ==
    /\ phase = "body"
    /\ Remaining = 0
    /\ phase' = "ok"
    /\ UNCHANGED <<given, pos, chunk, parser, leftover, out>>

\* An operation on the network fails, or times out.
OperationFails ==
    /\ phase \in Operations
    /\ phase = "body" => Remaining > 0 /\ leftover = <<>>
    /\ phase' = "failed"
    /\ UNCHANGED <<given, pos, chunk, parser, leftover, out>>

Progress ==
    \/ Resolve \/ Connect \/ Handshake \/ Send
    \/ ReadHead \/ PushByte \/ ReadLeftover \/ ReadBody \/ BodyEnds \/ BodyDone

Next == Progress \/ OperationFails

\* The check is polled, and every operation ends in an answer or a timeout;
\* at the end of the connection it is never a timeout.
Spec == Init /\ [][Next]_vars /\ WF_vars(Progress)

------------------------------------------------------------------------------
(* What a head is, as a whole: the reference for the parser. *)

LineEnds(s) == {i \in 1..Len(s) : s[i].kind = "LF"}

\* The line that ends at position i.
LineAt(s, i) ==
    LET before == {j \in LineEnds(s) : j < i}
        start  == IF before = {} THEN 0 ELSE Max(before)
    IN  Stripped(SubSeq(s, start + 1, i - 1))

\* The blank line that ends the head; the first line is the status line,
\* whatever it says.
Blanks(s) == {i \in LineEnds(s) : LineAt(s, i) = <<>> /\ \E j \in LineEnds(s) : j < i}
HeadEnd(s) == Min(Blanks(s))

HeadLines(s) == {i \in LineEnds(s) : i < HeadEnd(s)}
Says(s, i) == Meaning(LineAt(s, i))
Headers(s) == HeadLines(s) \ {Min(HeadLines(s))}
Lengths(s) == {i \in Headers(s) : Says(s, i).kind = "length"}
Status(s) == Says(s, Min(HeadLines(s)))

\* A head that a server may send and the parser has to take.
Acceptable(s) ==
    /\ Blanks(s) # {} /\ HeadEnd(s) <= MAX_HEAD_BYTES
    /\ Status(s).kind = "status" /\ Status(s).n \in 200..299 \cup {404}
    /\ \A i \in Headers(s) : Says(s, i).kind \in {"header", "length"}
    /\ Cardinality(Lengths(s)) = 1 \/ (Status(s).n = 404 /\ Lengths(s) = {})

------------------------------------------------------------------------------
(* Properties *)

\* Type correctness.  The leftover always fits: FetchError::Leftover and the
\* parser's own bound on a line are never reached.
TypeOK ==
    /\ response \in Responses \cup {<<>>} /\ consumer \in {"text", "image"}
    /\ end \in 0..Len(response) /\ pos \in 0..end
    /\ parser \in Parser /\ Len(parser.line) <= MAX_HEAD_BYTES
    /\ {chunk, leftover, out} \subseteq Seq(Byte)
    /\ Len(chunk) <= READ_CHUNK /\ Len(leftover) < READ_CHUNK
    /\ phase \in Operations \cup {"push"} \cup Outcomes

\* The parser, fed byte by byte in whatever pieces arrive, decides as the
\* definition on the whole response does, and finds the end of the head.
HeadAgrees ==
    /\ parser.event = "Complete" =>
         /\ Acceptable(response)
         /\ parser.total = HeadEnd(response)
         /\ parser.status = Status(response).n
         /\ \A i \in Lengths(response) : parser.length = Says(response, i).n
    /\ parser.event = "Reject" => ~Acceptable(response)
    /\ parser.event = "NeedMore" /\ Acceptable(response) => parser.total < HeadEnd(response)

\* No byte of the body is lost, repeated or reordered between the read that
\* met the end of the head and the ones after it, nor taken past its length.
BodyInOrder ==
    parser.event = "Complete" =>
        /\ out \o leftover = SubSeq(response, HeadEnd(response) + 1, pos)
        /\ out # <<>> => Len(out) <= parser.length

\* An image is taken for complete only with every byte that was declared, even
\* if the connection ends right behind the last one.
ImageIsWhole ==
    phase = "ok" /\ consumer = "image" => Len(out) = parser.length

\* What is handed on is the body as far as it has come, and an image all of it.
BodyIsWhole == BodyInOrder /\ ImageIsWhole

\* An exchange with a response that has arrived in full, in any pieces, fails
\* only with one of its operations: the parser does not refuse the head for the
\* way it was read.
Arrived ==
    /\ Acceptable(response) /\ Status(response).n = 200
    /\ \A i \in Lengths(response) :
         Says(response, i).n <= MaxBody /\ HeadEnd(response) + Says(response, i).n <= end
ArrivedIsTaken == [][phase' = "failed" /\ ~OperationFails => ~Arrived]_vars

\* How much is left to do: the operations up to the outcome, and within those
\* that read, the bytes that are still to come, to be pushed and to be taken.
OperationsLeft ==
    CASE phase = "resolve"   -> 5
      [] phase = "connect"   -> 4
      [] phase = "handshake" -> 3
      [] phase = "send"      -> 2
      [] phase \in {"head", "push", "body"} -> 1
      [] phase \in Outcomes  -> 0
BytesLeft == 2 * (end - pos) + Len(chunk) + Len(leftover)

\* No turn of the loops of get(), read_small and apply_update is in vain: each
\* brings the exchange nearer to its end, so that it has finitely many and, as
\* each of its operations ends, it ends.
EveryStepAdvances ==
    [][\/ OperationsLeft' < OperationsLeft
       \/ OperationsLeft' = OperationsLeft /\ BytesLeft' < BytesLeft]_vars

\* Every exchange ends.
Terminates == <>(phase \in Outcomes)
==============================================================================
