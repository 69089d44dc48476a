------------------------------ MODULE MCHttpGet ------------------------------
(***************************************************************************)
(* HttpGet for TLC.  The responses have any status line, up to two header  *)
(* lines of every kind, ended by LF, fewer kinds when ended by CR LF, and  *)
(* a body with a blank line in it.  With CR LF the longest heads exceed    *)
(* the limit by a byte.  Reads are cut anywhere, and the declared length   *)
(* is nothing, less than what follows, or too large.                       *)
(***************************************************************************)
EXTENDS HttpGet

Piece(kind, n) == [kind |-> kind, n |-> n]

StatusLines == {Piece("status", n) : n \in {200, 404, 500}} \cup {Piece("malformed", 0)}
HeaderLines ==
    {Piece("length", n) : n \in {0, 1, 4, 6}}
        \cup {Piece(kind, 0) : kind \in {"chunked", "header", "malformed"}}

\* The lines of a head, the blank one last, each with its end.
ResponseHead(lines, eol) ==
    FlattenSeq([i \in 1..Len(lines) |-> <<lines[i]>> \o eol] \o <<eol>>)

Lf == <<Piece("LF", 0)>>
CrLf == <<Piece("CR", 0), Piece("LF", 0)>>
Body == <<Piece("body", 1), Piece("LF", 0), Piece("LF", 0), Piece("body", 4), Piece("body", 5)>>

MCResponses ==
    {ResponseHead(<<status>> \o headers, Lf) \o Body :
        status \in StatusLines, headers \in BoundedSeq(HeaderLines, 2)}
    \cup
    {ResponseHead(<<status>> \o headers, CrLf) \o Body :
        status \in StatusLines,
        headers \in BoundedSeq({Piece("length", 4), Piece("header", 0)}, 2)}
==============================================================================
