--------------------------- MODULE HttpGet_proofs ---------------------------
(***************************************************************************)
(* Proofs about HttpGet, for every set of responses and every size of a    *)
(* read, of the head and of the body: fed one byte at a time, in whatever  *)
(* pieces they arrive, the parser decides as the definition of a head on   *)
(* the whole response does, no byte of the body is lost on the way, and    *)
(* each step leaves less to do.                                            *)
(***************************************************************************)
EXTENDS HttpGet, FiniteSetTheorems, SequenceTheorems, WellFoundedInduction, TLAPS

------------------------------------------------------------------------------
(* Heads *)

\* A set of positions has a first one.
LEMMA Least ==
    ASSUME NEW T, T \subseteq Nat, T # {}
    PROVE  Min(T) \in T /\ \A y \in T : Min(T) <= y
<1>1. PICK n \in T : TRUE
  OBVIOUS
<1> DEFINE S == 0..n
           F == {0..k : k \in T \cap S}
<1>2. IsFiniteSet(S)
  BY <1>1, FS_Interval
<1>3. IsWellFoundedOn(StrictSubsetOrdering(S), SUBSET S)
  BY <1>2, FS_StrictSubsetOrderingWellFounded, FS_FiniteSubsetsOfFinite
<1>4. F \subseteq SUBSET S /\ F # {}
  BY <1>1
<1>5. \E x \in F : \A y \in F : ~(<<y, x>> \in StrictSubsetOrdering(S))
  <2> HIDE DEF F, S, IsWellFoundedOn, StrictSubsetOrdering
  <2> QED
    BY <1>3, <1>4, WFMin
<1>6. PICK m \in T \cap S : \A y \in F : ~(<<y, 0..m>> \in StrictSubsetOrdering(S))
  BY <1>5
<1>7. ASSUME NEW y \in T, y < m PROVE FALSE
  <2>1. 0..y \in F
    BY <1>7
  <2>2. 0..y # 0..m /\ 0..y \subseteq 0..m
    BY <1>7
  <2>3. 0..y \in SUBSET S /\ 0..m \in SUBSET S
    BY <1>4, <1>6, <2>1
  <2>4. <<0..y, 0..m>> \in StrictSubsetOrdering(S)
    BY <2>2, <2>3 DEF StrictSubsetOrdering
  <2> QED
    BY <1>6, <2>1, <2>4
<1>8. m \in T /\ \A y \in T : m <= y
  BY <1>6, <1>7
<1> QED
  BY <1>8 DEF Min

\* The line that ends at e begins behind position a.
Begins(s, a, e) ==
    /\ a = 0 \/ a \in LineEnds(s)
    /\ a < e
    /\ \A j \in LineEnds(s) : ~(a < j /\ j < e)

LEMMA LineBegins ==
    ASSUME NEW s \in Seq(Byte), NEW a \in Nat, NEW e \in LineEnds(s), Begins(s, a, e)
    PROVE  LineAt(s, e) = Stripped(SubSeq(s, a + 1, e - 1))
<1> DEFINE before == {j \in LineEnds(s) : j < e}
<1>1. LineEnds(s) \subseteq Nat \ {0}
  BY DEF LineEnds
<1>2. CASE a = 0
  BY <1>1, <1>2 DEF Begins, LineAt
<1>3. CASE a # 0
  <2>1. a \in before /\ \A y \in before : a >= y
    BY <1>1, <1>3 DEF Begins
  <2>2. Max(before) = a
    BY <1>1, <2>1 DEF Max
  <2> QED
    BY <2>1, <2>2 DEF LineAt
<1> QED
  BY <1>2, <1>3

LEMMA StrippedType ==
    ASSUME NEW line \in Seq(Byte)
    PROVE  Stripped(line) \in Seq(Byte) /\ Meaning(Stripped(line)) \in Byte
<1>1. Stripped(line) \in Seq(Byte)
  BY DEF Stripped, Front
<1>2. [kind |-> "malformed", n |-> 0] \in Byte
  BY DEF Byte, Kinds
<1>3. Len(Stripped(line)) = 1 => Stripped(line)[1] \in Byte
  BY <1>1, ElementOfSeq
<1> QED
  BY <1>1, <1>2, <1>3 DEF Meaning

\* Every line begins somewhere, and what it says is a byte.
LEMMA SaysType ==
    ASSUME NEW s \in Seq(Byte), NEW e \in LineEnds(s)
    PROVE  Says(s, e) \in Byte
<1> DEFINE before == {j \in LineEnds(s) : j < e}
           bounds == {k \in Nat : \A j \in before : j <= k}
           a      == Min(bounds)
<1>1. LineEnds(s) \subseteq 1..Len(s) /\ e \in Nat /\ Len(s) \in Nat
  BY DEF LineEnds
<1>2. a \in bounds /\ \A k \in bounds : a <= k
  <2>1. bounds \subseteq Nat /\ e \in bounds
    BY <1>1
  <2> HIDE DEF bounds
  <2> QED
    BY <2>1, Least
<1> HIDE DEF a
<1>3. a \in Nat /\ \A j \in before : j <= a
  BY <1>2
<1>4. a = 0 \/ a \in before
  <2>1. SUFFICES ASSUME a # 0, a \notin before PROVE FALSE
    OBVIOUS
  <2>2. a - 1 \in Nat /\ \A j \in before : j <= a - 1
    BY <1>1, <1>3, <2>1
  <2> QED
    BY <1>2, <1>3, <2>2
<1>5. Begins(s, a, e)
  BY <1>1, <1>3, <1>4 DEF Begins
<1>6. SubSeq(s, a + 1, e - 1) \in Seq(Byte)
  <2> DEFINE m == a + 1
             n == e - 1
  <2>1. m \in Int /\ n \in Int /\ \A i \in m..n : s[i] \in Byte
    BY <1>1, <1>3, ElementOfSeq
  <2> HIDE DEF m, n
  <2>2. SubSeq(s, m, n) \in Seq(Byte)
    BY <2>1, SubSeqProperties
  <2> QED
    BY <2>2 DEF m, n
<1>7. LineAt(s, e) = Stripped(SubSeq(s, a + 1, e - 1))
  BY <1>3, <1>5, LineBegins
<1> HIDE DEF before, bounds
<1> QED
  BY <1>6, <1>7, StrippedType DEF Says

\* A line that is not the first.
Later(s) == {i \in LineEnds(s) : \E j \in LineEnds(s) : j < i}

\* The head ends at the first blank line; the lines before it are the status
\* line, which is the first of all, and the headers.
LEMMA HeadParts ==
    ASSUME NEW s \in Seq(Byte), Blanks(s) # {}
    PROVE  /\ HeadEnd(s) \in Blanks(s) /\ \A b \in Blanks(s) : HeadEnd(s) <= b
           /\ Headers(s) = {i \in Later(s) : i < HeadEnd(s)}
           /\ \A f \in LineEnds(s) \ Later(s) : Min(HeadLines(s)) = f
<1>1. LineEnds(s) \subseteq Nat /\ Blanks(s) \subseteq LineEnds(s)
  BY DEF LineEnds, Blanks
<1>2. HeadEnd(s) \in Blanks(s) /\ \A b \in Blanks(s) : HeadEnd(s) <= b
  BY <1>1, Least DEF HeadEnd
<1>3. HeadLines(s) # {} /\ HeadLines(s) \subseteq Nat
  BY <1>1, <1>2 DEF Blanks, HeadLines
<1> DEFINE f == Min(HeadLines(s))
<1>4. f \in HeadLines(s) /\ \A i \in HeadLines(s) : f <= i
  BY <1>3, Least
<1> HIDE DEF f
<1>5. f \in LineEnds(s) /\ f < HeadEnd(s) /\ \A i \in LineEnds(s) : f <= i
  BY <1>1, <1>2, <1>4 DEF HeadLines
<1>6. \A i \in LineEnds(s) : i \in Later(s) <=> i # f
  BY <1>1, <1>5 DEF Later
<1>7. Headers(s) = HeadLines(s) \ {f}
  BY DEF Headers, f
<1>8. \A g \in LineEnds(s) \ Later(s) : f = g
  BY <1>6
<1> QED
  BY <1>1, <1>2, <1>5, <1>6, <1>7, <1>8 DEF HeadLines, Later, f

------------------------------------------------------------------------------
(* The parser *)

\* What a parser that wants more has read: all of s up to p.total, no blank
\* line in it, and it holds the line that has begun behind a.
LineHeld(s, p) ==
    \E a \in 0..p.total :
        /\ a = 0 \/ a \in LineEnds(s)
        /\ \A j \in LineEnds(s) : ~(a < j /\ j <= p.total)
        /\ p.line = SubSeq(s, a + 1, p.total)

\* The status line says what is in p.status.
StatusRead(s, p) ==
    /\ p.state = "status" => \A i \in LineEnds(s) : i > p.total
    /\ p.state = "headers" =>
         \E f \in LineEnds(s) \ Later(s) :
            f <= p.total /\ Says(s, f).kind = "status" /\ Says(s, f).n = p.status

\* Every header line is one that may be there, with at most one length.
HeadersRead(s, p) ==
    \A i \in Later(s) : i <= p.total =>
        /\ LineAt(s, i) # <<>>
        /\ Says(s, i).kind \in {"header", "length", "chunked"}
        /\ Says(s, i).kind = "chunked" => p.chunked
        /\ Says(s, i).kind = "length" =>
             /\ p.length = Says(s, i).n /\ p.length # None
             /\ \A k \in Later(s) : k <= p.total /\ Says(s, k).kind = "length" => i = k

\* Nothing else has set them.
FieldsRead(s, p) ==
    /\ p.chunked => \E i \in Later(s) : i <= p.total /\ Says(s, i).kind = "chunked"
    /\ p.length # None => \E i \in Later(s) : i <= p.total /\ Says(s, i).kind = "length"

ReadUpTo(s, p) ==
    /\ p.state # "done" /\ p.total <= MAX_HEAD_BYTES
    /\ LineHeld(s, p) /\ StatusRead(s, p) /\ HeadersRead(s, p) /\ FieldsRead(s, p)

\* What HeadAgrees says of a parser.
Decided(s, p) ==
    /\ p.event = "Complete" =>
         /\ Acceptable(s)
         /\ p.total = HeadEnd(s)
         /\ p.status = Status(s).n
         /\ \A i \in Lengths(s) : p.length = Says(s, i).n
    /\ p.event = "Reject" => ~Acceptable(s)

LEMMA ParserEnds ==
    ASSUME NEW p \in Parser
    PROVE  Reject(p) \in Parser /\ Complete(p) \in Parser
<1>1. Reject(p) \in Parser
  BY DEF Parser, Reject
<1>2. Complete(p) \in Parser
  BY DEF Parser, Complete
<1> QED
  BY <1>1, <1>2

\* While it wants more, an acceptable head ends behind what has been read.
LEMMA HeadEndsLater ==
    ASSUME NEW s \in Seq(Byte), NEW p \in Parser, ReadUpTo(s, p), Blanks(s) # {}
    PROVE  p.total < HeadEnd(s)
<1>1. HeadEnd(s) \in Later(s) /\ LineAt(s, HeadEnd(s)) = <<>> /\ HeadEnd(s) \in Nat
  BY HeadParts DEF Blanks, Later, LineEnds
<1>2. p.total \in Nat
  BY DEF Parser
<1> QED
  BY <1>1, <1>2 DEF ReadUpTo, HeadersRead

\* A byte more than the head may have.
LEMMA PushOversized ==
    ASSUME NEW s \in Seq(Byte), NEW p \in Parser, p.total < Len(s), ReadUpTo(s, p),
           p.total = MAX_HEAD_BYTES, NEW q, q = Push(p, s[p.total + 1])
    PROVE  /\ q \in Parser /\ q.event = "Reject" /\ q.state = "done" /\ q.line = p.line
           /\ Decided(s, q)
<1>1. p.total \in Nat /\ p.state # "done" /\ p.total + 1 > MAX_HEAD_BYTES
  BY DEF Parser, ReadUpTo
<1>2. q = Reject([p EXCEPT !.total = @ + 1])
  BY <1>1 DEF Push
<1>3. q \in Parser
  <2>1. [p EXCEPT !.total = @ + 1] \in Parser
    BY <1>1 DEF Parser
  <2> QED
    BY <1>2, <2>1, ParserEnds
<1>4. q.event = "Reject" /\ q.state = "done" /\ q.line = p.line
  BY <1>2 DEF Reject, Parser
<1>5. ~Acceptable(s)
  <2>1. Blanks(s) # {} => HeadEnd(s) \in Nat /\ p.total < HeadEnd(s)
    BY HeadEndsLater, HeadParts DEF Blanks, LineEnds
  <2> QED
    BY <1>1, <2>1 DEF Acceptable
<1> QED
  BY <1>3, <1>4, <1>5 DEF Decided

\* A byte of a line.
LEMMA PushInLine ==
    ASSUME NEW s \in Seq(Byte), NEW p \in Parser, p.total < Len(s), ReadUpTo(s, p),
           p.total # MAX_HEAD_BYTES, s[p.total + 1].kind # "LF",
           NEW q, q = Push(p, s[p.total + 1])
    PROVE  /\ q \in Parser /\ q.event = p.event /\ q.total = p.total + 1
           /\ ReadUpTo(s, q)
<1> DEFINE t == p.total + 1
<1>1. /\ p.total \in Nat /\ p.state # "done" /\ ~(t > MAX_HEAD_BYTES)
      /\ MAX_HEAD_BYTES \in Nat /\ s[t] \in Byte /\ Len(s) \in Nat /\ p.line \in Seq(Byte)
  BY HttpAssumption, ElementOfSeq DEF Parser, ReadUpTo
<1>2. q = [[p EXCEPT !.total = t] EXCEPT !.line = Append(p.line, s[t])]
  BY <1>1 DEF Push, Parser
<1>3. /\ q \in Parser /\ q.event = p.event /\ q.total = t /\ q.state = p.state
      /\ q.line = Append(p.line, s[t]) /\ q.status = p.status
      /\ q.length = p.length /\ q.chunked = p.chunked
  <2> DEFINE r == [p EXCEPT !.total = t]
             l == Append(p.line, s[t])
  <2>1. r \in Parser /\ r.line = p.line
    BY <1>1 DEF Parser
  <2>0. l \in Seq(Byte)
    BY <1>1, AppendProperties
  <2> HIDE DEF r, l
  <2>2. [r EXCEPT !.line = l] \in Parser
    BY <2>1, <2>0 DEF Parser
  <2>3. q \in Parser
    BY <1>2, <2>2 DEF r, l
  <2> QED
    BY <1>2, <2>3 DEF Parser
<1>4. t \notin LineEnds(s) /\ LineEnds(s) \subseteq Nat /\ Later(s) \subseteq LineEnds(s)
  BY DEF LineEnds, Later
<1>5. \A i \in LineEnds(s) : i <= t <=> i <= p.total
  BY <1>1, <1>4
<1>6. LineHeld(s, q)
  <2>1. PICK a \in 0..p.total : /\ a = 0 \/ a \in LineEnds(s)
                                /\ \A j \in LineEnds(s) : ~(a < j /\ j <= p.total)
                                /\ p.line = SubSeq(s, a + 1, p.total)
    BY DEF ReadUpTo, LineHeld
  <2>2. SubSeq(s, a + 1, t) = SubSeq(s, a + 1, p.total) \o <<s[t]>>
    <3>1. a + 1 \in 1..Len(s) /\ t \in (a + 1)..Len(s) /\ t - 1 = p.total
      BY <1>1, <2>1
    <3> HIDE DEF t
    <3>2. SubSeq(s, a + 1, t) = SubSeq(s, a + 1, t - 1) \o <<s[t]>>
      BY <3>1, SubSeqRecursiveSecond
    <3> QED
      BY <3>1, <3>2
  <2>3. SubSeq(s, a + 1, p.total) \o <<s[t]>> = Append(p.line, s[t])
    BY <1>1, <2>1, AppendIsConcat
  <2>4. a \in 0..q.total
    BY <1>1, <1>3, <2>1
  <2>6. q.line = SubSeq(s, a + 1, q.total)
    <3> HIDE DEF t
    <3> QED
      BY <1>3, <2>2, <2>3
  <2>5. \A j \in LineEnds(s) : ~(a < j /\ j <= q.total)
    BY <1>3, <1>5, <2>1
  <2> QED
    BY <2>1, <2>4, <2>5, <2>6 DEF LineHeld
<1>7. StatusRead(s, q)
  BY <1>1, <1>3, <1>4, <1>5 DEF StatusRead, ReadUpTo
<1>8. HeadersRead(s, q)
  BY <1>1, <1>3, <1>4, <1>5 DEF HeadersRead, ReadUpTo
<1>9. FieldsRead(s, q)
  BY <1>1, <1>3, <1>4, <1>5 DEF FieldsRead, ReadUpTo
<1> QED
  BY <1>1, <1>3, <1>6, <1>7, <1>8, <1>9 DEF ReadUpTo

\* A byte that ends a line: the line held is the one that ends there.
LEMMA LineEnded ==
    ASSUME NEW s \in Seq(Byte), NEW p \in Parser, p.total < Len(s), ReadUpTo(s, p),
           s[p.total + 1].kind = "LF"
    PROVE  /\ p.total + 1 \in LineEnds(s)
           /\ LineAt(s, p.total + 1) = Stripped(p.line)
           /\ Says(s, p.total + 1) = Meaning(Stripped(p.line))
           /\ Says(s, p.total + 1) \in Byte
           /\ p.state \in {"status", "headers"}
           /\ p.state = "headers" <=> p.total + 1 \in Later(s)
<1>1. p.total \in Nat /\ Len(s) \in Nat /\ p.line \in Seq(Byte)
  BY DEF Parser
<1>2. p.total + 1 \in LineEnds(s) /\ LineEnds(s) \subseteq Nat \ {0}
  BY <1>1 DEF LineEnds
<1>3. PICK a \in 0..p.total : /\ a = 0 \/ a \in LineEnds(s)
                              /\ \A j \in LineEnds(s) : ~(a < j /\ j <= p.total)
                              /\ p.line = SubSeq(s, a + 1, p.total)
  BY DEF ReadUpTo, LineHeld
<1>4. LineAt(s, p.total + 1) = Stripped(p.line)
  <2>1. Begins(s, a, p.total + 1)
    BY <1>1, <1>2, <1>3 DEF Begins
  <2> DEFINE e == p.total + 1
  <2>2. e - 1 = p.total /\ a \in Nat /\ e \in LineEnds(s) /\ Begins(s, a, e)
    BY <1>1, <1>2, <2>1
  <2> HIDE DEF e
  <2>3. LineAt(s, e) = Stripped(SubSeq(s, a + 1, e - 1))
    BY <2>2, LineBegins
  <2> QED
    BY <1>3, <2>2, <2>3 DEF e
<1>5. Says(s, p.total + 1) = Meaning(Stripped(p.line)) /\ Says(s, p.total + 1) \in Byte
  BY <1>1, <1>4, StrippedType DEF Says
<1>6. p.state \in {"status", "headers"}
  BY DEF ReadUpTo, Parser
<1>7. p.state = "headers" => p.total + 1 \in Later(s)
  BY <1>1, <1>2 DEF ReadUpTo, StatusRead, Later
<1>8. p.state = "status" => p.total + 1 \notin Later(s)
  BY <1>1, <1>2 DEF ReadUpTo, StatusRead, Later
<1> QED
  BY <1>2, <1>4, <1>5, <1>6, <1>7, <1>8

\* The parser that counts the byte and gives up the line.
NewLine(p) == [[p EXCEPT !.total = p.total + 1] EXCEPT !.line = <<>>]

LEMMA NewLineFields ==
    ASSUME NEW p \in Parser
    PROVE  /\ NewLine(p) \in Parser
           /\ NewLine(p).total = p.total + 1 /\ NewLine(p).line = <<>>
           /\ NewLine(p).event = p.event /\ NewLine(p).state = p.state
           /\ NewLine(p).status = p.status /\ NewLine(p).length = p.length
           /\ NewLine(p).chunked = p.chunked
<1> DEFINE u == [p EXCEPT !.total = p.total + 1]
<1>1. /\ u \in Parser /\ u.total = p.total + 1 /\ u.event = p.event /\ u.state = p.state
      /\ u.status = p.status /\ u.length = p.length /\ u.chunked = p.chunked
  BY DEF Parser
<1>2. NewLine(p) = [u EXCEPT !.line = <<>>]
  BY DEF NewLine
<1> HIDE DEF u
<1>3. <<>> \in Seq(Byte)
  OBVIOUS
<1>4. [u EXCEPT !.line = <<>>] \in Parser
  BY <1>1, <1>3 DEF Parser
<1> QED
  BY <1>1, <1>2, <1>4 DEF Parser

\* The status line.
LEMMA PushStatusLine ==
    ASSUME NEW s \in Seq(Byte), NEW p \in Parser, p.total < Len(s), ReadUpTo(s, p),
           p.total # MAX_HEAD_BYTES, s[p.total + 1].kind = "LF", p.state = "status",
           p.event = "NeedMore", NEW q, q = Push(p, s[p.total + 1])
    PROVE  /\ q \in Parser /\ q.total = p.total + 1 /\ q.line = <<>>
           /\ \/ q.event = "NeedMore" /\ ReadUpTo(s, q)
              \/ q.event = "Reject" /\ q.state = "done" /\ Decided(s, q)
<1> DEFINE t == p.total + 1
           r == NewLine(p)
<1>1. /\ p.total \in Nat /\ ~(t > MAX_HEAD_BYTES) /\ MAX_HEAD_BYTES \in Nat
  BY HttpAssumption DEF Parser, ReadUpTo
<1>2. q = StatusLine(r, Stripped(p.line))
  BY <1>1 DEF Push, NewLine
<1>3. /\ r \in Parser /\ r.total = t /\ r.line = <<>> /\ r.event = "NeedMore"
      /\ r.length = p.length /\ r.chunked = p.chunked
  BY NewLineFields
<1>4. /\ t \in LineEnds(s) /\ t \notin Later(s) /\ Says(s, t) \in Byte
      /\ Says(s, t) = Meaning(Stripped(p.line))
  BY LineEnded
<1>5. /\ \A i \in LineEnds(s) : i > p.total
      /\ LineEnds(s) \subseteq Nat /\ Later(s) \subseteq LineEnds(s)
  BY DEF ReadUpTo, StatusRead, LineEnds, Later
<1> HIDE DEF t, r
<1>6. CASE Says(s, t).kind = "status"
  <2>1. q = [r EXCEPT !.state = "headers", !.status = Says(s, t).n] /\ Says(s, t).n \in Nat
    BY <1>2, <1>4, <1>6 DEF StatusLine, Byte
  <2>2. /\ q \in Parser /\ q.total = t /\ q.line = <<>> /\ q.event = "NeedMore"
        /\ q.state = "headers" /\ q.status = Says(s, t).n
        /\ q.length = p.length /\ q.chunked = p.chunked
    <3> DEFINE n == Says(s, t).n
    <3>1. q = [r EXCEPT !.state = "headers", !.status = n] /\ n \in Nat
      BY <2>1
    <3> HIDE DEF n
    <3>2. q \in Parser /\ q.status = n
      BY <1>3, <3>1 DEF Parser
    <3> QED
      BY <1>3, <3>1, <3>2 DEF Parser, n
  <2>3. LineHeld(s, q)
    <3>1. SubSeq(s, t + 1, t) = <<>>
      BY <1>1, SubSeqEmpty DEF t
    <3> QED
      BY <1>1, <1>4, <1>5, <2>2, <3>1 DEF LineHeld, t
  <2>4. StatusRead(s, q)
    BY <1>1, <1>4, <1>6, <2>2 DEF StatusRead, t
  <2>5. \A i \in Later(s) : ~(i <= t)
    BY <1>1, <1>4, <1>5 DEF t
  <2>6. HeadersRead(s, q)
    BY <2>2, <2>5 DEF HeadersRead
  <2>7. FieldsRead(s, q)
    BY <1>1, <1>5, <2>2 DEF ReadUpTo, FieldsRead
  <2>8. q.total <= MAX_HEAD_BYTES /\ q.total = p.total + 1
    BY <1>1, <2>2 DEF t
  <2>9. ReadUpTo(s, q)
    BY <2>2, <2>3, <2>4, <2>6, <2>7, <2>8 DEF ReadUpTo
  <2> QED
    BY <2>2, <2>8, <2>9
<1>7. CASE Says(s, t).kind # "status"
  <2>1. q = Reject(r)
    BY <1>2, <1>4, <1>7 DEF StatusLine
  <2>2. q \in Parser
    BY <1>3, <2>1, ParserEnds
  <2>3. q.event = "Reject" /\ q.state = "done" /\ q.total = t /\ q.line = <<>>
    BY <1>3, <2>1 DEF Reject, Parser
  <2>4. Blanks(s) # {} => Status(s) = Says(s, t)
    BY <1>4, HeadParts DEF Status
  <2>5. ~Acceptable(s)
    BY <1>7, <2>4 DEF Acceptable
  <2> QED
    BY <2>2, <2>3, <2>5 DEF Decided, t
<1> QED
  BY <1>6, <1>7

\* A header line.
LEMMA PushHeaderLine ==
    ASSUME NEW s \in Seq(Byte), NEW p \in Parser, p.total < Len(s), ReadUpTo(s, p),
           p.total # MAX_HEAD_BYTES, s[p.total + 1].kind = "LF", p.state = "headers",
           p.event = "NeedMore", Stripped(p.line) # <<>>,
           NEW q, q = Push(p, s[p.total + 1])
    PROVE  /\ q \in Parser /\ q.total = p.total + 1 /\ q.line = <<>>
           /\ \/ q.event = "NeedMore" /\ ReadUpTo(s, q)
              \/ q.event = "Reject" /\ q.state = "done" /\ Decided(s, q)
<1> DEFINE t == p.total + 1
           r == NewLine(p)
<1>1. /\ p.total \in Nat /\ ~(t > MAX_HEAD_BYTES) /\ MAX_HEAD_BYTES \in Nat
  BY HttpAssumption DEF Parser, ReadUpTo
<1>2. q = HeaderLine(r, Stripped(p.line))
  BY <1>1 DEF Push, NewLine
<1>3. /\ r \in Parser /\ r.total = t /\ r.line = <<>> /\ r.event = "NeedMore"
      /\ r.state = "headers" /\ r.status = p.status
      /\ r.length = p.length /\ r.chunked = p.chunked
  BY NewLineFields
<1>4. /\ t \in LineEnds(s) /\ t \in Later(s) /\ LineAt(s, t) # <<>> /\ Says(s, t) \in Byte
      /\ Says(s, t) = Meaning(Stripped(p.line))
  BY LineEnded
<1> DEFINE says == Says(s, t)
<1>5. /\ says.n \in Nat /\ says.n # None
      /\ LineEnds(s) \subseteq Nat /\ Later(s) \subseteq LineEnds(s)
      /\ p.length \in Nat \cup {None}
  BY <1>4 DEF Byte, None, LineEnds, Later, Parser
<1>6. \A i \in LineEnds(s) : i <= t <=> i <= p.total \/ i = t
  BY <1>1, <1>5 DEF t
<1>7. t = p.total + 1 /\ t \in Nat /\ ~(t <= p.total)
  BY <1>1
<1> HIDE DEF t, r, says
<1>8. HeadersRead(s, p) /\ FieldsRead(s, p) /\ StatusRead(s, p)
  BY DEF ReadUpTo
<1>9. ASSUME q \in Parser, q.event = "NeedMore", q.state = "headers", q.total = t,
             q.line = <<>>, q.status = p.status, HeadersRead(s, q), FieldsRead(s, q)
      PROVE  ReadUpTo(s, q)
  <2>1. LineHeld(s, q)
    <3>1. SubSeq(s, t + 1, t) = <<>>
      BY <1>7, SubSeqEmpty
    <3> QED
      BY <1>4, <1>7, <1>9, <3>1 DEF LineHeld
  <2>2. StatusRead(s, q)
    BY <1>5, <1>6, <1>8, <1>9 DEF StatusRead
  <2> QED
    BY <1>1, <1>7, <1>9, <2>1, <2>2 DEF ReadUpTo
<1>10. CASE says.kind = "chunked"
  <2>1. q = [r EXCEPT !.chunked = TRUE]
    BY <1>2, <1>4, <1>10 DEF HeaderLine, says
  <2>2. /\ q \in Parser /\ q.total = t /\ q.line = <<>> /\ q.event = "NeedMore"
        /\ q.state = "headers" /\ q.status = p.status
        /\ q.length = p.length /\ q.chunked
    BY <1>3, <2>1 DEF Parser
  <2>3. HeadersRead(s, q)
    BY <1>4, <1>5, <1>6, <1>7, <1>8, <1>10, <2>2 DEF HeadersRead, says
  <2>4. FieldsRead(s, q)
    BY <1>4, <1>5, <1>6, <1>7, <1>8, <1>10, <2>2 DEF FieldsRead, says
  <2> QED
    BY <1>7, <1>9, <2>2, <2>3, <2>4
<1>11. CASE says.kind = "length" /\ p.length = None
  <2>1. q = [r EXCEPT !.length = says.n]
    BY <1>2, <1>3, <1>4, <1>11 DEF HeaderLine, says
  <2>2. /\ q \in Parser /\ q.total = t /\ q.line = <<>> /\ q.event = "NeedMore"
        /\ q.state = "headers" /\ q.status = p.status
        /\ q.length = says.n /\ q.chunked = p.chunked
    <3> DEFINE n == says.n
    <3>1. q = [r EXCEPT !.length = n] /\ n \in Nat
      BY <1>5, <2>1
    <3> HIDE DEF n
    <3>2. q \in Parser /\ q.length = n
      BY <1>3, <3>1 DEF Parser
    <3> QED
      BY <1>3, <3>1, <3>2 DEF Parser, n
  <2>3. \A i \in Later(s) : i <= p.total => Says(s, i).kind # "length"
    BY <1>8, <1>11 DEF HeadersRead
  <2>4. HeadersRead(s, q)
    BY <1>4, <1>5, <1>6, <1>7, <1>8, <1>11, <2>2, <2>3 DEF HeadersRead, says
  <2>5. FieldsRead(s, q)
    BY <1>4, <1>5, <1>6, <1>7, <1>8, <1>11, <2>2 DEF FieldsRead, says
  <2> QED
    BY <1>7, <1>9, <2>2, <2>4, <2>5
<1>12. CASE says.kind = "header"
  <2>1. q = r
    BY <1>2, <1>4, <1>12 DEF HeaderLine, says
  <2>2. HeadersRead(s, q)
    BY <1>3, <1>4, <1>5, <1>6, <1>7, <1>8, <1>12, <2>1 DEF HeadersRead, says
  <2>3. FieldsRead(s, q)
    BY <1>3, <1>5, <1>6, <1>8, <2>1 DEF FieldsRead
  <2> QED
    BY <1>3, <1>7, <1>9, <2>1, <2>2, <2>3
<1>13. CASE says.kind \notin {"chunked", "header", "length"}
            \/ (says.kind = "length" /\ p.length # None)
  <2>1. q = Reject(r)
    BY <1>2, <1>3, <1>4, <1>13 DEF HeaderLine, says
  <2>2. q \in Parser
    BY <1>3, <2>1, ParserEnds
  <2>3. q.event = "Reject" /\ q.state = "done" /\ q.total = t /\ q.line = <<>>
    BY <1>3, <2>1 DEF Reject, Parser
  <2>4. ASSUME Acceptable(s) PROVE FALSE
    <3>1. Blanks(s) # {} /\ HeadEnd(s) \in Blanks(s) /\ p.total < HeadEnd(s)
      BY <2>4, HeadParts, HeadEndsLater DEF Acceptable
    <3>2. HeadEnd(s) \in Nat /\ HeadEnd(s) # t
      BY <1>4, <1>5, <3>1 DEF Blanks
    <3>3. \A i \in Later(s) : i <= t => i \in Headers(s)
      BY <1>1, <1>5, <1>7, <3>1, <3>2, HeadParts
    <3>4. says.kind = "length" /\ p.length # None
      BY <1>4, <1>7, <1>13, <2>4, <3>3 DEF Acceptable, says
    <3>5. PICK k \in Later(s) : k <= p.total /\ Says(s, k).kind = "length"
      BY <1>8, <3>4 DEF FieldsRead
    <3>6. k # t /\ k \in Lengths(s) /\ t \in Lengths(s)
      BY <1>4, <1>5, <1>6, <1>7, <3>3, <3>4, <3>5 DEF Lengths, says
    <3>7. IsFiniteSet(Lengths(s))
      <4>1. IsFiniteSet(1..Len(s)) /\ Lengths(s) \subseteq 1..Len(s)
        BY FS_Interval DEF Lengths, Headers, HeadLines, LineEnds
      <4> QED
        BY <4>1, FS_Subset
    <3>8. Cardinality(Lengths(s)) = 1
      BY <2>4, <3>6 DEF Acceptable
    <3> QED
      BY <3>6, <3>7, <3>8, FS_Singleton
  <2> QED
    BY <1>7, <2>2, <2>3, <2>4 DEF Decided
<1> QED
  BY <1>10, <1>11, <1>12, <1>13

\* The blank line.
LEMMA PushBlankLine ==
    ASSUME NEW s \in Seq(Byte), NEW p \in Parser, p.total < Len(s), ReadUpTo(s, p),
           p.total # MAX_HEAD_BYTES, s[p.total + 1].kind = "LF", p.state = "headers",
           Stripped(p.line) = <<>>,
           NEW q, q = Push(p, s[p.total + 1])
    PROVE  /\ q \in Parser /\ q.total = p.total + 1 /\ q.line = <<>>
           /\ q.event \in {"Complete", "Reject"} /\ q.state = "done"
           /\ Decided(s, q)
<1> DEFINE t == p.total + 1
           r == NewLine(p)
<1>1. /\ p.total \in Nat /\ ~(t > MAX_HEAD_BYTES) /\ MAX_HEAD_BYTES \in Nat
  BY HttpAssumption DEF Parser, ReadUpTo
<1>2. q = Finish(r)
  BY <1>1 DEF Push, NewLine
<1>3. /\ r \in Parser /\ r.total = t /\ r.line = <<>> /\ r.status = p.status
      /\ r.length = p.length /\ r.chunked = p.chunked
  BY NewLineFields
<1>4. /\ t \in LineEnds(s) /\ t \in Later(s) /\ LineAt(s, t) = <<>>
  BY LineEnded
<1>5. LineEnds(s) \subseteq Nat /\ Later(s) \subseteq LineEnds(s) /\ Blanks(s) \subseteq Later(s)
  BY DEF LineEnds, Later, Blanks
<1>6. t = p.total + 1 /\ t \in Nat /\ t <= MAX_HEAD_BYTES
  BY <1>1
<1> HIDE DEF t, r
<1>7. HeadersRead(s, p) /\ FieldsRead(s, p) /\ StatusRead(s, p)
  BY DEF ReadUpTo
<1>8. Blanks(s) # {} /\ HeadEnd(s) = t
  <2>1. t \in Blanks(s)
    BY <1>4 DEF Blanks, Later
  <2>2. HeadEnd(s) \in Blanks(s) /\ HeadEnd(s) <= t /\ p.total < HeadEnd(s)
    BY <2>1, HeadParts, HeadEndsLater
  <2> QED
    BY <1>1, <1>5, <1>6, <2>1, <2>2
<1>9. \A i \in Later(s) : i <= p.total <=> i \in Headers(s)
  BY <1>1, <1>5, <1>6, <1>8, HeadParts
<1>10. Status(s).kind = "status" /\ Status(s).n = p.status
  BY <1>7, <1>8, HeadParts DEF StatusRead, Status
<1>11. Headers(s) \subseteq Later(s)
  BY <1>8, HeadParts
<1>12. \A i \in Lengths(s) : p.length = Says(s, i).n /\ p.length # None /\ Lengths(s) = {i}
  BY <1>7, <1>9, <1>11 DEF HeadersRead, Lengths
<1>13. p.length # None => Lengths(s) # {}
  BY <1>7, <1>9 DEF FieldsRead, Lengths
<1>14. p.chunked <=> \E i \in Headers(s) : Says(s, i).kind = "chunked"
  BY <1>7, <1>9, <1>11 DEF FieldsRead, HeadersRead
<1>15. \A i \in Headers(s) : Says(s, i).kind \in {"header", "length", "chunked"}
  BY <1>7, <1>9, <1>11 DEF HeadersRead
<1>16. Cardinality(Lengths(s)) = 1 <=> p.length # None
  <2>1. CASE p.length = None
    <3>1. Lengths(s) = {}
      BY <1>12, <2>1
    <3>2. Cardinality(Lengths(s)) = 0
      BY <3>1, FS_EmptySet
    <3> QED
      BY <2>1, <3>2
  <2>2. CASE p.length # None
    BY <1>12, <1>13, <2>2, FS_Singleton
  <2> QED
    BY <2>1, <2>2
<1>17. Lengths(s) = {} <=> p.length = None
  BY <1>12, <1>13
<1>18. Acceptable(s) <=> /\ ~p.chunked
                         /\ p.status \in 200..299 \cup {404}
                         /\ p.length # None \/ p.status = 404
  BY <1>6, <1>8, <1>10, <1>14, <1>15, <1>16, <1>17 DEF Acceptable
<1>19. CASE Acceptable(s)
  <2>1. q = Complete(r)
    BY <1>2, <1>3, <1>18, <1>19 DEF Finish
  <2>2. q \in Parser
    BY <1>3, <2>1, ParserEnds
  <2>3. /\ q.event = "Complete" /\ q.state = "done" /\ q.total = t /\ q.line = <<>>
        /\ q.status = p.status /\ q.length = p.length
    BY <1>3, <2>1 DEF Complete, Parser
  <2> QED
    BY <1>6, <1>8, <1>10, <1>12, <1>19, <2>2, <2>3 DEF Decided
<1>20. CASE ~Acceptable(s)
  <2>1. q = Reject(r)
    BY <1>2, <1>3, <1>18, <1>20 DEF Finish
  <2>2. q \in Parser
    BY <1>3, <2>1, ParserEnds
  <2>3. q.event = "Reject" /\ q.state = "done" /\ q.total = t /\ q.line = <<>>
    BY <1>3, <2>1 DEF Reject, Parser
  <2> QED
    BY <1>6, <1>20, <2>2, <2>3 DEF Decided
<1> QED
  BY <1>19, <1>20

\* Every byte keeps what has been read, or decides as the definition does.
LEMMA PushReads ==
    ASSUME NEW s \in Seq(Byte), NEW p \in Parser, p.total < Len(s), ReadUpTo(s, p),
           p.event = "NeedMore", Len(p.line) <= MAX_HEAD_BYTES,
           NEW q, q = Push(p, s[p.total + 1])
    PROVE  /\ q \in Parser /\ Len(q.line) <= MAX_HEAD_BYTES /\ Decided(s, q)
           /\ q.event = "NeedMore" => ReadUpTo(s, q)
           /\ q.event # "NeedMore" => q.state = "done"
           /\ q.event # "Reject" => q.total = p.total + 1
<1>1. p.state # "done" /\ MAX_HEAD_BYTES \in Nat /\ Len(<<>>) = 0
  BY HttpAssumption DEF ReadUpTo
<1>2. CASE p.total = MAX_HEAD_BYTES
  BY <1>2, PushOversized
<1>3. CASE p.total # MAX_HEAD_BYTES /\ s[p.total + 1].kind # "LF"
  <2>1. /\ q \in Parser /\ q.event = "NeedMore" /\ q.total = p.total + 1
        /\ ReadUpTo(s, q)
    BY <1>3, PushInLine
  <2>2. PICK a \in 0..q.total : q.line = SubSeq(s, a + 1, q.total)
    BY <2>1 DEF ReadUpTo, LineHeld
  <2>3. Len(q.line) <= q.total
    <3>1. q.total \in Nat /\ q.total <= Len(s) /\ Len(s) \in Nat
      BY <2>1 DEF Parser
    <3>2. \A i \in (a + 1)..q.total : s[i] \in Byte
      BY <3>1, ElementOfSeq
    <3> DEFINE m == a + 1
               n == q.total
    <3>3. m \in Int /\ n \in Int /\ \A i \in m..n : s[i] \in Byte
      BY <3>1, <3>2
    <3> HIDE DEF m, n
    <3>4. Len(SubSeq(s, m, n)) = IF m <= n THEN n - m + 1 ELSE 0
      BY <3>3, SubSeqProperties
    <3> QED
      BY <2>2, <3>1, <3>4 DEF m, n
  <2>4. q.total <= MAX_HEAD_BYTES /\ q.total \in Nat
    BY <2>1 DEF ReadUpTo, Parser
  <2>5. Len(q.line) \in Nat
    BY <2>1 DEF Parser
  <2> QED
    BY <1>1, <2>1, <2>3, <2>4, <2>5 DEF Decided
<1>4. CASE p.total # MAX_HEAD_BYTES /\ s[p.total + 1].kind = "LF" /\ p.state = "status"
  BY <1>1, <1>4, PushStatusLine DEF Decided
<1>5. CASE /\ p.total # MAX_HEAD_BYTES /\ s[p.total + 1].kind = "LF"
           /\ p.state = "headers" /\ Stripped(p.line) = <<>>
  BY <1>1, <1>5, PushBlankLine
<1>6. CASE /\ p.total # MAX_HEAD_BYTES /\ s[p.total + 1].kind = "LF"
           /\ p.state = "headers" /\ Stripped(p.line) # <<>>
  BY <1>1, <1>6, PushHeaderLine DEF Decided
<1>7. p.state \in {"status", "headers"}
  BY <1>1 DEF Parser
<1> QED
  BY <1>2, <1>3, <1>4, <1>5, <1>6, <1>7

\* A new parser has read nothing.
LEMMA NewReads ==
    /\ NewParser \in Parser
    /\ \A s \in Seq(Byte) : ReadUpTo(s, NewParser)
<1>1. NewParser \in Parser
  <2>1. <<>> \in Seq(Byte)
    OBVIOUS
  <2> QED
    BY <2>1 DEF NewParser, Parser
<1>2. ASSUME NEW s \in Seq(Byte) PROVE ReadUpTo(s, NewParser)
  <2>1. \A i \in LineEnds(s) : i > 0 /\ ~(i <= 0)
    BY DEF LineEnds
  <2>2. Later(s) \subseteq LineEnds(s)
    BY DEF Later
  <2>3. LineHeld(s, NewParser)
    <3>1. SubSeq(s, 0 + 1, 0) = <<>> /\ 0 \in 0..0
      BY SubSeqEmpty
    <3> QED
      BY <2>1, <3>1 DEF LineHeld, NewParser
  <2> QED
    BY <2>1, <2>2, <2>3, HttpAssumption
       DEF ReadUpTo, StatusRead, HeadersRead, FieldsRead, NewParser
<1> QED
  BY <1>1, <1>2

------------------------------------------------------------------------------
(* The exchange *)

\* What each phase has done, and not done yet.
Stages ==
    /\ phase \in {"resolve", "connect", "handshake", "send"} =>
         parser = NewParser /\ response = <<>> /\ pos = 0
    /\ phase \in {"head", "push"} =>
         parser.event = "NeedMore" /\ (phase = "head" <=> chunk = <<>>)
    /\ phase \in {"body", "ok", "missing"} => parser.event = "Complete"
    /\ phase \in {"body", "ok"} => parser.status = 200 /\ parser.length \in 0..MaxBody
    /\ parser.event = "NeedMore" =>
         /\ leftover = <<>> /\ out = <<>>
         /\ ReadUpTo(response, parser)
         /\ chunk = SubSeq(response, parser.total + 1, pos)
    /\ parser.event # "Reject" => parser.total <= pos
    /\ parser.event # "NeedMore" => parser.state = "done" /\ chunk = <<>>

IInv ==
    /\ TypeOK /\ Stages /\ Decided(response, parser)
    /\ BodyInOrder /\ ImageIsWhole

LEMMA Responding ==
    ASSUME TypeOK
    PROVE  /\ response \in Seq(Byte) /\ Len(response) \in Nat /\ end \in Nat /\ pos \in Nat
           /\ parser.total \in Nat /\ Len(parser.line) \in Nat
           /\ chunk \in Seq(Byte) /\ leftover \in Seq(Byte) /\ out \in Seq(Byte)
<1>1. response \in Seq(Byte)
  <2>1. <<>> \in Seq(Byte)
    OBVIOUS
  <2> QED
    BY <2>1, HttpAssumption DEF TypeOK
<1> QED
  BY <1>1 DEF TypeOK, Parser

\* The bytes of a read continue what was read before.
LEMMA ReadOn ==
    ASSUME TypeOK, NEW size \in Nat, NEW n \in Available(size)
    PROVE  /\ n \in Nat /\ n <= size /\ pos + n \in 0..end /\ (n = 0 => pos = end)
           /\ Bytes(n) \in Seq(Byte) /\ Len(Bytes(n)) = n
           /\ \A a \in 0..pos :
                SubSeq(response, a + 1, pos) \o Bytes(n) = SubSeq(response, a + 1, pos + n)
<1>1. /\ response \in Seq(Byte) /\ Len(response) \in Nat /\ end \in 0..Len(response)
      /\ pos \in 0..end
  BY Responding DEF TypeOK
<1>2. n \in Nat /\ n <= size /\ pos + n \in 0..end /\ (n = 0 => pos = end)
  BY <1>1 DEF Available
<1> DEFINE m == pos + n
<1>3. pos + 1 \in Int /\ m \in Int /\ pos \in 0..m /\ m \in 0..Len(response)
  BY <1>1, <1>2
<1>4. \A i \in (pos + 1)..m : response[i] \in Byte
  BY <1>1, <1>2, <1>3, ElementOfSeq
<1>5. m - (pos + 1) + 1 = n /\ (pos + 1 <= m <=> n > 0)
  BY <1>1, <1>2
<1> HIDE DEF m
<1>6. /\ SubSeq(response, pos + 1, m) \in Seq(Byte)
      /\ Len(SubSeq(response, pos + 1, m)) = IF pos + 1 <= m THEN m - (pos + 1) + 1 ELSE 0
  BY <1>3, <1>4, SubSeqProperties
<1>7. Bytes(n) = SubSeq(response, pos + 1, m)
  BY DEF Bytes, m
<1>8. ASSUME NEW a \in 0..pos
      PROVE  SubSeq(response, a + 1, pos) \o Bytes(n) = SubSeq(response, a + 1, m)
  <2>1. /\ a + 1 \in 1..(Len(response) + 1) /\ pos \in (a + 1 - 1)..Len(response)
        /\ m \in pos..Len(response)
    BY <1>1, <1>3
  <2> QED
    BY <1>1, <1>7, <2>1, ConcatAdjacentSubSeq
<1>9. Bytes(n) \in Seq(Byte) /\ Len(Bytes(n)) = n
  BY <1>2, <1>5, <1>6, <1>7
<1> QED
  BY <1>2, <1>8, <1>9 DEF m

LEMMA ExchangeInit == Init => IInv
<1> SUFFICES ASSUME Init PROVE IInv
  OBVIOUS
<1>1. <<>> \in Seq(Byte) /\ Len(<<>>) = 0 /\ SubSeq(<<>>, 0 + 1, 0) = <<>>
  BY SubSeqEmpty
<1>2. TypeOK
  <2>1. NewParser.line = <<>> /\ MAX_HEAD_BYTES \in Nat \ {0} /\ READ_CHUNK \in Nat \ {0}
    BY HttpAssumption DEF NewParser
  <2>2. /\ response = <<>> /\ end = 0 /\ pos = 0 /\ parser = NewParser
        /\ chunk = <<>> /\ leftover = <<>> /\ out = <<>>
    BY DEF Init
  <2>3. end \in 0..Len(response) /\ pos \in 0..end
    BY <1>1, <2>2
  <2>4. /\ {chunk, leftover, out} \subseteq Seq(Byte)
        /\ Len(chunk) <= READ_CHUNK /\ Len(leftover) < READ_CHUNK
    BY <1>1, <2>1, <2>2
  <2>5. parser \in Parser /\ Len(parser.line) <= MAX_HEAD_BYTES
    BY <1>1, <2>1, <2>2, NewReads
  <2> QED
    <3>1. phase \in Operations \cup {"push"} \cup Outcomes /\ consumer \in {"text", "image"}
      BY DEF Init, Operations
    <3>2. response \in Responses \cup {<<>>}
      BY <2>2
    <3> QED
      BY <2>3, <2>4, <2>5, <3>1, <3>2 DEF TypeOK
<1>3. Stages
  <2>1. /\ response = <<>> /\ pos = 0 /\ parser = NewParser /\ phase = "resolve"
        /\ chunk = <<>> /\ leftover = <<>> /\ out = <<>>
    BY DEF Init
  <2>2. parser.event = "NeedMore" /\ parser.total = 0
    BY <2>1 DEF NewParser
  <2>3. ReadUpTo(response, parser) /\ chunk = SubSeq(response, parser.total + 1, pos)
    BY <1>1, <2>1, <2>2, NewReads
  <2> QED
    BY <2>1, <2>2, <2>3 DEF Stages
<1> QED
  BY <1>2, <1>3 DEF Init, IInv, Decided, BodyInOrder, ImageIsWhole, NewParser

\* A step that goes from one phase to another.
LEMMA PhaseChanges ==
    ASSUME IInv, UNCHANGED <<response, consumer, end, pos, chunk, parser, leftover, out>>,
           phase' \in Operations \cup {"push"} \cup Outcomes, Stages', ImageIsWhole'
    PROVE  IInv'
BY DEF IInv, TypeOK, Decided, BodyInOrder

LEMMA ExchangeNext == IInv /\ [Next]_vars => IInv'
<1> SUFFICES ASSUME IInv, [Next]_vars PROVE IInv'
  OBVIOUS
<1>0. TypeOK /\ Stages /\ Decided(response, parser) /\ BodyInOrder /\ ImageIsWhole
  BY DEF IInv
<1>1. CASE Resolve \/ Connect \/ Handshake
  <2>1. /\ UNCHANGED <<response, consumer, end, pos, chunk, parser, leftover, out>>
        /\ phase \in {"resolve", "connect", "handshake"}
        /\ phase' \in {"connect", "handshake", "send"}
    BY <1>1 DEF Resolve, Connect, Handshake, given
  <2>2. Stages' /\ ImageIsWhole' /\ phase' \in Operations \cup Outcomes
    BY <1>0, <2>1 DEF Stages, ImageIsWhole, Operations
  <2> QED
    BY <2>1, <2>2, PhaseChanges
<1>2. CASE Send
  <2>1. /\ phase = "send" /\ phase' = "head" /\ response' \in Responses
        /\ end' \in 0..Len(response')
        /\ UNCHANGED <<consumer, pos, chunk, parser, leftover, out>>
    BY <1>2 DEF Send
  <2>2. parser = NewParser /\ pos = 0 /\ parser.event = "NeedMore" /\ parser.total = 0
    BY <1>0, <2>1 DEF Stages, NewParser
  <2>3. leftover = <<>> /\ out = <<>> /\ chunk = <<>>
    <3>1. response = <<>> /\ leftover = <<>> /\ out = <<>> /\ chunk = SubSeq(response, 0 + 1, 0)
      BY <1>0, <2>1, <2>2 DEF Stages
    <3> QED
      BY <3>1, SubSeqEmpty
  <2>4. response' \in Seq(Byte) /\ Len(response') \in Nat
    BY <2>1, HttpAssumption
  <2>5. SubSeq(response', 0 + 1, 0) = <<>>
    BY SubSeqEmpty
  <2>6. TypeOK'
    BY <1>0, <2>1, <2>2, <2>4 DEF TypeOK, Operations
  <2>7. Stages'
    BY <1>0, <2>1, <2>2, <2>3, <2>4, <2>5, NewReads DEF Stages
  <2> QED
    BY <1>0, <2>1, <2>2, <2>6, <2>7 DEF IInv, Decided, BodyInOrder, ImageIsWhole
<1>3. CASE ReadHead
  <2>1. PICK n \in Available(READ_CHUNK) :
           /\ chunk' = Bytes(n) /\ pos' = pos + n
           /\ phase' = IF n = 0 THEN "failed" ELSE "push"
    BY <1>3 DEF ReadHead
  <2>2. phase = "head" /\ UNCHANGED <<response, consumer, end, parser, leftover, out>>
    BY <1>3 DEF ReadHead, given
  <2>3. /\ parser.event = "NeedMore" /\ chunk = <<>>
        /\ leftover = <<>> /\ out = <<>> /\ ReadUpTo(response, parser)
        /\ parser.total <= pos /\ chunk = SubSeq(response, parser.total + 1, pos)
    BY <1>0, <2>2 DEF Stages
  <2>4. READ_CHUNK \in Nat
    BY HttpAssumption
  <2>5. /\ n \in Nat /\ n <= READ_CHUNK /\ pos + n \in 0..end
        /\ Bytes(n) \in Seq(Byte) /\ Len(Bytes(n)) = n
        /\ \A a \in 0..pos :
             SubSeq(response, a + 1, pos) \o Bytes(n) = SubSeq(response, a + 1, pos + n)
    BY <1>0, <2>4, ReadOn
  <2>6. parser.total \in 0..pos /\ pos \in Nat
    BY <1>0, <2>3, Responding
  <2>7. Bytes(n) = SubSeq(response, parser.total + 1, pos + n)
    <3>1. chunk \o Bytes(n) = SubSeq(response, parser.total + 1, pos + n)
      BY <2>3, <2>5, <2>6
    <3>2. <<>> \o Bytes(n) = Bytes(n)
      BY <2>5, ConcatEmptySeq
    <3> QED
      BY <2>3, <3>1, <3>2
  <2>8. Bytes(n) = <<>> <=> n = 0
    BY <2>5, EmptySeq
  <2>9. TypeOK'
    BY <1>0, <2>1, <2>2, <2>5 DEF TypeOK, Outcomes
  <2>10. Stages'
    BY <2>1, <2>2, <2>3, <2>5, <2>6, <2>7, <2>8 DEF Stages
  <2> QED
    BY <1>0, <2>1, <2>2, <2>3, <2>9, <2>10 DEF IInv, Decided, BodyInOrder, ImageIsWhole
<1>4. CASE PushByte
  <2> DEFINE q == Push(parser, Head(chunk))
  <2>1. /\ phase = "push" /\ parser' = q
        /\ \/ /\ q.event = "NeedMore" /\ chunk' = Tail(chunk)
              /\ phase' = IF chunk' = <<>> THEN "head" ELSE "push"
              /\ UNCHANGED leftover
           \/ /\ q.event = "Complete" /\ chunk' = <<>>
              /\ leftover' = Tail(chunk) /\ phase' = Verdict(q)
           \/ /\ q.event = "Reject" /\ chunk' = <<>>
              /\ phase' = "failed" /\ UNCHANGED leftover
        /\ UNCHANGED <<response, consumer, end, pos, out>>
    BY <1>4 DEF PushByte, given
  <2>2. /\ parser.event = "NeedMore" /\ chunk # <<>>
        /\ leftover = <<>> /\ out = <<>> /\ ReadUpTo(response, parser)
        /\ parser.total <= pos /\ chunk = SubSeq(response, parser.total + 1, pos)
    BY <1>0, <2>1 DEF Stages
  <2>3. /\ response \in Seq(Byte) /\ chunk \in Seq(Byte) /\ parser \in Parser
        /\ parser.total \in Nat /\ pos \in 0..Len(response) /\ Len(response) \in Nat
        /\ pos \in Nat
    BY <1>0, Responding DEF TypeOK
  <2> DEFINE t == parser.total + 1
  <2>4. t \in 1..Len(response) /\ pos \in t..Len(response) /\ parser.total < Len(response)
    <3>1. parser.total = pos => chunk = <<>>
      BY <2>2, <2>3, SubSeqEmpty
    <3> QED
      BY <2>2, <2>3, <3>1
  <2>5. chunk = SubSeq(response, t, pos) /\ t = parser.total + 1 /\ t \in Nat
    BY <2>2, <2>3
  <2> HIDE DEF t, q
  <2>6. Head(chunk) = response[t] /\ Tail(chunk) = SubSeq(response, t + 1, pos)
    BY <2>3, <2>4, <2>5, HeadTailOfSubSeq
  <2>7. q = Push(parser, response[parser.total + 1])
    BY <2>5, <2>6 DEF q
  <2>8. Len(parser.line) <= MAX_HEAD_BYTES
    BY <1>0 DEF TypeOK
  <2>9. /\ q \in Parser /\ Len(q.line) <= MAX_HEAD_BYTES /\ Decided(response, q)
        /\ q.event = "NeedMore" => ReadUpTo(response, q)
        /\ q.event # "NeedMore" => q.state = "done"
        /\ q.event # "Reject" => q.total = t
    BY <2>2, <2>3, <2>4, <2>5, <2>7, <2>8, PushReads
  <2>10. Tail(chunk) \in Seq(Byte) /\ Len(Tail(chunk)) < READ_CHUNK /\ <<>> \in Seq(Byte)
    <3>1. Tail(chunk) \in Seq(Byte) /\ Len(Tail(chunk)) = Len(chunk) - 1 /\ <<>> \in Seq(Byte)
      BY <2>2, <2>3, HeadTailProperties
    <3>2. Len(chunk) <= READ_CHUNK /\ READ_CHUNK \in Nat /\ Len(chunk) \in Nat
      BY <1>0, <2>3, HttpAssumption DEF TypeOK
    <3> QED
      BY <3>1, <3>2
  <2>11. Verdict(q) \in {"missing", "failed", "body"}
         /\ (Verdict(q) = "body" => q.status = 200 /\ q.length \in 0..MaxBody)
    BY <2>9, HttpAssumption DEF Verdict, Parser, None
  <2>12. TypeOK'
    <3>1. phase' \in Operations \cup {"push"} \cup Outcomes
      BY <2>1, <2>11 DEF Operations, Outcomes
    <3>2. /\ {chunk', leftover', out'} \subseteq Seq(Byte)
          /\ Len(chunk') <= READ_CHUNK /\ Len(leftover') < READ_CHUNK
      <4>1. Len(<<>>) = 0 /\ READ_CHUNK \in Nat \ {0} /\ Len(Tail(chunk)) \in Nat
        BY <2>10, HttpAssumption
      <4>2. {leftover, out} \subseteq Seq(Byte) /\ Len(leftover) < READ_CHUNK
        BY <1>0 DEF TypeOK
      <4>3. chunk' \in {Tail(chunk), <<>>} /\ leftover' \in {leftover, Tail(chunk)}
        BY <2>1
      <4>4. Len(chunk') <= READ_CHUNK
        <5>1. Len(Tail(chunk)) <= READ_CHUNK /\ Len(<<>>) <= READ_CHUNK
          BY <2>10, <4>1
        <5> QED
          BY <4>3, <5>1
      <4>5. Len(leftover') < READ_CHUNK
        BY <2>10, <4>2, <4>3
      <4> QED
        BY <2>1, <2>10, <4>2, <4>3, <4>4, <4>5
    <3> QED
      BY <1>0, <2>1, <2>9, <3>1, <3>2 DEF TypeOK
  <2>13. CASE q.event = "NeedMore"
    <3>1. /\ chunk' = Tail(chunk) /\ phase' = IF chunk' = <<>> THEN "head" ELSE "push"
          /\ leftover' = leftover
      BY <2>1, <2>13
    <3>2. q.total <= pos /\ chunk' = SubSeq(response, q.total + 1, pos)
      <4>1. q.total = t /\ t <= pos
        BY <2>4, <2>9, <2>13
      <4> QED
        BY <2>6, <3>1, <4>1
    <3>3. Stages'
      BY <2>1, <2>2, <2>9, <2>13, <3>1, <3>2 DEF Stages
    <3> QED
      BY <2>1, <2>9, <2>12, <2>13, <3>1, <3>3
         DEF IInv, BodyInOrder, ImageIsWhole, Decided
  <2>14. CASE q.event = "Reject"
    <3>1. chunk' = <<>> /\ phase' = "failed" /\ leftover' = leftover
      BY <2>1, <2>14
    <3>2. Stages'
      BY <2>1, <2>9, <2>14, <3>1 DEF Stages
    <3> QED
      BY <2>1, <2>9, <2>12, <2>14, <3>1, <3>2
         DEF IInv, BodyInOrder, ImageIsWhole, Decided
  <2>15. CASE q.event = "Complete"
    <3>1. chunk' = <<>> /\ leftover' = Tail(chunk) /\ phase' = Verdict(q)
      BY <2>1, <2>15
    <3>2. Stages'
      <4>1. q.total <= pos
        BY <2>4, <2>9, <2>15
      <4> QED
        BY <2>1, <2>9, <2>11, <2>15, <3>1, <4>1 DEF Stages
    <3>3. HeadEnd(response) = t
      BY <2>9, <2>15 DEF Decided
    <3>4. out' \o leftover' = SubSeq(response, t + 1, pos)
      <4>1. <<>> \o Tail(chunk) = Tail(chunk)
        BY <2>10, ConcatEmptySeq
      <4> QED
        BY <2>1, <2>2, <2>6, <3>1, <4>1
    <3>5. BodyInOrder'
      BY <2>1, <2>2, <3>3, <3>4 DEF BodyInOrder
    <3> QED
      BY <2>1, <2>9, <2>11, <2>12, <3>1, <3>2, <3>5 DEF IInv, ImageIsWhole, Decided
  <2>16. q.event \in {"NeedMore", "Reject", "Complete"}
    BY <2>9 DEF Parser
  <2> QED
    BY <2>13, <2>14, <2>15, <2>16
<1>5. ASSUME ReadLeftover \/ ReadBody PROVE IInv'
  <2>1. /\ phase = "body" /\ Remaining > 0 /\ UNCHANGED <<response, consumer, end, chunk, parser, phase>>
        /\ parser.event = "Complete" /\ parser.state = "done" /\ chunk = <<>>
        /\ parser.length \in Nat
    BY <1>0, <1>5, HttpAssumption DEF ReadLeftover, ReadBody, Stages, given
  <2>2. /\ leftover \in Seq(Byte) /\ out \in Seq(Byte) /\ Len(out) \in Nat
        /\ Len(leftover) \in Nat /\ CHUNK_BYTES \in Nat \ {0} /\ pos \in Nat
        /\ response \in Seq(Byte) /\ end \in 0..Len(response) /\ Len(response) \in Nat
    BY <1>0, Responding, HttpAssumption DEF TypeOK
  <2>3. Room \in Nat \ {0} /\ Len(out) + Room <= parser.length
    BY <2>1, <2>2 DEF Room, Remaining
  <2>4. out \o leftover = SubSeq(response, HeadEnd(response) + 1, pos)
    BY <1>0, <2>1 DEF BodyInOrder
  <2>5. ASSUME /\ out' \in Seq(Byte) /\ Len(out') <= parser.length
               /\ leftover' \in Seq(Byte) /\ Len(leftover') < READ_CHUNK
               /\ pos' \in 0..end /\ pos <= pos'
               /\ out' \o leftover' = SubSeq(response, HeadEnd(response) + 1, pos')
        PROVE  IInv'
    <3>1. TypeOK'
      BY <1>0, <2>1, <2>5 DEF TypeOK
    <3>2. Stages'
      <4>1. parser.total <= pos'
        BY <1>0, <2>1, <2>2, <2>5, Responding DEF Stages
      <4> QED
        BY <1>0, <2>1, <4>1 DEF Stages
    <3> QED
      BY <1>0, <2>1, <2>5, <3>1, <3>2 DEF IInv, Decided, BodyInOrder, ImageIsWhole
  <2>6. CASE ReadLeftover
    <3> DEFINE n == IF Len(leftover) < Room THEN Len(leftover) ELSE Room
               l == Len(leftover)
    <3>1. /\ out' = out \o SubSeq(leftover, 1, n) /\ leftover' = SubSeq(leftover, n + 1, l)
          /\ pos' = pos
      BY <2>6 DEF ReadLeftover
    <3>2. n \in Nat /\ n <= Room /\ n <= l /\ l \in Nat /\ READ_CHUNK \in Nat /\ l < READ_CHUNK
      BY <1>0, <2>2, <2>3, HttpAssumption DEF TypeOK
    <3> HIDE DEF n
    <3>3. /\ SubSeq(leftover, 1, n) \in Seq(Byte) /\ Len(SubSeq(leftover, 1, n)) = n
          /\ SubSeq(leftover, n + 1, l) \in Seq(Byte)
          /\ Len(SubSeq(leftover, n + 1, l)) = l - n
      <4>1. \A i \in 1..l : leftover[i] \in Byte
        BY <2>2, ElementOfSeq
      <4>2. 1 \in Int /\ n \in Int /\ l \in Int /\ n + 1 \in Int
            /\ \A i \in 1..n : leftover[i] \in Byte
        BY <3>2, <4>1
      <4>3. \A i \in (n + 1)..l : leftover[i] \in Byte
        BY <3>2, <4>1
      <4>4. /\ SubSeq(leftover, 1, n) \in Seq(Byte)
            /\ Len(SubSeq(leftover, 1, n)) = IF 1 <= n THEN n - 1 + 1 ELSE 0
        BY <4>2, SubSeqProperties
      <4> DEFINE k == n + 1
      <4>5. k \in Int /\ k = n + 1 /\ \A i \in k..l : leftover[i] \in Byte
        BY <4>2, <4>3
      <4> HIDE DEF k, l
      <4>6. /\ SubSeq(leftover, k, l) \in Seq(Byte)
            /\ Len(SubSeq(leftover, k, l)) = IF k <= l THEN l - k + 1 ELSE 0
        BY <4>2, <4>5, SubSeqProperties
      <4> QED
        BY <3>2, <4>4, <4>5, <4>6
    <3>4. out' \o leftover' = out \o leftover
      <4>1. (out \o SubSeq(leftover, 1, n)) \o SubSeq(leftover, n + 1, l)
              = out \o (SubSeq(leftover, 1, n) \o SubSeq(leftover, n + 1, l))
        <5> DEFINE A == SubSeq(leftover, 1, n)
                   B == SubSeq(leftover, n + 1, l)
        <5>1. A \in Seq(Byte) /\ B \in Seq(Byte) /\ out \in Seq(Byte)
          BY <2>2, <3>3
        <5> HIDE DEF A, B, l
        <5>2. (out \o A) \o B = out \o (A \o B)
          BY <5>1, ConcatAssociative
        <5> QED
          BY <5>2 DEF A, B
      <4>2. SubSeq(leftover, 1, n) \o SubSeq(leftover, n + 1, l) = SubSeq(leftover, 1, l)
        <5>1. 1 \in 1..(l + 1) /\ n \in (1 - 1)..l /\ l \in n..l
          BY <3>2
        <5> QED
          BY <2>2, <5>1, ConcatAdjacentSubSeq
      <4>3. SubSeq(leftover, 1, l) = leftover
        BY <2>2, SubSeqFull
      <4> QED
        BY <3>1, <4>1, <4>2, <4>3
    <3>5. out' \in Seq(Byte) /\ Len(out') = Len(out) + n
      BY <2>2, <3>1, <3>3, ConcatProperties
    <3>6. Len(out') <= parser.length /\ Len(leftover') < READ_CHUNK
      BY <2>1, <2>2, <2>3, <3>1, <3>2, <3>3, <3>5
    <3>7. pos' \in 0..end /\ pos <= pos'
      BY <1>0, <2>2, <3>1 DEF TypeOK
    <3> QED
      BY <2>4, <2>5, <3>1, <3>3, <3>4, <3>5, <3>6, <3>7
  <2>7. CASE ReadBody
    <3>1. PICK n \in Available(Room) : out' = out \o Bytes(n) /\ pos' = pos + n
      BY <2>7 DEF ReadBody
    <3>2. leftover = <<>> /\ leftover' = <<>>
      BY <2>7 DEF ReadBody
    <3>3. /\ n \in Nat /\ n <= Room /\ pos + n \in 0..end
          /\ Bytes(n) \in Seq(Byte) /\ Len(Bytes(n)) = n
          /\ \A a \in 0..pos :
               SubSeq(response, a + 1, pos) \o Bytes(n) = SubSeq(response, a + 1, pos + n)
      BY <1>0, <2>3, ReadOn
    <3>4. HeadEnd(response) \in 0..pos
      <4>1. parser.total = HeadEnd(response) /\ parser.total <= pos
        BY <1>0, <2>1 DEF Stages, Decided
      <4> QED
        BY <1>0, <2>2, <4>1, Responding
    <3>5. out = SubSeq(response, HeadEnd(response) + 1, pos)
      BY <2>2, <2>4, <3>2, ConcatEmptySeq
    <3>6. out' \in Seq(Byte) /\ Len(out') = Len(out) + n /\ out' \o <<>> = out'
      <4>1. out' \in Seq(Byte) /\ Len(out') = Len(out) + n
        BY <2>2, <3>1, <3>3, ConcatProperties
      <4> QED
        BY <4>1, ConcatEmptySeq
    <3>7. out' \o leftover' = SubSeq(response, HeadEnd(response) + 1, pos')
      BY <3>1, <3>2, <3>3, <3>4, <3>5, <3>6
    <3>8. Len(out') <= parser.length
      BY <2>1, <2>2, <2>3, <3>3, <3>6
    <3>9. leftover' \in Seq(Byte) /\ Len(leftover') < READ_CHUNK
      BY <1>0, <2>2, <3>2 DEF TypeOK
    <3>10. pos' \in 0..end /\ pos <= pos'
      BY <2>2, <3>1, <3>3
    <3> QED
      BY <2>5, <3>6, <3>7, <3>8, <3>9, <3>10
  <2> QED
    BY <1>5, <2>6, <2>7
<1>6. CASE BodyEnds \/ BodyDone \/ OperationFails
  <2>1. UNCHANGED <<response, consumer, end, pos, chunk, parser, leftover, out>>
    BY <1>6 DEF BodyEnds, BodyDone, OperationFails, given
  <2>2. \/ phase' = "failed"
        \/ phase' = "ok" /\ phase = "body" /\ (consumer = "image" => Remaining = 0)
    BY <1>6 DEF BodyEnds, BodyDone, OperationFails
  <2>3. Stages'
    BY <1>0, <2>1, <2>2 DEF Stages
  <2>4. ImageIsWhole'
    <3>1. Remaining = 0 /\ phase = "body" => Len(out) = parser.length
      BY <1>0, Responding, HttpAssumption DEF Remaining, Stages
    <3> QED
      BY <2>1, <2>2, <3>1 DEF ImageIsWhole
  <2>5. phase' \in Operations \cup Outcomes
    BY <2>2 DEF Outcomes
  <2> QED
    BY <2>1, <2>3, <2>4, <2>5, PhaseChanges
<1>7. CASE UNCHANGED vars
  BY <1>0, <1>7, PhaseChanges DEF vars, TypeOK, Stages, ImageIsWhole
<1> QED
  BY <1>1, <1>2, <1>3, <1>4, <1>5, <1>6, <1>7 DEF Next, Progress

LEMMA Invariant == Spec => []IInv
BY ExchangeInit, ExchangeNext, PTL DEF Spec

\* Type correctness, and with it that the rest of a read always fits the buffer
\* for it, and a line the parser's.
THEOREM HttpTypeCorrect == Spec => []TypeOK
<1>1. IInv => TypeOK
  BY DEF IInv
<1> QED
  BY <1>1, Invariant, PTL

\* Fed one byte at a time, in whatever pieces the network cuts a response, the
\* parser takes and refuses the heads that the definition on the whole response
\* does, finds the same end, status and length, and never reads on behind an
\* acceptable head.
THEOREM ParserAgrees == Spec => []HeadAgrees
<1>1. ASSUME IInv PROVE HeadAgrees
  <2>1. response \in Seq(Byte) /\ parser \in Parser
    BY <1>1, Responding DEF IInv, TypeOK
  <2>2. ASSUME parser.event = "NeedMore", Acceptable(response)
        PROVE  parser.total < HeadEnd(response)
    BY <1>1, <2>1, <2>2, HeadEndsLater DEF IInv, Stages, Acceptable
  <2> QED
    BY <1>1, <2>2 DEF IInv, Decided, HeadAgrees
<1> QED
  BY <1>1, Invariant, PTL

\* No byte of the body is lost, repeated or reordered between the read that met the
\* end of the head and those behind it, and an image is taken for complete only with
\* every byte that was declared: read_small and apply_update.
THEOREM BodyArrives == Spec => []BodyIsWhole
<1>1. IInv => BodyIsWhole
  BY DEF IInv, BodyIsWhole
<1> QED
  BY <1>1, Invariant, PTL

\* A step that refuses the response, no operation having failed, refuses one
\* that was not acceptable, or had not arrived in full.
LEMMA RefusesRightly == IInv /\ Next /\ phase' = "failed" /\ ~OperationFails => ~Arrived
<1> SUFFICES ASSUME IInv, Next, phase' = "failed", ~OperationFails, Arrived PROVE FALSE
  OBVIOUS
<1>0. TypeOK /\ Stages /\ Decided(response, parser) /\ BodyInOrder
  BY DEF IInv
<1>1. /\ response \in Seq(Byte) /\ Len(response) \in Nat /\ end \in Nat /\ pos \in 0..end
      /\ end <= Len(response)
  BY <1>0, Responding DEF TypeOK
<1>2. Acceptable(response) /\ Status(response).n = 200 /\ Blanks(response) # {}
  BY DEF Arrived, Acceptable
<1>3. HeadEnd(response) \in Nat
  <2>1. HeadEnd(response) \in Blanks(response)
    BY <1>1, <1>2, HeadParts
  <2> QED
    BY <2>1 DEF Blanks, LineEnds
<1>4. PICK i \in Lengths(response) : TRUE
  <2>1. Cardinality(Lengths(response)) = 1
    BY <1>2 DEF Acceptable
  <2> QED
    BY <2>1, FS_EmptySet
<1> DEFINE length == Says(response, i).n
<1>5. length \in Nat /\ length <= MaxBody /\ HeadEnd(response) + length <= end
  <2>1. Says(response, i) \in Byte
    BY <1>1, <1>4, SaysType DEF Lengths, Headers, HeadLines
  <2> QED
    BY <1>4, <2>1 DEF Arrived, Byte
<1> HIDE DEF length
\* The connection has ended, but not within the head.
<1>6. CASE ReadHead
  <2>1. parser.event = "NeedMore" /\ ReadUpTo(response, parser)
    BY <1>0, <1>6 DEF ReadHead, Stages
  <2>2. chunk = <<>> /\ chunk = SubSeq(response, parser.total + 1, pos) /\ parser.total <= pos
    BY <1>0, <1>6, <2>1 DEF ReadHead, Stages
  <2>3. parser \in Parser /\ parser.total \in Nat
    BY <1>0, Responding DEF TypeOK
  <2>4. parser.total = pos
    <3>1. SUFFICES ASSUME parser.total < pos PROVE FALSE
      BY <1>1, <2>2, <2>3
    <3>2. Len(chunk) = pos - parser.total
      <4> DEFINE m == parser.total + 1
      <4>1. /\ m \in Int /\ pos \in Int /\ m <= pos /\ pos - m + 1 = pos - parser.total
            /\ \A j \in m..pos : response[j] \in Byte
        BY <1>1, <2>3, <3>1, ElementOfSeq
      <4>2. chunk = SubSeq(response, m, pos)
        BY <2>2
      <4> HIDE DEF m
      <4> QED
        BY <4>1, <4>2, SubSeqProperties
    <3> QED
      BY <1>1, <2>2, <2>3, <3>1, <3>2
  <2>5. pos = end
    <3>1. PICK n \in Available(READ_CHUNK) : phase' = IF n = 0 THEN "failed" ELSE "push"
      BY <1>6 DEF ReadHead
    <3>2. n = 0
      BY <3>1
    <3> QED
      BY <3>1, <3>2 DEF Available
  <2>6. parser.total < HeadEnd(response)
    BY <1>1, <1>2, <2>1, <2>3, HeadEndsLater
  <2> QED
    BY <1>1, <1>3, <1>5, <2>3, <2>4, <2>5, <2>6
\* What the last byte of the head decides.
<1>7. CASE PushByte
  <2>1. response' = response /\ parser'.event # "NeedMore"
        /\ (parser'.event = "Complete" => Verdict(parser') = "failed")
    <3> DEFINE q == Push(parser, Head(chunk))
    <3>1. /\ parser' = q /\ response' = response
          /\ \/ q.event = "NeedMore" /\ phase' = IF chunk' = <<>> THEN "head" ELSE "push"
             \/ q.event = "Complete" /\ phase' = Verdict(q)
             \/ q.event = "Reject"
      BY <1>7 DEF PushByte, given
    <3> HIDE DEF q
    <3> QED
      BY <3>1
  <2>2. Decided(response, parser') /\ parser' \in Parser
    BY <2>1, ExchangeNext DEF IInv, TypeOK
  <2>3. parser'.event = "Complete" /\ Verdict(parser') = "failed"
    BY <1>2, <2>1, <2>2 DEF Decided, Parser
  <2>4. parser'.status = 200 /\ parser'.length = length
    BY <1>2, <1>4, <2>2, <2>3 DEF Decided, length
  <2> QED
    BY <1>5, <2>3, <2>4, HttpAssumption DEF Verdict, None
\* An image that is too short.
<1>8. CASE BodyEnds
  <2>1. /\ phase = "body" /\ Remaining > 0 /\ leftover = <<>> /\ pos = end
        /\ parser.event = "Complete"
    BY <1>0, <1>8 DEF BodyEnds, Stages
  <2>2. parser.length = length
    BY <1>0, <1>4, <2>1 DEF Decided, length
  <2>3. out = SubSeq(response, HeadEnd(response) + 1, end)
    <3>1. out \o leftover = SubSeq(response, HeadEnd(response) + 1, end)
      BY <1>0, <2>1 DEF BodyInOrder
    <3>2. out \in Seq(Byte)
      BY <1>0 DEF TypeOK
    <3> QED
      BY <2>1, <3>1, <3>2, ConcatEmptySeq
  <2>4. Len(out) = end - HeadEnd(response)
    <3> DEFINE m == HeadEnd(response) + 1
    <3>1. /\ m \in Int /\ end \in Int /\ m <= end + 1 /\ end - m + 1 = end - HeadEnd(response)
          /\ \A j \in m..end : response[j] \in Byte
      BY <1>1, <1>3, <1>5, ElementOfSeq
    <3>2. out = SubSeq(response, m, end)
      BY <2>3
    <3> HIDE DEF m
    <3>3. Len(out) = IF m <= end THEN end - m + 1 ELSE 0
      BY <3>1, <3>2, SubSeqProperties
    <3> QED
      BY <3>1, <3>3
  <2> QED
    BY <1>1, <1>3, <1>5, <2>1, <2>2, <2>4 DEF Remaining
<1>9. CASE ReadLeftover \/ ReadBody
  BY <1>9 DEF ReadLeftover, ReadBody
<1>10. CASE Resolve \/ Connect \/ Handshake \/ Send \/ BodyDone
  BY <1>10 DEF Resolve, Connect, Handshake, Send, BodyDone
<1> QED
  BY <1>6, <1>7, <1>8, <1>9, <1>10 DEF Next, Progress

\* The parser does not refuse a response that has arrived in full for the way it
\* was cut up.
THEOREM ArrivedIsNotRefused == Spec => ArrivedIsTaken
<1>1. IInv /\ [Next]_vars => [phase' = "failed" /\ ~OperationFails => ~Arrived]_vars
  BY RefusesRightly
<1> QED
  BY <1>1, Invariant, PTL DEF Spec, ArrivedIsTaken

\* A step that leads from one operation to a later one, or to an outcome.
LEMMA PhaseAdvances ==
    \/ phase = "resolve"   /\ phase' = "connect"
    \/ phase = "connect"   /\ phase' \in {"handshake", "send"}
    \/ phase = "handshake" /\ phase' = "send"
    \/ phase = "send"      /\ phase' = "head"
    \/ phase \in Operations \cup {"push"} /\ phase' \in Outcomes
    => OperationsLeft' < OperationsLeft
BY DEF OperationsLeft, Operations, Outcomes

\* A step of one of the loops that leaves fewer bytes, or ends it.
LEMMA LoopAdvances ==
    ASSUME phase \in {"head", "push", "body"},
           phase' \in {"head", "push", "body"} \cup Outcomes,
           phase' \notin Outcomes => BytesLeft' < BytesLeft
    PROVE  \/ OperationsLeft' < OperationsLeft
           \/ OperationsLeft' = OperationsLeft /\ BytesLeft' < BytesLeft
<1>1. CASE phase' \in Outcomes
  BY <1>1, PhaseAdvances DEF Operations
<1>2. CASE phase' \notin Outcomes
  BY <1>2 DEF OperationsLeft, Outcomes
<1> QED
  BY <1>1, <1>2

\* Every step is of one of these two kinds.  What a read brings is counted twice
\* while it is to come and once while it waits to be pushed, or to be taken.
LEMMA StepAdvances ==
    ASSUME IInv, Next
    PROVE  \/ OperationsLeft' < OperationsLeft
           \/ OperationsLeft' = OperationsLeft /\ BytesLeft' < BytesLeft
<1>0. TypeOK /\ Stages
  BY DEF IInv
<1>1. /\ end \in Nat /\ pos \in Nat /\ pos <= end
      /\ chunk \in Seq(Byte) /\ leftover \in Seq(Byte) /\ out \in Seq(Byte)
      /\ Len(chunk) \in Nat /\ Len(leftover) \in Nat /\ Len(out) \in Nat
  BY <1>0, Responding DEF TypeOK
<1>2. CASE Resolve \/ Connect \/ Handshake \/ Send
  BY <1>2, PhaseAdvances DEF Resolve, Connect, Handshake, Send
<1>3. CASE BodyEnds \/ BodyDone \/ OperationFails
  <2>1. phase \in Operations /\ phase' \in Outcomes
    BY <1>3 DEF BodyEnds, BodyDone, OperationFails, Operations, Outcomes
  <2> QED
    BY <2>1, PhaseAdvances
<1>4. CASE ReadHead
  <2>1. PICK n \in Available(READ_CHUNK) :
           /\ chunk' = Bytes(n) /\ pos' = pos + n
           /\ phase' = IF n = 0 THEN "failed" ELSE "push"
    BY <1>4 DEF ReadHead
  <2>2. phase = "head" /\ end' = end /\ leftover' = leftover /\ chunk = <<>>
    BY <1>0, <1>4 DEF ReadHead, given, Stages
  <2>3. n \in Nat /\ Len(Bytes(n)) = n
    BY <1>0, <2>1, ReadOn, HttpAssumption
  <2>4. n # 0 => BytesLeft' < BytesLeft
    BY <1>1, <2>1, <2>2, <2>3 DEF BytesLeft
  <2> QED
    BY <2>1, <2>2, <2>4, LoopAdvances DEF Outcomes
<1>5. CASE PushByte
  <2>1. phase = "push" /\ chunk # <<>> /\ leftover \in Seq(Byte) /\ pos' = pos /\ end' = end
    BY <1>0, <1>1, <1>5 DEF PushByte, given, Stages
  <2>2. \/ chunk' = Tail(chunk) /\ leftover' = leftover /\ phase' \in {"head", "push"}
        \/ /\ chunk' = <<>> /\ leftover' = Tail(chunk) /\ leftover = <<>>
           /\ phase' \in Outcomes \cup {"body"}
        \/ phase' = "failed"
    BY <1>0, <1>5 DEF PushByte, Stages, Verdict, Outcomes
  <2>3. Len(chunk) >= 1 /\ Len(Tail(chunk)) = Len(chunk) - 1
    BY <1>1, <2>1, EmptySeq, HeadTailProperties
  <2>4. phase' # "failed" => BytesLeft' < BytesLeft
    BY <1>1, <2>1, <2>2, <2>3 DEF BytesLeft
  <2> QED
    BY <2>1, <2>2, <2>4, LoopAdvances DEF Outcomes
<1>6. ASSUME phase = "body", Remaining > 0 PROVE Room \in Nat /\ Room >= 1
  <2>1. parser.length \in Nat
    BY <1>0, <1>6 DEF Stages
  <2>2. Remaining \in Int
    BY <1>1, <2>1 DEF Remaining
  <2> HIDE DEF Remaining
  <2> QED
    BY <1>6, <2>2, HttpAssumption DEF Room
<1>7. CASE ReadLeftover
  <2> DEFINE n == IF Len(leftover) < Room THEN Len(leftover) ELSE Room
  <2>1. /\ phase = "body" /\ phase' = "body" /\ leftover # <<>>
        /\ leftover' = SubSeq(leftover, n + 1, Len(leftover))
        /\ pos' = pos /\ end' = end /\ chunk' = chunk
    BY <1>7 DEF ReadLeftover, given
  <2>2. n \in 1..Len(leftover)
    BY <1>1, <1>6, <1>7, EmptySeq DEF ReadLeftover
  <2> HIDE DEF n
  <2>3. Len(leftover') = Len(leftover) - n
    <3> DEFINE m == n + 1
               k == Len(leftover)
    <3>1. /\ m \in Int /\ k \in Int /\ (m <= k \/ m = k + 1) /\ k - m + 1 = k - n
          /\ \A j \in m..k : leftover[j] \in Byte
      BY <1>1, <2>2, ElementOfSeq
    <3>2. leftover' = SubSeq(leftover, m, k)
      BY <2>1
    <3> HIDE DEF m, k
    <3>3. Len(leftover') = IF m <= k THEN k - m + 1 ELSE 0
      BY <3>1, <3>2, SubSeqProperties
    <3>4. Len(leftover') = k - n
      BY <3>1, <3>3
    <3> QED
      BY <3>4 DEF k
  <2>4. BytesLeft' < BytesLeft
    <3>1. /\ BytesLeft = 2 * (end - pos) + Len(chunk) + Len(leftover)
          /\ BytesLeft' = 2 * (end - pos) + Len(chunk) + (Len(leftover) - n)
      BY <2>1, <2>3 DEF BytesLeft
    <3>2. n \in Nat /\ n >= 1
      BY <1>1, <2>2
    <3> QED
      BY <1>1, <3>1, <3>2
  <2> QED
    BY <2>1, <2>4, LoopAdvances
<1>8. CASE ReadBody
  <2>1. PICK n \in Available(Room) : pos' = pos + n
    BY <1>8 DEF ReadBody
  <2>2. /\ phase = "body" /\ phase' = "body" /\ pos < end
        /\ end' = end /\ chunk' = chunk /\ leftover' = leftover
    BY <1>8 DEF ReadBody, given
  <2>3. n \in 1..Room
    BY <1>1, <2>1, <2>2 DEF Available
  <2>4. n \in Nat /\ n >= 1
    BY <1>6, <1>8, <2>3 DEF ReadBody
  <2>5. BytesLeft' < BytesLeft
    BY <1>1, <2>1, <2>2, <2>4 DEF BytesLeft
  <2> QED
    BY <2>2, <2>5, LoopAdvances
<1> QED
  BY <1>2, <1>3, <1>4, <1>5, <1>7, <1>8 DEF Next, Progress

\* What is left to do never falls below nothing, so that the loops of get(),
\* read_small and apply_update turn only so often.
THEOREM LeftIsNatural == Spec => [](OperationsLeft \in Nat /\ BytesLeft \in Nat)
<1>1. IInv => OperationsLeft \in Nat /\ BytesLeft \in Nat
  <2> SUFFICES ASSUME IInv PROVE OperationsLeft \in Nat /\ BytesLeft \in Nat
    OBVIOUS
  <2>1. TypeOK
    BY DEF IInv
  <2>2. OperationsLeft \in Nat
    BY <2>1 DEF TypeOK, Operations, Outcomes, OperationsLeft
  <2>3. BytesLeft \in Nat
    BY <2>1, Responding DEF TypeOK, BytesLeft
  <2> QED
    BY <2>2, <2>3
<1> QED
  BY <1>1, Invariant, PTL

\* And every turn of theirs leaves less.
THEOREM TurnsAdvance == Spec => EveryStepAdvances
<1> DEFINE Advance == \/ OperationsLeft' < OperationsLeft
                      \/ OperationsLeft' = OperationsLeft /\ BytesLeft' < BytesLeft
<1>1. IInv /\ [Next]_vars => [Advance]_vars
  BY StepAdvances
<1> QED
  BY <1>1, Invariant, PTL DEF Spec, EveryStepAdvances

==============================================================================
