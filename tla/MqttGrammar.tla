---------------------------- MODULE MqttGrammar ----------------------------
(***************************************************************************)
(* The grammar that the scanner of MqttCodec is meant to accept, by where  *)
(* a text can be split.                                                    *)
(***************************************************************************)
EXTENDS MqttCodec

\* How many backslashes stand before position k, from i on.
Backslashes(t, i, k) ==
    CHOOSE n \in 0..(k - i) :
        /\ \A m \in 1..n : t[k - m] = "bs"
        /\ k - n = i \/ t[k - n - 1] # "bs"

Escaped(t, i, k) == Backslashes(t, i, k) % 2 = 1

IsString(t, i, j) ==
    /\ i < j /\ t[i] = "q" /\ t[j] = "q"
    /\ \A k \in (i + 1)..(j - 1) :
         /\ t[k] \notin {"raw", "nl"}
         /\ t[k] = "q" => Escaped(t, i + 1, k)
    /\ \A k \in (i + 1)..j :
         Escaped(t, i + 1, k) =>
           /\ k < j /\ t[k] \in Escape \cup {"u"}
           /\ t[k] = "u" => \A m \in 1..HexDigits : k + m < j /\ t[k + m] \in Hex

IsDigits(s)       == s # <<>> /\ \A k \in DOMAIN s : s[k] = "dig"
IsSignedDigits(s) == IsDigits(s) \/ (s # <<>> /\ Head(s) = "-" /\ IsDigits(Tail(s)))

IsNumber(t, i, j) ==
    /\ \A k \in i..j : t[k] \in {"-", "dig", ".", "e"}
    /\ \E p \in i..j : \E r \in p..j :
        LET fraction == SubSeq(t, p + 1, r)
            exponent == SubSeq(t, r + 1, j)
        IN  /\ IsSignedDigits(SubSeq(t, i, p))
            /\ fraction = <<>> \/ (Head(fraction) = "." /\ IsDigits(Tail(fraction)))
            /\ exponent = <<>> \/ (Head(exponent) = "e" /\ IsSignedDigits(Tail(exponent)))

Blank(t, i, j) == \A k \in i..j : t[k] \in White

\* What is left of i..j without the white space around it.
TrimLeft(t, i, j)  == CHOOSE k \in i..(j + 1) :
                        Blank(t, i, k - 1) /\ (k = j + 1 \/ t[k] \notin White)
TrimRight(t, i, j) == CHOOSE k \in (i - 1)..j :
                        Blank(t, k + 1, j) /\ (k = i - 1 \/ t[k] \notin White)

RECURSIVE IsValue(_, _, _), IsList(_, _, _, _)

IsMember(t, i, j) ==
    \E k \in i..j :
        /\ t[k] = ":"
        /\ IsString(t, TrimLeft(t, i, k - 1), TrimRight(t, i, k - 1))
        /\ IsValue(t, k + 1, j)

IsItem(kind, t, i, j) == IF kind = "open" THEN IsMember(t, i, j) ELSE IsValue(t, i, j)

\* Members or elements, with commas between them.
IsList(kind, t, i, j) ==
    \/ IsItem(kind, t, i, j)
    \/ \E k \in i..j : /\ t[k] = "comma"
                       /\ IsItem(kind, t, i, k - 1)
                       /\ IsList(kind, t, k + 1, j)

IsValue(t, left, right) ==
    LET i == TrimLeft(t, left, right)
        j == TrimRight(t, left, right)
        Delimited(open, close) ==
            /\ i < j /\ t[i] = open /\ t[j] = close
            /\ Blank(t, i + 1, j - 1) \/ IsList(open, t, i + 1, j - 1)
    IN  /\ i <= j
        /\ \/ IsString(t, i, j) \/ IsNumber(t, i, j)
           \/ i = j /\ t[i] = "word"
           \/ Delimited("open", "close") \/ Delimited("[", "]")

IsObject(t) ==
    IsValue(t, 1, Len(t)) /\ t[TrimLeft(t, 1, Len(t))] = "open"

\* The member from i to j, if it is a uuid member.
IsUuidMember(t, i, j) ==
    \E k \in i..j : /\ t[k] = ":"
                    /\ SubSeq(t, TrimLeft(t, i, k - 1), TrimRight(t, i, k - 1))
                         = <<"q", "uuid", "q">>

\* The first uuid among the members from i to j is the string `uuid`.
RECURSIVE FirstUuidIs(_, _, _, _)
FirstUuidIs(uuid, t, i, j) ==
    \E k \in i..(j + 1) :
        /\ k = j + 1 \/ t[k] = "comma"
        /\ IsMember(t, i, k - 1)
        /\ IF IsUuidMember(t, i, k - 1)
             THEN /\ k = j + 1 \/ IsList("open", t, k + 1, j)
                  /\ \E c \in i..(k - 1) :
                       LET l == TrimLeft(t, c + 1, k - 1)
                           r == TrimRight(t, c + 1, k - 1)
                       IN  /\ t[c] = ":" /\ \A n \in i..(c - 1) : t[n] # ":"
                           /\ IsString(t, l, r)
                           /\ SubSeq(t, l + 1, r - 1) = uuid
             ELSE k <= j /\ FirstUuidIs(uuid, t, k + 1, j)

\* The text is an object whose first top-level uuid is the string `uuid`.
IsRequest(uuid, t) ==
    /\ IsObject(t)
    /\ FirstUuidIs(uuid, t, TrimLeft(t, 1, Len(t)) + 1, TrimRight(t, 1, Len(t)) - 1)
=============================================================================
