------------------------------- MODULE OtaText -------------------------------
(***************************************************************************)
(* The text conversions of core/src/ota/mod.rs: the version and the digest *)
(* that a device reads from the server, the URL it reads them at, and the  *)
(* credentials it sends.                                                   *)
(*                                                                         *)
(* A text is a sequence of characters, and a URL's scheme is one of them.  *)
(* An Option, or a Result without its error, is a set of at most one       *)
(* element.                                                                *)
(***************************************************************************)
EXTENDS Integers, FiniteSets, Sequences, SequencesExt, FiniteSetsExt

CONSTANTS
    U32_MAX,     \* largest version, 2^32 - 1 in the code
    U16_MAX,     \* largest port, 2^16 - 1 in the code
    HASH_BYTES,  \* length of a digest, 32 in the code
    PATH_BYTES   \* capacity of a path, 192 in the code

VARIABLES
    file,    \* what `version`, or the file of a digest, holds
    secret,  \* user and password, as bytes
    room     \* size of the buffer for the Authorization header's value

ASSUME TextAssumption == {U32_MAX, U16_MAX, HASH_BYTES, PATH_BYTES} \subseteq Nat \ {0}

Whitespace == {"sp", "nl"}
Digits     == <<"0", "1", "2", "3", "4", "5", "6", "7", "8", "9">>
HexDigit   == <<"0", "1", "2", "3", "4", "5", "6", "7", "8", "9", "a", "b", "c", "d", "e", "f">>

DigitValue(c)  == (CHOOSE d \in DOMAIN HexDigit : HexDigit[d] = c) - 1
AreDigits(s)   == s # <<>> /\ ToSet(s) \subseteq ToSet(Digits)

------------------------------------------------------------------------------
(* Version and digest *)

trim_ascii(s) ==
    LET kept == {k \in DOMAIN s : s[k] \notin Whitespace}
    IN  IF kept = {} THEN <<>> ELSE SubSeq(s, Min(kept), Max(kept))

\* Faulty checked: what does not fit wraps.
wrapped(n, max) == {n % (max + 1)}

\* checked_mul and checked_add.
checked(n, max) == IF n <= max THEN {n} ELSE {}

\* A decimal number, unless it exceeds the largest; what the first k digits come to.
Decimal(s, max) ==
    LET value[k \in 0..Len(s)] ==
          IF k = 0 THEN {0}
          ELSE UNION {checked(n * 10 + DigitValue(s[k]), max) : n \in value[k - 1]}
    IN  value[Len(s)]

parse_version(body) ==
    LET s == trim_ascii(body)
    IN  IF AreDigits(s) THEN Decimal(s, U32_MAX) ELSE {}

\* write! of a number, and write_u32.
to_decimal(n) ==
    LET digits[m \in 0..n] ==
          IF m < 10 THEN <<Digits[1 + m]>>
          ELSE Append(digits[m \div 10], Digits[1 + (m % 10)])
    IN  digits[n]

parse_sha256_hex(body) ==
    LET s == trim_ascii(body)
    IN  IF Len(s) = 2 * HASH_BYTES /\ ToSet(s) \subseteq ToSet(HexDigit)
          THEN {[k \in 1..HASH_BYTES |-> 16 * DigitValue(s[2 * k - 1]) + DigitValue(s[2 * k])]}
          ELSE {}

------------------------------------------------------------------------------
(* URL: "h" is a valid host byte other than a digit, "bad" an invalid one. *)

valid_host_byte(c) == c = "h" \/ c \in ToSet(Digits)
valid_segment(s)   == s # <<>> /\ \A k \in DOMAIN s : valid_host_byte(s[k])

Places(c, s) == {k \in DOMAIN s : s[k] = c}

\* str::parse::<u16>, which takes a plus sign.
ParsePort(s) ==
    LET digits == IF s # <<>> /\ Head(s) = "+" THEN Tail(s) ELSE s
    IN  IF AreDigits(digits) THEN Decimal(digits, U16_MAX) \ {0} ELSE {}

\* The host and the port, after the last colon or by the scheme.
parse_authority(s, tls) ==
    LET colons == Places(":", s)
        host   == IF colons = {} THEN s ELSE SubSeq(s, 1, Max(colons) - 1)
        ports  == IF colons = {} THEN {IF tls THEN 443 ELSE 80}
                  ELSE ParsePort(SubSeq(s, Max(colons) + 1, Len(s)))
    IN  IF valid_segment(host) THEN {[host |-> host, port |-> p] : p \in ports} ELSE {}

\* The nonempty pieces between the slashes.
Segments(s) ==
    LET cuts    == SetToSortSeq(Places("/", s) \cup {0, Len(s) + 1}, <)
        pieces  == [k \in 1..(Len(cuts) - 1) |-> SubSeq(s, cuts[k] + 1, cuts[k + 1] - 1)]
    IN  SelectSeq(pieces, LAMBDA piece : piece # <<>>)

\* base and project, base being split at the first "://".
parse_url(base, project) ==
    LET marks     == {k \in 1..(Len(base) - 2) : SubSeq(base, k, k + 2) = <<":", "/", "/">>}
        scheme    == SubSeq(base, 1, Min(marks) - 1)
        rest      == SubSeq(base, Min(marks) + 3, Len(base))
        slash     == Min(Places("/", rest) \cup {Len(rest) + 1})
        tls       == scheme = <<"https">>
        segments  == Append(Segments(SubSeq(rest, slash, Len(rest))), project)
        path      == FlattenSeq([k \in DOMAIN segments |-> <<"/">> \o segments[k]])
    IN  IF /\ marks # {} /\ scheme \in {<<"http">>, <<"https">>}
           /\ \A k \in DOMAIN segments : valid_segment(segments[k])
           /\ Len(path) <= PATH_BYTES
          THEN {[tls |-> tls, host |-> a.host, port |-> a.port, path |-> path] :
                  a \in parse_authority(SubSeq(rest, 1, slash - 1), tls)}
          ELSE {}

------------------------------------------------------------------------------
(* Base64, of sequences of bytes into sequences of sextets and Pad *)

Pad == 64  \* "="

\* Faulty Quantum: bytes that are missing are sent as zeros.
QuantumUnpadded(s, i) ==
    LET byte(k) == IF i + k <= Len(s) THEN s[i + k] ELSE 0
        n       == byte(1) * 65536 + byte(2) * 256 + byte(3)
    IN  <<n \div 262144, (n \div 4096) % 64, (n \div 64) % 64, n % 64>>

\* The next three bytes behind the first i, as four sextets.
Quantum(s, i) ==
    LET byte(k) == IF i + k <= Len(s) THEN s[i + k] ELSE 0
        n       == byte(1) * 65536 + byte(2) * 256 + byte(3)
    IN  <<n \div 262144, (n \div 4096) % 64,
          IF Len(s) >= i + 2 THEN (n \div 64) % 64 ELSE Pad,
          IF Len(s) >= i + 3 THEN n % 64 ELSE Pad>>

\* base64_fill into a buffer of this capacity; what there is after q turns.
base64(s, capacity) ==
    LET turns == (Len(s) + 2) \div 3
        out[q \in 0..turns] ==
          IF q = 0 THEN {<<>>}
          ELSE IF capacity < 4 * q THEN {}
          ELSE {head \o Quantum(s, 3 * (q - 1)) : head \in out[q - 1]}
    IN  out[turns]

\* The credentials of the Authorization header: nothing when both are empty.
\* The buffer begins with the six bytes "Basic ".
basic_authorization(user, pass, capacity) ==
    IF (user = <<>> /\ pass = <<>>) \/ capacity < 6 THEN {}
    ELSE base64(user \o <<58>> \o pass, capacity - 6)

------------------------------------------------------------------------------
(* Properties *)

\* The number that digits stand for, however many they are.
Number(s) ==
    LET value[k \in 0..Len(s)] ==
          IF k = 0 THEN 0 ELSE 10 * value[k - 1] + DigitValue(s[k])
    IN  value[Len(s)]

\* A version is the number its digits stand for, or nothing if that is too
\* large, and is written as the digits it was read from, leading zeros apart.
VersionAgrees(body) ==
    LET s == trim_ascii(body)
    IN  /\ parse_version(body) =
             IF AreDigits(s) /\ Number(s) <= U32_MAX THEN {Number(s)} ELSE {}
        /\ \A v \in parse_version(body) :
             /\ parse_version(to_decimal(v)) = {v}
             /\ to_decimal(v) = s <=> (s[1] # "0" \/ Len(s) = 1)

\* A digest is told by its text, and a text that is cut short has none.
DigestAgrees(body) ==
    \A digest \in parse_sha256_hex(body) :
        /\ trim_ascii(body) =
             [k \in 1..(2 * HASH_BYTES) |->
                LET byte == digest[(k + 1) \div 2]
                IN  HexDigit[1 + IF k % 2 = 1 THEN byte \div 16 ELSE byte % 16]]
        /\ \A n \in DOMAIN body :
             parse_sha256_hex(SubSeq(body, 1, n)) \in {{}, {digest}}

\* What check_and_update takes from the two text files is what they say: no
\* version wraps, two versions are never taken for each other, and no digest is
\* made of less than a whole one.
FilesAgree == VersionAgrees(file) /\ DigestAgrees(file)

\* The k-th byte that a base64 text stands for, padding being zero.
Decoded(out, k) ==
    LET sextet(j) == LET c == out[4 * ((k - 1) \div 3) + j] IN IF c = Pad THEN 0 ELSE c
    IN  CASE k % 3 = 1 -> 4 * sextet(1) + (sextet(2) \div 16)
          [] k % 3 = 2 -> 16 * (sextet(2) % 16) + (sextet(3) \div 4)
          [] k % 3 = 0 -> 64 * (sextet(3) % 4) + sextet(4)

\* Base64 stands for its input, and for zeros behind it, and is padded behind the
\* last sextet of the input to a multiple of four.
IsBase64(out, s) ==
    LET turns == (Len(s) + 2) \div 3
    IN  /\ Len(out) = 4 * turns
        /\ \A k \in DOMAIN out :
             out[k] \in 0..Pad /\ (out[k] = Pad <=> k > (4 * Len(s) + 2) \div 3)
        /\ \A k \in 1..(3 * turns) :
             Decoded(out, k) = IF k <= Len(s) THEN s[k] ELSE 0

\* The credentials are sent whole, however long they are and however they divide
\* into user and password, and take just the room they need, behind the six
\* bytes "Basic "; without credentials there is no header.
CredentialsAgree ==
    \A k \in 0..Len(secret) :
        LET user   == SubSeq(secret, 1, k)
            pass   == SubSeq(secret, k + 1, Len(secret))
            header == basic_authorization(user, pass, room)
        IN  /\ header = {} <=>
                 secret = <<>> \/ room < 6 + 4 * ((Len(secret) + 3) \div 3)
            /\ \A out \in header : IsBase64(out, user \o <<58>> \o pass)

\* The texts that the device and the server exchange mean what they say.
TextsAgree == FilesAgree /\ CredentialsAgree
=============================================================================
