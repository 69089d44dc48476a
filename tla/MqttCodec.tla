------------------------------ MODULE MqttCodec ------------------------------
(***************************************************************************)
(* The payload codec of core/src/mqtt.rs: the scanner that takes the uuid  *)
(* out of a status request, and the response in which it is echoed.        *)
(*                                                                         *)
(* A text is a sequence of units, each of which stands for the bytes that  *)
(* the scanner treats alike:                                               *)
(*   "sp" a space              "nl" tab, carriage return or line feed      *)
(*   "q"  a quote              "bs" a backslash                            *)
(*   "u"  the letter u         "e"  the letter e or E                      *)
(*   "dig" a digit             "word" one of true, false and null          *)
(*   "hex" another hex digit   "uuid" these four letters                   *)
(*   "raw" another control character, or what is not UTF-8                 *)
(*   "x"  any other character                                              *)
(*   "open" {   "close" }   "comma" ,   and [ ] : - . themselves           *)
(* The plus sign of an exponent is left out, and so are the error          *)
(* categories' texts and the buffers, which are longer than the longest    *)
(* response: 56 bytes around at most UUID_MAX.                             *)
(***************************************************************************)
EXTENDS Integers, Sequences

CONSTANTS
    HexDigits,     \* digits of a \u escape, 4 in the code
    VersionDigits  \* digits of the largest version, 10 in the code

VARIABLE payload  \* what a message on garagedoor/status holds

ASSUME CodecAssumption == {HexDigits, VersionDigits} \subseteq Nat \ {0}

Unit == {"sp", "nl", "q", "bs", "u", "e", "dig", "hex", "word", "uuid", "raw", "x",
         "open", "close", "[", "]", ":", "comma", "-", "."}

White  == {"sp", "nl"}
Hex    == {"dig", "e", "hex"}
Escape == {"q", "bs", "word"}  \* the letters of \n, \t, \b among others

------------------------------------------------------------------------------
(* The scanner: every operator takes the position it starts at and gives the *)
(* one after what it has read, or Fail for StatusRequestError::Malformed.    *)
(*                                                                           *)
(* A loop, and the recursion of parse_value, is a function of the position,  *)
(* and what it does at one position is said in terms of `end`: where it gets *)
(* to from the positions after it.                                           *)

Fail == 0

Positions(t) == 1..(Len(t) + 1)

peek(t, i) == IF i \in DOMAIN t THEN t[i] ELSE "end"

\* The first position from i on that is not one of these units.
Past(units, t, i) ==
    CHOOSE j \in i..(Len(t) + 1) :
        peek(t, j) \notin units /\ \A k \in i..(j - 1) : t[k] \in units

skip_ws(t, i)     == Past(White, t, i)
skip_digits(t, i) == IF peek(t, i) = "dig" THEN Past({"dig"}, t, i) ELSE Fail

\* Faulty string_turn: a backslash is a character like any other.
string_turn_unescaped(t, end, i) ==
    CASE peek(t, i) = "q" -> i + 1
      [] peek(t, i) \in {"end", "raw", "nl"} -> Fail
      [] OTHER -> end[i + 1]

\* Faulty string_turn: control characters are let through.
string_turn_raw(t, end, i) ==
    CASE peek(t, i) = "q" -> i + 1
      [] peek(t, i) = "end" -> Fail
      [] peek(t, i) = "bs" /\ peek(t, i + 1) \in Escape -> end[i + 2]
      [] peek(t, i) = "bs" /\ peek(t, i + 1) \notin Escape -> Fail
      [] peek(t, i) \notin {"q", "bs", "end"} -> end[i + 1]

\* A turn of the loop of parse_string_raw.
string_turn(t, end, i) ==
    CASE peek(t, i) = "q" -> i + 1
      [] peek(t, i) = "bs" /\ peek(t, i + 1) \in Escape -> end[i + 2]
      [] /\ peek(t, i) = "bs" /\ peek(t, i + 1) = "u"
         /\ \A k \in 1..HexDigits : peek(t, i + 1 + k) \in Hex
           -> end[i + 2 + HexDigits]
      [] peek(t, i) \notin {"q", "bs", "end", "raw", "nl"} -> end[i + 1]
      [] OTHER -> Fail

\* parse_string_raw, from the unit after the opening quote.
string_end(t, i) ==
    LET end[k \in Positions(t)] == string_turn(t, end, k)
    IN  end[i]

\* The body of the string from i to before `end`, quotes excluded.
Body(t, i, end) == SubSeq(t, i + 1, end - 2)

skip_number(t, i) ==
    LET digits   == skip_digits(t, IF peek(t, i) = "-" THEN i + 1 ELSE i)
        fraction == IF peek(t, digits) = "." THEN skip_digits(t, digits + 1) ELSE digits
        exponent == IF peek(t, fraction + 1) = "-" THEN fraction + 2 ELSE fraction + 1
    IN  IF digits = Fail \/ fraction = Fail THEN Fail
        ELSE IF peek(t, fraction) = "e" THEN skip_digits(t, exponent)
        ELSE fraction

\* A key, a colon and a value, up to the value's end.
skip_member(t, end, i) ==
    LET key   == skip_ws(t, i)
        after == string_end(t, key + 1)
        colon == skip_ws(t, after)
    IN  IF peek(t, key) # "q" \/ after = Fail \/ peek(t, colon) # ":" THEN Fail
        ELSE end[colon + 1]["value"]

\* In both loops: what follows an item that ends before `after`, a comma and
\* more of them or the closing bracket.
skip_rest(t, end, after, more, close) ==
    LET next == IF after = Fail THEN Fail ELSE skip_ws(t, after)
    IN  CASE peek(t, next) = "comma" -> end[next + 1][more]
          [] peek(t, next) = close   -> next + 1
          [] OTHER                   -> Fail

\* A turn of the loop of skip_object.
skip_members(t, end, i) ==
    skip_rest(t, end, skip_member(t, end, i), "members", "close")

skip_object(t, end, i) ==
    LET first == skip_ws(t, i + 1)
    IN  IF peek(t, first) = "close" THEN first + 1 ELSE end[i + 1]["members"]

skip_array(t, end, i) ==
    LET first == skip_ws(t, i + 1)
    IN  IF peek(t, first) = "]" THEN first + 1 ELSE end[i + 1]["elements"]

parse_value(t, end, i) ==
    LET start == skip_ws(t, i)
        unit  == peek(t, start)
    IN  CASE unit = "q"            -> string_end(t, start + 1)
          [] unit = "open"         -> skip_object(t, end, start)
          [] unit = "["            -> skip_array(t, end, start)
          [] unit = "word"         -> start + 1
          [] unit \in {"-", "dig"} -> skip_number(t, start)
          [] OTHER                 -> Fail

\* A turn of the loop of skip_array.
skip_elements(t, end, i) ==
    skip_rest(t, end, parse_value(t, end, i), "elements", "]")

\* The three together: where each gets to from each position.
Scans == {"value", "members", "elements"}

scan(t) ==
    LET end[i \in Positions(t)] == [what \in Scans |->
          CASE what = "value"    -> parse_value(t, end, i)
            [] what = "members"  -> skip_members(t, end, i)
            [] what = "elements" -> skip_elements(t, end, i)]
    IN  end

------------------------------------------------------------------------------
(* parse_status_request: `found` is where the uuid begins, or NotFound.     *)

NotFound == 0

Ok(uuid)     == [error |-> "none", uuid |-> uuid]
Error(error) == [error |-> error, uuid |-> <<>>]

Finish(t, i, found) ==
    LET uuid == Body(t, found, string_end(t, found + 1))
    IN  IF skip_ws(t, i) # Len(t) + 1 THEN Error("Malformed")
        ELSE IF found = NotFound THEN Error("MissingUuid")
        ELSE IF uuid = <<>> THEN Error("EmptyUuid")
        ELSE Ok(uuid)

\* After a member, given what the later ones come to.
Proceed(t, parse, end, found) ==
    LET next == skip_ws(t, end)
    IN  CASE peek(t, next) = "comma" -> parse[next + 1][found]
          [] peek(t, next) = "close" -> Finish(t, next + 1, found)
          [] OTHER                   -> Error("Malformed")

\* A turn of its loop.
ParseMember(t, parse, i, found) ==
    LET key     == skip_ws(t, i)
        colon   == skip_ws(t, string_end(t, key + 1))
        value   == skip_ws(t, colon + 1)
        end     == skip_member(t, scan(t), i)
        wanted  == Body(t, key, string_end(t, key + 1)) = <<"uuid">> /\ found = NotFound
    IN  IF end = Fail THEN Error("Malformed")
        ELSE IF wanted /\ peek(t, value) # "q" THEN Error("UuidNotString")
        ELSE Proceed(t, parse, end, IF wanted THEN value ELSE found)

ParseMembers(t) ==
    LET parse[i \in Positions(t)] == [found \in {NotFound} \cup DOMAIN t |->
          ParseMember(t, parse, i, found)]
    IN  parse

parse_status_request(t) ==
    LET start == skip_ws(t, 1)
        first == skip_ws(t, start + 1)
    IN  IF peek(t, start) # "open" THEN Error("NotObject")
        ELSE IF peek(t, first) = "close" THEN Finish(t, first + 1, NotFound)
        ELSE ParseMembers(t)[first][NotFound]

\* The keys are {"uuid": ..., "result": {"open": ..., "version": ...}}.
format_status_response(uuid, version) ==
    <<"open", "q", "uuid", "q", ":", "q">> \o uuid \o
    <<"q", "comma", "q", "x", "q", ":", "open", "q", "x", "q", ":", "word", "comma",
      "q", "x", "q", ":">> \o version \o <<"close", "close">>

------------------------------------------------------------------------------
(* Properties *)

\* The responses to a request of this uuid, over the versions.
Responses(uuid) ==
    {format_status_response(uuid, [k \in 1..n |-> "dig"]) : n \in 1..VersionDigits}

\* What a response to this request must be.
Echoes(request, response) ==
    /\ \A k \in DOMAIN response : response[k] \notin {"raw", "nl"}
    /\ parse_status_request(response) = request

Echoed(request) ==
    request.error = "none" => \A response \in Responses(request.uuid) : Echoes(request, response)

\* A uuid that is accepted can be echoed as it stands: whatever it holds, the
\* response has no raw control character in it and is read as a request of the
\* same uuid.
EchoIsSafe == Echoed(parse_status_request(payload))
=============================================================================
