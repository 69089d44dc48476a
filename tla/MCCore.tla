------------------------------- MODULE MCCore -------------------------------
(***************************************************************************)
(* What is in `core` and stands alone, for TLC: the codecs and the update  *)
(* state machine.  A state is the machine's, or one input of the codecs:   *)
(* the payload of a status request, built member by member and then        *)
(* damaged in one place or cut short; or a text, which grows character by  *)
(* character: the small body of `version` or of a digest, a base URL, or   *)
(* credentials.                                                            *)
(*                                                                         *)
(* Of the machine's four versions one is stable, one on trial, one staged  *)
(* on top of the trial, and one none of them.                              *)
(***************************************************************************)
EXTENDS MqttGrammar, OtaText, UpdateStateMachine

CONSTANTS
    MaxBody, MaxUrl, MaxSecret,  \* characters that are added
    MaxRoom,                     \* size of the header's buffer
    MaxMembers                   \* members of a payload

VARIABLES
    kind,    \* "payload", "body", "url" or "secret", or "update"
    text,    \* the input, if it is a URL
    members  \* members of a payload so far, -1 once it is complete and -2
             \* when it is damaged

inputVars == <<kind, payload, file, secret, room, text, members>>
coreVars == <<inputVars, vars>>

Bodies == {<<>>, <<"uuid">>, <<"x">>, <<"bs", "q">>, <<"bs", "bs">>, <<"bs", "u", "dig">>,
           <<"close", "comma">>}
Quoted == {<<"q">> \o body \o <<"q">> : body \in Bodies}
Uuid   == <<"q", "uuid", "q", ":", "q", "x", "q">>
Values == Quoted \cup
    {<<"dig">>, <<"-", "dig", ".", "dig", "e", "-", "dig">>, <<"word">>,
     <<"sp", "word", "nl">>, <<"[", "]">>, <<"open", "sp", "close">>,
     <<"[", "word", "comma", "open">> \o Uuid \o <<"close", "]">>,
     <<"open">> \o Uuid \o <<"comma", "q", "q", ":", "dig", "close">>}

Keys   == {<<"q">> \o body \o <<"q">> : body \in {<<"uuid">>, <<"x">>, <<>>, <<"bs", "u", "dig">>}}

Member == {key \o <<":">> \o value : key \in Keys, value \in Values}

\* The second member of a payload, which is one of a few.
Second == {Uuid, <<"sp">> \o Uuid \o <<"nl">>, <<"q", "uuid", "q", "sp", ":", "dig">>,
           <<"q", "x", "q", ":", "[", "dig", "comma", "dig", "]">>}

BodyChar   == {"0", "2", "9", "a", "x", "sp"}
UrlChar    == {":", "/", "h", "bad", "0", "9", "+"}
SecretByte == {0, 58, 254, 255}

InputInit ==
    /\ file = <<>> /\ secret = <<>>
    /\ \/ /\ kind = "payload" /\ members = 0 /\ text = <<>> /\ room = 0
          /\ payload \in {<<"open">>, <<"nl", "open", "sp">>}
       \/ /\ kind = "body" /\ members = -1 /\ text = <<>> /\ payload = <<>> /\ room = 0
       \/ /\ kind = "secret" /\ members = -1 /\ text = <<>> /\ payload = <<>>
          /\ room \in 0..MaxRoom
       \/ /\ kind = "update" /\ members = -1 /\ text = <<>> /\ payload = <<>> /\ room = 0
       \/ /\ kind = "url" /\ members = -1 /\ payload = <<>> /\ room = 0
          /\ text \in {<<>>} \cup {<<scheme, ":", "/", "/">> : scheme \in {"http", "https"}}
                    \cup {<<"h", ":", "/", "/", "h">>}

\* Beside an input the machine is at rest, with any one version.
CoreInit ==
    /\ InputInit
    /\ Init
    /\ kind # "update" => active_version = CHOOSE v \in Version : TRUE

AddMember ==
    /\ members \in 0..(MaxMembers - 1)
    /\ \E member \in IF members = 0 THEN Member ELSE Second :
         payload' = payload \o (IF members = 0 THEN <<>> ELSE <<"comma">>) \o member
    /\ members' = members + 1
    /\ UNCHANGED <<kind, file, secret, room, text, vars>>

Complete ==
    /\ members >= 0
    /\ payload' = payload \o IF Head(payload) = "open" THEN <<"close">> ELSE <<"close", "nl">>
    /\ members' = -1
    /\ UNCHANGED <<kind, file, secret, room, text, vars>>

\* One unit is lost or is another, or all from one on are lost.
Damage ==
    /\ kind = "payload" /\ members = -1 /\ Head(payload) = "open"
    /\ \E k \in DOMAIN payload :
         \/ payload' = RemoveAt(payload, k)
         \/ payload' = SubSeq(payload, 1, k - 1)
         \/ \E unit \in Unit \ {payload[k]} : payload' = [payload EXCEPT ![k] = unit]
    /\ members' = -2
    /\ UNCHANGED <<kind, file, secret, room, text, vars>>

\* A URL without a scheme is given up early.
UrlRoom(url) == IF url # <<>> /\ Head(url) \in {"http", "https"} THEN 4 + MaxUrl ELSE 3

Grow ==
    /\ \/ kind = "body"   /\ Len(file) < MaxBody /\ UNCHANGED <<text, secret>>
                          /\ \E c \in BodyChar : file' = Append(file, c)
       \/ kind = "url"    /\ Len(text) < UrlRoom(text) /\ UNCHANGED <<file, secret>>
                          /\ \E c \in UrlChar : text' = Append(text, c)
       \/ kind = "secret" /\ Len(secret) < MaxSecret /\ UNCHANGED <<file, text>>
                          /\ \E b \in SecretByte : secret' = Append(secret, b)
    /\ UNCHANGED <<kind, payload, room, members, vars>>

\* The operations of an over-the-air update.
Update == kind = "update" /\ NextOta /\ UNCHANGED inputVars

CoreNext == AddMember \/ Complete \/ Damage \/ Grow \/ Update

CoreSpec == CoreInit /\ [][CoreNext]_coreVars

------------------------------------------------------------------------------
(* Properties *)

\* Whether the answer to this payload is the one that the grammar has.
GrammarAgrees(request, object) ==
    LET quotes  == Places("q", payload)
        strings == {SubSeq(payload, i + 1, j - 1) : i \in quotes, j \in quotes}
    IN  /\ request.error = "none" =>
             \A t \in {payload} \cup Responses(request.uuid) : IsRequest(request.uuid, t)
        /\ request.error \in {"MissingUuid", "EmptyUuid"} => object
        /\ object => /\ request.error \notin {"NotObject", "Malformed"}
                     /\ request.error \in {"MissingUuid", "UuidNotString"} =>
                          \A uuid \in strings : ~IsRequest(uuid, payload)

\* The scanner of status requests accepts what the grammar does, takes the uuid
\* from the first top-level member of that name, wherever else the word stands
\* in the payload and whatever is escaped, takes damaged payloads for what they
\* are, and gives a uuid with which the response is in the grammar, too.
ScannerAgrees ==
    kind = "payload" => GrammarAgrees(parse_status_request(payload), IsObject(payload))

\* The number that digits stand for, by their places.
PlaceValue(s) ==
    FoldFunctionOnSet(+, 0, [k \in DOMAIN s |-> DigitValue(s[k]) * 10 ^ (Len(s) - k)],
                      DOMAIN s)

\* The slashes that remain of a prefix: those before a segment.
Collapsed(prefix) ==
    FlattenSeq([k \in DOMAIN prefix |->
        IF prefix[k] = "/" /\ (k = Len(prefix) \/ prefix[k + 1] = "/") THEN <<>>
        ELSE <<prefix[k]>>])

\* A base URL is read as the scheme, host, port and prefix it consists of.
UrlAgrees(base, project) ==
    LET Host(i)  == SubSeq(base, 5, i)
        Path(j)  == Collapsed(SubSeq(base, j + 1, Len(base))) \o <<"/">> \o project
        Ports(i, j) ==
            IF i = j THEN {IF base[1] = "https" THEN 443 ELSE 80}
            ELSE {PlaceValue(digits) : digits \in
                    {d \in {SubSeq(base, i + 2, j), SubSeq(base, i + 3, j)} :
                        /\ base[i + 1] = ":" /\ AreDigits(d) /\ PlaceValue(d) \in 1..U16_MAX
                        /\ d # SubSeq(base, i + 2, j) => base[i + 2] = "+"}}
        Read == UNION
            {{[tls |-> base[1] = "https", host |-> Host(i), port |-> port, path |-> Path(j)] :
                port \in Ports(i, j)} :
             <<i, j>> \in
               {<<i, j>> \in (5..Len(base)) \X (5..Len(base)) :
                  /\ i <= j
                  /\ valid_segment(Host(i)) /\ valid_segment(project)
                  /\ j = Len(base) \/ base[j + 1] = "/"
                  /\ \A k \in DOMAIN Path(j) : Path(j)[k] = "/" \/ valid_host_byte(Path(j)[k])
                  /\ Len(Path(j)) <= PATH_BYTES}}
    IN  parse_url(base, project) =
          IF Len(base) > 4 /\ base[1] \in {"http", "https"} /\ SubSeq(base, 2, 4) = <<":", "/", "/">>
            THEN Read ELSE {}

\* The address that the device is configured with is read as what it says: no
\* URL is taken for another, and no port wraps.  And what TextsAgree takes for the
\* number of its digits is the sum of their place values.
UrlsAgree ==
    /\ kind = "url" => \A project \in {<<"h">>, <<"bad">>, <<>>} : UrlAgrees(text, project)
    /\ AreDigits(file) => Number(file) = PlaceValue(file)
=============================================================================
