------------------------------ MODULE RelayPin ------------------------------
(***************************************************************************)
(* What the actuator promises to the door opener wired to GPIO 18, with no *)
(* mention of commands, deadlines or tasks: the pin is high for one pulse  *)
(* at a time, no pulse outlasts HighMost, and two pulses are never closer  *)
(* than LowLeast.                                                          *)
(*                                                                         *)
(* Time is counted in ticks; `age` is the time since the last edge.        *)
(***************************************************************************)
EXTENDS Integers

CONSTANTS
    HighLeast,  \* shortest time the pin stays high
    HighMost,   \* longest time the pin stays high
    LowLeast,   \* shortest time the pin stays low between two pulses
    AgeCap      \* age stops counting here: older edges are all alike

VARIABLES relay, age

pinVars == <<relay, age>>

Init == relay = "low" /\ age = AgeCap

Rise == relay = "low" /\ age >= LowLeast /\ relay' = "high" /\ age' = 0

Fall == relay = "high" /\ age \in HighLeast..HighMost /\ relay' = "low" /\ age' = 0

Tick ==
    /\ relay = "high" => age < HighMost
    /\ age' = IF age < AgeCap THEN age + 1 ELSE age
    /\ UNCHANGED relay

Next == Rise \/ Fall \/ Tick

Spec == Init /\ [][Next]_pinVars
=============================================================================
