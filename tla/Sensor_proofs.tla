---------------------------- MODULE Sensor_proofs ----------------------------
(***************************************************************************)
(* For every debounce interval and lateness: the sensor is type correct,   *)
(* reports a lasting change in time, and loses no state on its way to the  *)
(* telemetry task.                                                         *)
(***************************************************************************)
EXTENDS Sensor, TLAPS

USE SensorAssumption

\* No sample, flip or tick leaves the ranges of TypeOK.
THEOREM TypeCorrect == Spec => []TypeOK
<1> USE DEF TypeOK, DoorState, StableCap, ReportLatency
<1>1. Init => TypeOK
  BY DEF Init
<1>2. TypeOK /\ [Next]_vars => TypeOK'
  <2> SUFFICES ASSUME TypeOK, [Next]_vars PROVE TypeOK'
    OBVIOUS
  <2>1. CASE Sample
    BY <2>1 DEF Sample, SampleMatches, SampleStarts, SampleConfirms
  <2>2. CASE TakeState
    BY <2>2 DEF TakeState, sensor
  <2>3. CASE Flip
    BY <2>3 DEF Flip, sensor
  <2>4. CASE Tick
    BY <2>4 DEF Tick
  <2>5. CASE UNCHANGED vars
    BY <2>5 DEF vars, sensor
  <2> QED
    BY <2>1, <2>2, <2>3, <2>4, <2>5 DEF Next
<1> QED
  BY <1>1, <1>2, PTL DEF Spec

\* ReportedInTime is not inductive: how long a change may already have gone
\* unreported depends on the wait it caught the task in.  A sleeping task has
\* a candidate, first seen at most MaxLate after the level came; any other has
\* none, and was woken by the very flip that made the level differ.
Waits ==
    IF pc = "blind"
      THEN /\ pending \in DoorState \ {committed}
           /\ waited >= REED_DEBOUNCE_MS - timer
           /\ timer > 0 => lag = 0
           /\ reed # committed =>
                stable <= MaxLate + (REED_DEBOUNCE_MS - timer) + lag
      ELSE /\ pending = None
           /\ pc = "spawned" => timer = 0
           /\ reed # committed => Ready /\ stable <= lag

\* A level that stays is committed within ReportLatency.
THEOREM ReportInTime == Spec => []ReportedInTime
<1> USE DEF TypeOK, DoorState, StableCap, ReportLatency, Waits, Ready
<1>1. Init => Waits
  BY DEF Init
<1>2. TypeOK /\ Waits /\ [Next]_vars => Waits'
  <2> SUFFICES ASSUME TypeOK, Waits, [Next]_vars PROVE Waits'
    OBVIOUS
  <2>1. CASE Sample
    <3>1. CASE SampleMatches
      BY <2>1, <3>1 DEF Sample, SampleMatches
    <3>2. CASE SampleStarts
      BY <2>1, <3>2 DEF Sample, SampleStarts
    <3>3. CASE SampleConfirms
      \* The debounce sleep is over, so the candidate has lasted.
      <4>1. pc = "blind" /\ timer = 0 /\ waited >= REED_DEBOUNCE_MS
        BY <2>1, <3>3 DEF Sample, SampleConfirms
      <4> QED
        BY <2>1, <3>3, <4>1 DEF Sample, SampleConfirms
    <3> QED
      BY <2>1, <3>1, <3>2, <3>3 DEF Sample
  <2>2. CASE TakeState
    BY <2>2 DEF TakeState, sensor
  <2>3. CASE Flip
    BY <2>3 DEF Flip, sensor
  <2>4. CASE Tick
    <3>1. CASE pc = "blind"
      BY <2>4, <3>1 DEF Tick
    <3>2. CASE pc # "blind"
      BY <2>4, <3>2 DEF Tick
    <3> QED
      BY <3>1, <3>2
  <2>5. CASE UNCHANGED vars
    BY <2>5 DEF vars, sensor
  <2> QED
    BY <2>1, <2>2, <2>3, <2>4, <2>5 DEF Next
<1>3. TypeOK /\ Waits => ReportedInTime
  BY DEF ReportedInTime
<1> QED
  BY <1>1, <1>2, <1>3, TypeCorrect, PTL DEF Spec

\* Between the signal and telemetry's cache the committed state is never lost,
\* whenever telemetry takes the signal and however often it is overwritten.
THEOREM StateKept == Spec => []NoStateLost
<1>1. Init => NoStateLost
  BY DEF Init, NoStateLost, DoorState
<1>2. TypeOK /\ NoStateLost /\ [Next]_vars => NoStateLost'
  <2> SUFFICES ASSUME TypeOK, NoStateLost, [Next]_vars PROVE NoStateLost'
    OBVIOUS
  <2> USE DEF TypeOK, NoStateLost, DoorState
  <2>1. CASE Sample
    BY <2>1 DEF Sample, SampleMatches, SampleStarts, SampleConfirms
  <2>2. CASE TakeState \/ Flip \/ Tick \/ UNCHANGED vars
    BY <2>2 DEF TakeState, Flip, Tick, vars, sensor
  <2> QED
    BY <2>1, <2>2 DEF Next
<1> QED
  BY <1>1, <1>2, TypeCorrect, PTL DEF Spec

==============================================================================
