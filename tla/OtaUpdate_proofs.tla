--------------------------- MODULE OtaUpdate_proofs ---------------------------
(***************************************************************************)
(* Proofs about OtaUpdate, for any images, sizes and number of attempts.   *)
(***************************************************************************)
EXTENDS OtaUpdate, TLAPS

\* What is streamed is an image that fits; what is being marked, one that has
\* been streamed whole.
Streamed ==
    /\ pc \in {"stream", "marking", "marked"}
         => body \in Version /\ Length[body] <= ACTIVE_BYTES
    /\ pc \in {"marking", "marked"} => body = expected /\ offset = Length[body]

\* An image that has been partly received was received by a device that is not
\* on trial, which is still so when it comes to be marked.
ReceivesWhenBooted ==
    /\ pc = "stream" /\ offset > 0 => magic # "swap"
    /\ pc = "marking" => magic # "swap"
    /\ pc \notin {"stream", "marking", "marked"} => offset = 0

\* `swapped` belongs to a swap.
SwappedInSwap == swapped => magic = "swap"

Inv == TypeOK /\ Streamed /\ ReceivesWhenBooted /\ SwappedInSwap /\ StableSurvives

LEMMA SectorIsNat == ASSUME NEW u \in Nat, u >= 1 PROVE Sector(u) \in Nat
  BY OtaAssumption DEF Sector

LEMMA SectorMonotone ==
    ASSUME NEW u \in Nat, NEW w \in Nat, u >= 1, u <= w
    PROVE  Sector(u) <= Sector(w)
  BY OtaAssumption DEF Sector

LEMMA InvInit == Init => Inv
<1> SUFFICES ASSUME Init PROVE Inv
  OBVIOUS
<1>1. PICK v \in Version : active = Image(v)
  BY DEF Init
<1>2. Image(v) \in Contents
  BY DEF Image, Contents
<1>3. 0 \in 0..ACTIVE_BYTES
  BY OtaAssumption
<1> QED
  BY <1>1, <1>2, <1>3 DEF Init, Inv, TypeOK, Streamed, ReceivesWhenBooted,
                    SwappedInSwap, StableSurvives, OnTrial, Contents

LEMMA InvStep == Inv /\ [Next]_vars => Inv'
<1> SUFFICES ASSUME Inv, [Next]_vars PROVE Inv'
  OBVIOUS
<1> USE DEF Inv, TypeOK, Streamed, ReceivesWhenBooted, SwappedInSwap,
            StableSurvives, OnTrial
<1>0. 0 \in 0..ACTIVE_BYTES
  BY OtaAssumption
<1>1. CASE UNCHANGED vars
  BY <1>1 DEF vars, check, flash, history
<1>2. CASE StartCheck
  BY <1>2 DEF StartCheck, flash, history
<1>3. CASE CheckEnds
  BY <1>0, <1>3 DEF CheckEnds, EndCheck, flash, history
<1>4. CASE FetchDigest
  BY <1>4 DEF FetchDigest, flash, history
<1>5. CASE FetchFails
  BY <1>0, <1>5 DEF FetchFails, EndCheck, flash, history
<1>6. ASSUME NEW v \in Version, StartStream(v) PROVE Inv'
  BY <1>6 DEF StartStream, flash, history
<1>7. ASSUME NEW n \in 1..CHUNK_BYTES, Receive(n) PROVE Inv'
  <2>1. dfu' \in Contents
    BY <1>7 DEF Receive, Contents
  <2>2. offset' \in 0..ACTIVE_BYTES
    BY <1>7, OtaAssumption DEF Receive
  <2>3. last' \in Nat
    BY <1>7, SectorIsNat DEF Receive
  <2> QED
    BY <1>7, <2>1, <2>2, <2>3 DEF Receive, VerifyBooted, history
<1>8. CASE StreamFails
  BY <1>0, <1>8 DEF StreamFails, EndCheck, flash, history
<1>9. CASE EraseToMark
  <2>1. offset > 0
    BY <1>9, OtaAssumption DEF EraseToMark
  <2>2. magic # "swap"
    BY <1>9, <2>1 DEF EraseToMark
  <2> QED
    BY <1>9, <2>2 DEF EraseToMark, check, history
<1>10. CASE MarkUpdated
  BY <1>10 DEF MarkUpdated, check, history
<1>11. CASE MarkFails
  BY <1>0, <1>11 DEF MarkFails, EndCheck, flash, history
<1>12. CASE Reset
  <2>1. boot' \in {0, 1}
    BY <1>12 DEF Reset
  <2>2. /\ active' \in Contents /\ dfu' \in Contents
        /\ magic' \in {"boot", "swap", "revert"} /\ swapped' \in BOOLEAN
        /\ swapped' => magic' = "swap"
        /\ stable = IF magic' = "swap" /\ swapped' THEN dfu' ELSE active'
    BY <1>12 DEF Reset, Bootloader, flash
  <2>3. TypeOK'
    BY <1>0, <1>12, <2>1, <2>2 DEF Reset
  <2> QED
    BY <1>12, <2>2, <2>3 DEF Reset
<1>13. CASE StartRadio \/ HardwareFails
  BY <1>13 DEF StartRadio, HardwareFails, check, flash, history
<1>14. CASE RadioStarts \/ RadioHangs \/ MarkBooted \/ MarkBootedFails
  BY <1>14 DEF RadioStarts, RadioHangs, MarkBooted, MarkBootedFails, SpawnOta, check,
               flash, history
<1>15. CASE EraseToConfirm
  BY <1>15 DEF EraseToConfirm, check
<1>16. CASE RequestReset
  BY <1>16 DEF RequestReset, check, flash, history
<1>17. CASE Publish
  BY <1>17 DEF Publish, check, flash, history
<1> QED
  BY <1>1, <1>2, <1>3, <1>4, <1>5, <1>6, <1>7, <1>8, <1>9, <1>10, <1>11,
     <1>12, <1>13, <1>14, <1>15, <1>16, <1>17 DEF Next

\* Types, the bound on what is written among them: nothing goes past the end of
\* a partition.
THEOREM TypeCorrect == Spec => []TypeOK
<1>1. Inv => TypeOK
  BY DEF Inv
<1> QED
  BY <1>1, InvInit, InvStep, PTL DEF Spec

\* The confirmed image is in one of the partitions, always: the update never
\* writes over the image a roll back needs.
THEOREM StableKept == Spec => []StableSurvives
<1>1. Inv => StableSurvives
  BY DEF Inv
<1> QED
  BY <1>1, InvInit, InvStep, PTL DEF Spec

\* The update path as a whole implements the fail-safe update.
THEOREM FailSafe == Spec => FailSafeUpdate
<1>1. Init => Trial!Init
  <2> SUFFICES ASSUME Init PROVE Trial!Init
    OBVIOUS
  <2>1. PICK v \in Version : active = Image(v)
    BY DEF Init
  <2> QED
    BY <2>1 DEF Init, Trial!Init, Image, Contents
<1>2. Inv /\ [Next]_vars => [Trial!Next]_<<active, stable, boot>>
  <2> SUFFICES ASSUME Inv, [Next]_vars
               PROVE  Trial!Next \/ UNCHANGED <<active, stable, boot>>
    OBVIOUS
  <2>1. CASE Reset
    <3>1. active' \in Contents
      BY <2>1 DEF Reset, Bootloader, flash, Inv, TypeOK
    <3>2. active # stable => active' = stable
      BY <2>1 DEF Reset, Bootloader, Inv, StableSurvives, OnTrial
    <3> QED
      BY <2>1, <3>1, <3>2 DEF Reset, Trial!Next, Trial!Restart
  <2>2. CASE EraseToConfirm
    BY <2>2 DEF EraseToConfirm, Trial!Next, Trial!Confirm
  <2>3. CASE ~Reset /\ ~EraseToConfirm
    BY <2>3 DEF Next, StartCheck, CheckEnds, FetchDigest, FetchFails,
                StartStream, Receive, StreamFails, EraseToMark, MarkUpdated,
                MarkFails, StartRadio, HardwareFails, RadioStarts, RadioHangs, MarkBooted,
                MarkBootedFails, RequestReset, Publish, vars, flash, history
  <2> QED
    BY <2>1, <2>2, <2>3
<1> QED
  BY <1>1, <1>2, InvInit, InvStep, PTL
     DEF Spec, FailSafeUpdate, Trial!Spec, Trial!bootVars
------------------------------------------------------------------------------
\* After a roll back there is no trial, and what runs was asked for, unless main
\* could not read the boot state.
Asked ==
    magic = "revert" =>
        /\ pc \notin {"hung", "window", "confirming", "marking"}
        /\ pc = "radio" => boot_state \in {"revert", "unread"}
        /\ pc \in {"check", "fetch", "stream"} => cause \in {"request", "unread"}

\* A device that rolled an image back installs another only when asked to.
THEOREM RetryOnlyOnRequest == Spec => NoRetryLoop
<1>1. Init => Asked
  BY DEF Init, Asked
<1>2. Asked /\ [Next]_vars => Asked'
  <2> SUFFICES ASSUME Asked, [Next]_vars PROVE Asked'
    OBVIOUS
  <2> USE DEF Asked
  <2>1. CASE Reset
    BY <2>1 DEF Reset, Bootloader, flash
  <2>2. CASE StartRadio \/ HardwareFails
    BY <2>2 DEF StartRadio, HardwareFails, check, flash, history
  <2>3. CASE RadioStarts \/ RadioHangs \/ MarkBooted \/ MarkBootedFails
    BY <2>3 DEF RadioStarts, RadioHangs, MarkBooted, MarkBootedFails, SpawnOta, check,
                flash, history
  <2>4. CASE ~(\/ Reset \/ StartRadio \/ HardwareFails
               \/ RadioStarts \/ RadioHangs \/ MarkBooted \/ MarkBootedFails)
    BY <2>4 DEF Next, StartCheck, CheckEnds, EndCheck, FetchDigest, FetchFails,
                StartStream, Receive, StreamFails, EraseToMark, MarkUpdated,
                MarkFails, EraseToConfirm, RequestReset, Publish, check, vars,
                flash, history
  <2> QED
    BY <2>1, <2>2, <2>3, <2>4
<1>3. Asked /\ [Next]_vars
        => [magic = "revert" /\ magic' # "revert"
              => cause \in {"request", "unread"}]_vars
  <2> SUFFICES ASSUME Asked, Next, magic = "revert", magic' # "revert"
               PROVE  cause \in {"request", "unread"}
    BY DEF vars, flash
  <2>1. EraseToMark \/ MarkUpdated \/ EraseToConfirm
    BY DEF Next, StartCheck, CheckEnds, FetchDigest, FetchFails, StartStream,
           Receive, StreamFails, MarkFails, Reset, Bootloader, StartRadio,
           HardwareFails, RadioStarts, RadioHangs, MarkBooted, MarkBootedFails,
           RequestReset, Publish, flash
  <2> QED
    BY <2>1 DEF Asked, EraseToMark, MarkUpdated, EraseToConfirm
<1> QED
  BY <1>1, <1>2, <1>3, PTL DEF Spec, NoRetryLoop
------------------------------------------------------------------------------
\* What this boot has written.  The sector erased last holds images of this boot
\* only; if they are all the one being streamed, so is all of the partition up
\* to `offset`.
Clean ==
    /\ last # None => \A u \in Unit : Sector(u) = last => dfu[u] \subseteq seen
    /\ pc = "stream" /\ offset > 0 => last = Sector(offset)
    /\ pc \in {"stream", "marking", "marked"} /\ seen \subseteq {body}
         => \A u \in Unit : u <= offset => dfu[u] = {body}

LEMMA CleanStep == Inv /\ Clean /\ [Next]_vars => Clean'
<1> SUFFICES ASSUME Inv, Clean, [Next]_vars PROVE Clean'
  OBVIOUS
<1> USE DEF Clean
<1>1. ASSUME NEW n \in 1..CHUNK_BYTES, Receive(n) PROVE Clean'
  <2> DEFINE units  == (offset + 1)..(offset + n)
             erased == {Sector(u) : u \in units} \ ({last} \cap {Sector(offset + 1)})
  <2>1. /\ pc = "stream" /\ pc' = pc /\ body' = body
        /\ last' = Sector(offset + n)
        /\ offset' = offset + n
        /\ seen' = seen \cup {body}
        /\ dfu' = [u \in Unit |-> (IF Sector(u) \in erased THEN {} ELSE dfu[u])
                                 \cup (IF u \in units THEN {body} ELSE {})]
    BY <1>1 DEF Receive
  <2>2. /\ offset \in Nat /\ n \in Nat /\ n >= 1
        /\ offset + n \in Unit
        /\ Unit \subseteq Nat /\ \A u \in Unit : u >= 1
    BY <1>1, <2>1, OtaAssumption DEF Inv, TypeOK, Streamed, Receive, Unit
  <2>3. ASSUME NEW u \in Unit, Sector(u) \notin erased,
               u \in units \/ Sector(u) = Sector(offset + n)
        PROVE  dfu[u] \subseteq seen
    <3>1. offset + n \in units
      BY <2>2
    <3>2. Sector(u) \in {Sector(w) : w \in units}
      BY <2>3, <3>1
    <3>3. Sector(u) = last /\ last # None
      BY <2>3, <3>2, <2>2, SectorIsNat, OtaAssumption
    <3> QED
      BY <3>3
  <2>4. ASSUME NEW u \in Unit, Sector(u) = last' PROVE dfu'[u] \subseteq seen'
    BY <2>1, <2>3, <2>4
  <2>5. ASSUME seen' \subseteq {body}, NEW u \in Unit, u <= offset + n
        PROVE  dfu'[u] = {body}
    <3>1. seen \subseteq {body}
      BY <2>1, <2>5
    <3>2. CASE u \in units
      BY <2>1, <2>3, <3>1, <3>2
    <3>3. CASE u <= offset
      <4>1. dfu[u] = {body}
        BY <2>1, <3>1, <3>3
      <4>2. last = Sector(offset) /\ Sector(u) <= Sector(offset)
        BY <2>1, <2>2, <3>3, SectorMonotone
      <4>3. ASSUME NEW w \in units, Sector(w) = Sector(u)
            PROVE  Sector(w) = last /\ Sector(w) = Sector(offset + 1)
        <5>1. /\ Sector(offset) <= Sector(offset + 1)
              /\ Sector(offset + 1) <= Sector(w)
          BY <2>2, <3>3, <4>3, SectorMonotone
        <5>2. /\ Sector(offset) \in Nat /\ Sector(offset + 1) \in Nat
              /\ Sector(w) \in Nat
          BY <2>2, <3>3, <4>3, SectorIsNat
        <5> QED
          BY <4>2, <4>3, <5>1, <5>2
      <4>4. ASSUME Sector(u) \in erased PROVE FALSE
        <5>1. PICK w \in units : Sector(u) = Sector(w)
          BY <4>4
        <5>2. Sector(u) \in {last} \cap {Sector(offset + 1)}
          BY <4>3, <5>1
        <5> QED
          BY <4>4, <5>2
      <4>5. u \notin units
        BY <2>2, <3>3
      <4> QED
        BY <2>1, <4>1, <4>4, <4>5
    <3> QED
      BY <2>2, <2>5, <3>2, <3>3
  <2> QED
    BY <2>1, <2>4, <2>5
<1>2. CASE Reset
  BY <1>2 DEF Reset
<1>3. ASSUME NEW v \in Version, StartStream(v) PROVE Clean'
  BY <1>3 DEF StartStream, flash, Inv, ReceivesWhenBooted, Unit
<1>4. CASE UNCHANGED vars
  BY <1>4 DEF vars, check, flash
<1>5. CASE EraseToMark \/ MarkUpdated
  BY <1>5 DEF EraseToMark, MarkUpdated, check
<1>6. CASE CheckEnds \/ FetchFails \/ StreamFails \/ MarkFails
  BY <1>6 DEF CheckEnds, FetchFails, StreamFails, MarkFails, EndCheck, flash
<1>7. CASE StartCheck \/ FetchDigest
  BY <1>7 DEF StartCheck, FetchDigest, flash
<1>8. CASE \/ StartRadio \/ HardwareFails \/ RadioStarts \/ RadioHangs
           \/ MarkBooted \/ MarkBootedFails \/ EraseToConfirm
  BY <1>8 DEF StartRadio, HardwareFails, RadioStarts, RadioHangs, MarkBooted,
              MarkBootedFails, EraseToConfirm, SpawnOta, check, flash
<1>9. CASE RequestReset \/ Publish
  BY <1>9 DEF RequestReset, Publish, check, flash
<1> QED
  BY <1>1, <1>2, <1>3, <1>4, <1>5, <1>6, <1>7, <1>8, <1>9 DEF Next

\* An image that is marked in a boot that has streamed no other is in the
\* partition, unit for unit, however often and wherever it was interrupted.
THEOREM RetriesAreHarmless == Spec => []RetriedImageIntact
<1>1. Init => Clean
  BY DEF Init, Clean
<1>2. Inv /\ Clean => RetriedImageIntact
  BY OtaAssumption DEF Inv, TypeOK, Streamed, Clean, RetriedImageIntact, Intact, Unit
<1> QED
  BY <1>1, <1>2, InvInit, InvStep, CleanStep, PTL DEF Spec
==============================================================================
