---------------------------- MODULE Flash_proofs ----------------------------
(***************************************************************************)
(* Proofs about core/src/flash.rs.  The update state machine, for any      *)
(* versions: on_reset never panics, and an update without mark_dfu is      *)
(* fail-safe in the sense of TrialBoot.  The flash map: partitions,        *)
(* conversions and the linker's maps of the same flash agree.              *)
(***************************************************************************)
EXTENDS UpdateStateMachine, FlashLayout, TLAPS

USE VersionAssumption

\* No `expect` of on_reset ever fails, under any sequence of the public
\* operations, mark_dfu included.
THEOREM PanicFree == Spec => [](TypeOK /\ NeverPanics)
<1>1. Init => TypeOK /\ NeverPanics
  BY DEF Init, TypeOK, NeverPanics, UpdateState
<1>2. TypeOK /\ NeverPanics /\ [Next]_vars => (TypeOK /\ NeverPanics)'
  <2> SUFFICES ASSUME TypeOK, NeverPanics, [Next]_vars
               PROVE (TypeOK /\ NeverPanics)'
    OBVIOUS
  <2> USE DEF TypeOK, NeverPanics, UpdateState
  <2>1. CASE \E v \in Version : StageFirmware(v)
    BY <2>1 DEF StageFirmware
  <2>2. CASE MarkUpdated
    BY <2>2 DEF MarkUpdated
  <2>3. CASE MarkBooted
    BY <2>3 DEF MarkBooted
  <2>4. CASE MarkDfu
    BY <2>4 DEF MarkDfu
  <2>5. CASE OnReset
    BY <2>5 DEF OnReset, SwapAndBoot, RollBackAndBoot, BootUnchanged, smVars
  <2>6. CASE UNCHANGED vars
    BY <2>6 DEF vars
  <2> QED
    BY <2>1, <2>2, <2>3, <2>4, <2>5, <2>6 DEF Next, NextOta
<1> QED
  BY <1>1, <1>2, PTL DEF Spec

\* The same for the operations the updater uses, which are some of them.
LEMMA PanicFreeOta == SpecOta => [](TypeOK /\ NeverPanics)
<1>1. [NextOta]_vars => [Next]_vars
  BY DEF Next
<1> QED
  BY <1>1, PanicFree, PTL DEF Spec, SpecOta

\* Without mark_dfu, only a trial runs an image that was not confirmed, and it
\* keeps the one that was.
THEOREM TrialKeepsStable == SpecOta => []OnlyTrialUnconfirmed
<1>1. Init => OnlyTrialUnconfirmed
  BY DEF Init, OnlyTrialUnconfirmed
<1>2. TypeOK /\ NeverPanics /\ OnlyTrialUnconfirmed /\ [NextOta]_vars
        => OnlyTrialUnconfirmed'
  <2> SUFFICES ASSUME OnlyTrialUnconfirmed, [NextOta]_vars
               PROVE OnlyTrialUnconfirmed'
    OBVIOUS
  <2> USE DEF OnlyTrialUnconfirmed
  <2>1. CASE \E v \in Version : StageFirmware(v)
    BY <2>1 DEF StageFirmware
  <2>2. CASE MarkUpdated
    BY <2>2 DEF MarkUpdated
  <2>3. CASE MarkBooted
    BY <2>3 DEF MarkBooted
  <2>4. CASE OnReset
    BY <2>4 DEF OnReset, SwapAndBoot, RollBackAndBoot, BootUnchanged, smVars
  <2>5. CASE UNCHANGED vars
    BY <2>5 DEF vars
  <2> QED
    BY <2>1, <2>2, <2>3, <2>4, <2>5 DEF NextOta
<1> QED
  BY <1>1, <1>2, PanicFreeOta, PTL DEF SpecOta

\* The state machine implements TrialBoot: mark_booted is Confirm, on_reset is
\* Restart, and staging or marking an image changes nothing that runs.
THEOREM FailSafe == SpecOta => FailSafeUpdate
<1>1. Init => Trial!Init
  BY DEF Init, Trial!Init
<1>2. /\ TypeOK /\ NeverPanics /\ OnlyTrialUnconfirmed
      /\ [NextOta]_vars
      => [Trial!Next]_Trial!bootVars
  <2> SUFFICES ASSUME TypeOK, NeverPanics, OnlyTrialUnconfirmed, [NextOta]_vars
               PROVE Trial!Next \/ UNCHANGED <<active_version, stable, boot>>
    BY DEF Trial!bootVars
  <2> USE DEF TypeOK, NeverPanics, OnlyTrialUnconfirmed
  <2>1. CASE (\E v \in Version : StageFirmware(v)) \/ MarkUpdated
    BY <2>1 DEF StageFirmware, MarkUpdated
  <2>2. CASE MarkBooted
    BY <2>2 DEF MarkBooted, Trial!Next, Trial!Confirm
  <2>3. CASE OnReset
    BY <2>3 DEF OnReset, SwapAndBoot, RollBackAndBoot, BootUnchanged, smVars,
                Trial!Next, Trial!Restart
  <2>4. CASE UNCHANGED vars
    BY <2>4 DEF vars
  <2> QED
    BY <2>1, <2>2, <2>3, <2>4 DEF NextOta
<1> QED
  BY <1>1, <1>2, PanicFreeOta, TrialKeepsStable, PTL
     DEF SpecOta, FailSafeUpdate, Trial!Spec

------------------------------------------------------------------------------
(* The flash map *)

\* The bounds of each partition, as numbers.
LEMMA Bounds ==
    /\ offset("Bootloader") = 0      /\ end_offset("Bootloader") = 24576
    /\ offset("Active") = 24576      /\ end_offset("Active") = 823296
    /\ offset("Dfu") = 823296        /\ end_offset("Dfu") = 1626112
    /\ offset("State") = 1626112     /\ end_offset("State") = 1630208
    /\ offset("Spare") = 1630208     /\ end_offset("Spare") = 2097152
  BY DEF offset, end_offset, base_address, len_bytes, FLASH_BASE, FLASH_END, FLASH_BYTES

\* Offsets and addresses differ by the base of the flash.
LEMMA AddressBounds ==
    ASSUME NEW p \in Partition
    PROVE  /\ base_address(p) = FLASH_BASE + offset(p)
           /\ end_address(p) = FLASH_BASE + end_offset(p)
           /\ base_address(p) \in Int /\ end_address(p) \in Int
  BY DEF Partition, offset, end_offset, end_address, base_address, len_bytes,
         FLASH_BASE, FLASH_END, FLASH_BYTES

\* No address computed here leaves the range of the code's u32.
THEOREM NothingWraps ==
    ASSUME NEW p \in Partition
    PROVE  {base_address(p), end_address(p), offset(p), end_offset(p)} \subseteq U32
  <1>1. /\ offset(p) \in Nat /\ offset(p) <= 2097152
        /\ end_offset(p) \in Nat /\ end_offset(p) <= 2097152
    BY Bounds DEF Partition
  <1>2. ASSUME NEW o \in Nat, o <= 2097152
        PROVE  o \in U32 /\ FLASH_BASE + o \in U32
    <2>1. FLASH_BASE + o \in Nat /\ FLASH_BASE + o <= 4294967295 /\ o <= 4294967295
      BY <1>2 DEF FLASH_BASE
    <2> QED
      BY <2>1 DEF U32
  <1>3. /\ offset(p) \in U32 /\ end_offset(p) \in U32
        /\ base_address(p) \in U32 /\ end_address(p) \in U32
    BY <1>1, <1>2, AddressBounds
  <1> QED
    BY <1>3

\* The lookups find every byte of the flash in exactly one partition, and
\* none outside: the order in which the code asks does not matter.
THEOREM PartitionsTile ==
    ASSUME NEW o \in Nat
    PROVE  /\ o < FLASH_BYTES => partition_for_offset(o) \in Partition
           /\ o >= FLASH_BYTES => partition_for_offset(o) = "None"
           /\ \A p \in Partition : contains_offset(p, o) <=> partition_for_offset(o) = p
  BY Bounds DEF Partition, contains_offset, partition_for_offset, FLASH_BYTES

\* An offset and its address convert into each other and are looked up alike.
THEOREM ConversionsAgree ==
    ASSUME NEW o \in Nat, o < FLASH_BYTES
    PROVE  /\ address_to_flash_offset(flash_offset_to_address(o)) = o
           /\ partition_for_address(flash_offset_to_address(o)) = partition_for_offset(o)
  <1>1. flash_offset_to_address(o) = FLASH_BASE + o
    BY DEF flash_offset_to_address
  <1>2. address_to_flash_offset(FLASH_BASE + o) = o
    BY DEF address_to_flash_offset, FLASH_BASE, FLASH_END, FLASH_BYTES
  <1>3. \A p \in Partition : contains_address(p, FLASH_BASE + o) <=> contains_offset(p, o)
    <2> SUFFICES ASSUME NEW p \in Partition
                 PROVE  contains_address(p, FLASH_BASE + o) <=> contains_offset(p, o)
      OBVIOUS
    <2>1. offset(p) \in Int /\ end_offset(p) \in Int
      BY Bounds DEF Partition
    <2> QED
      BY <2>1, AddressBounds DEF contains_address, contains_offset, FLASH_BASE
  <1>4. partition_for_address(FLASH_BASE + o) = partition_for_offset(o)
    BY <1>3 DEF partition_for_address, partition_for_offset, Partition
  <1> QED
    BY <1>1, <1>2, <1>4

\* Erasing the page at an aligned offset touches one partition only.
THEOREM PagesStayInside ==
    ASSUME NEW p \in Partition, NEW o \in Nat, is_page_aligned(o), contains_offset(p, o),
           NEW i \in 0..(PAGE_BYTES - 1)
    PROVE  contains_offset(p, o + i)
  <1>1. o % 4096 = 0 /\ i \in 0..4095
    BY DEF is_page_aligned, PAGE_BYTES
  <1>2. CASE p = "Bootloader"
    BY <1>1, <1>2, Bounds DEF contains_offset
  <1>3. CASE p = "Active"
    BY <1>1, <1>3, Bounds DEF contains_offset
  <1>4. CASE p = "Dfu"
    BY <1>1, <1>4, Bounds DEF contains_offset
  <1>5. CASE p = "State"
    BY <1>1, <1>5, Bounds DEF contains_offset
  <1>6. CASE p = "Spare"
    BY <1>1, <1>6, Bounds DEF contains_offset
  <1> QED
    BY <1>2, <1>3, <1>4, <1>5, <1>6 DEF Partition

\* An image that apply_update admits is staged inside the DFU partition, with
\* the page to spare that the swap needs.
THEOREM ImageStaysInDfu ==
    ASSUME NEW size \in Nat, can_fit_in_active(size), NEW i \in 0..(size - 1)
    PROVE  /\ contains_offset("Dfu", offset("Dfu") + i)
           /\ can_fit_in_dfu(size + PAGE_BYTES)
  <1>1. len_bytes("Active") = 798720 /\ len_bytes("Dfu") = 802816
    BY DEF len_bytes
  <1> QED
    BY <1>1, Bounds DEF can_fit_in_active, can_fit_in_dfu, contains_offset, PAGE_BYTES

\* The swap's progress, two units and four for each page, fits the state
\* partition.
THEOREM ProgressFits ==
    required_state_write_units(len_bytes("Active")) <= state_write_units
  BY DEF required_state_write_units, state_write_units, len_bytes, PAGE_BYTES, WRITE_BYTES

\* Below 2^32 the truncation changes nothing.
LEMMA AsU32 == ASSUME NEW n \in U32 PROVE as_u32(n) = n
<1>1. n \in Nat /\ n < 4294967296
  BY DEF U32
<1> QED
  BY <1>1 DEF as_u32

\* What the build makes of a map none of whose regions ends beyond 32 bits.
LEMMA ParsesAsWritten ==
    ASSUME NEW origin \in [Region -> Nat], NEW length \in [Region -> Nat],
           NEW map, map = [origin |-> origin, length |-> length],
           \A r \in Region : origin[r] + length[r] \in U32
    PROVE  /\ parse_memory_x(map).origin = origin
           /\ parse_memory_x(map).length = length
           /\ \A r \in Region : region_end(parse_memory_x(map), r) = origin[r] + length[r]
<1>1. ASSUME NEW r \in Region
      PROVE  as_u32(origin[r]) = origin[r] /\ as_u32(length[r]) = length[r]
  <2>1. origin[r] \in U32 /\ length[r] \in U32
    BY DEF U32
  <2> QED
    BY <2>1, AsU32
<1>2. /\ [r \in Region |-> as_u32(map.origin[r])] = origin
      /\ [r \in Region |-> as_u32(map.length[r])] = length
  BY <1>1
<1>3. parse_memory_x(map).origin = origin /\ parse_memory_x(map).length = length
  BY <1>2 DEF parse_memory_x
<1> QED
  BY <1>3, AsU32 DEF region_end

\* A map whose regions end within 32 bits, as written, and that the bootloader's
\* build accepts has no two regions that overlap, the unsorted ones included, room
\* in DFU for an image of the size of ACTIVE and one page, and nothing beyond the
\* flash.  OversizedMapsPass is about the other maps.
THEOREM ValidMapsAreSafe ==
    ASSUME NEW origin \in [Region -> Nat], NEW length \in [Region -> Nat],
           NEW map, map = [origin |-> origin, length |-> length], validate(map),
           \A r \in Region : origin[r] + length[r] \in U32
    PROVE  /\ \A q, r \in Region :
                q # r => \/ origin[q] + length[q] <= origin[r]
                         \/ origin[r] + length[r] <= origin[q]
           /\ \A size \in Nat : size <= length[Active] => size + PAGE_BYTES <= length[Dfu]
           /\ \A r \in Region : origin[r] + length[r] <= FLASH_END
  <1> DEFINE parsed == parse_memory_x(map)
  <1>0. /\ parsed.origin = origin /\ parsed.length = length
        /\ \A r \in Region : region_end(parsed, r) = origin[r] + length[r]
        /\ validate_regions(parsed)
    BY ParsesAsWritten DEF validate
  <1> HIDE DEF parsed
  <1>1. PICK ordered \in [Region -> Region] :
          /\ \A r \in Region : \E k \in Region : ordered[k] = r
          /\ \A k \in 1..4 :
               /\ origin[ordered[k]] <= origin[ordered[k + 1]]
               /\ origin[ordered[k]] + length[ordered[k]] <= origin[ordered[k + 1]]
    <2>1. PICK ordered \in [Region -> Region] :
            /\ \A r \in Region : \E k \in Region : ordered[k] = r
            /\ \A k \in 1..4 :
                 /\ SortsBefore(parsed, ordered[k], ordered[k + 1])
                 /\ region_end(parsed, ordered[k]) <= parsed.origin[ordered[k + 1]]
      BY <1>0 DEF validate_regions, validate_no_overlap
    <2>2. ASSUME NEW k \in 1..4
          PROVE  /\ origin[ordered[k]] <= origin[ordered[k + 1]]
                 /\ origin[ordered[k]] + length[ordered[k]] <= origin[ordered[k + 1]]
      <3>1. k \in Region /\ k + 1 \in Region
        BY DEF Region
      <3>2. ordered[k] \in Region /\ ordered[k + 1] \in Region
        BY <3>1
      <3>3. origin[ordered[k]] + length[ordered[k]] <= origin[ordered[k + 1]]
        BY <1>0, <2>1, <3>2
      <3>4. origin[ordered[k]] \in Nat /\ length[ordered[k]] \in Nat /\ origin[ordered[k + 1]] \in Nat
        BY <3>2
      <3> QED
        BY <3>3, <3>4
    <2> QED
      BY <2>1, <2>2
  <1>2. \A k \in Region : /\ ordered[k] \in Region
                          /\ origin[ordered[k]] \in Nat /\ length[ordered[k]] \in Nat
    BY <1>1
  <1>3. \A a, b \in Region :
          a < b => origin[ordered[a]] + length[ordered[a]] <= origin[ordered[b]]
    <2> DEFINE o(k) == origin[ordered[k]]
               e(k) == origin[ordered[k]] + length[ordered[k]]
    <2>1. /\ o(1) <= o(2) /\ o(2) <= o(3) /\ o(3) <= o(4) /\ o(4) <= o(5)
          /\ e(1) <= o(2) /\ e(2) <= o(3) /\ e(3) <= o(4) /\ e(4) <= o(5)
      BY <1>1
    <2>2. \A k \in Region : o(k) \in Nat /\ e(k) \in Nat
      BY <1>2
    <2> HIDE DEF o, e
    <2>3. /\ o(1) \in Nat /\ o(2) \in Nat /\ o(3) \in Nat /\ o(4) \in Nat /\ o(5) \in Nat
          /\ e(1) \in Nat /\ e(2) \in Nat /\ e(3) \in Nat /\ e(4) \in Nat
      BY <2>2 DEF Region
    <2>4. /\ e(1) <= o(3) /\ e(1) <= o(4) /\ e(1) <= o(5)
          /\ e(2) <= o(4) /\ e(2) <= o(5) /\ e(3) <= o(5)
      BY <2>1, <2>3
    <2>5. \A a, b \in 1..5 : a < b => e(a) <= o(b)
      BY <2>1, <2>4
    <2> QED
      BY <2>5 DEF o, e, Region
  <1>4. ASSUME NEW q \in Region, NEW r \in Region, q # r
        PROVE  \/ origin[q] + length[q] <= origin[r]
               \/ origin[r] + length[r] <= origin[q]
    <2>1. PICK a \in Region, b \in Region : ordered[a] = q /\ ordered[b] = r
      BY <1>1
    <2>2. a < b \/ b < a
      BY <2>1, <1>4 DEF Region
    <2> QED
      BY <2>1, <2>2, <1>3
  <1>5. /\ \A size \in Nat : size <= length[Active] => size + PAGE_BYTES <= length[Dfu]
        /\ \A r \in Region : origin[r] + length[r] <= FLASH_END
    <2>1. \A r \in Region : origin[r] + length[r] <= FLASH_END
      BY <1>0 DEF validate_regions, validate_within_flash
    <2>2. length[Active] \in Nat /\ origin[Active] \in Nat /\ Active \in Region
      BY DEF Region, Active
    <2>3. length[Active] + PAGE_BYTES \in U32
      BY <2>1, <2>2 DEF FLASH_END, FLASH_BASE, FLASH_BYTES, PAGE_BYTES, U32
    <2>4. length[Dfu] = length[Active] + PAGE_BYTES
      BY <1>0, <2>3, AsU32 DEF validate_regions, validate_dfu_layout
    <2> QED
      BY <2>1, <2>2, <2>4 DEF PAGE_BYTES
  <1> QED
    BY <1>4, <1>5

\* The bootloader's map is accepted, whatever the length of its last region, as
\* long as that is a number of pages and the region's end, modulo 2^32, is in the
\* flash.
LEMMA RegionsAccepted ==
    ASSUME NEW m, NEW n \in Nat, n % 4096 = 0, as_u32(270061568 + n) <= FLASH_END,
           m.origin[1] = 268435456, m.origin[2] = 268435712, m.origin[3] = 268460032,
           m.origin[4] = 269258752, m.origin[5] = 270061568,
           m.length[1] = 256, m.length[2] = 24320, m.length[3] = 798720,
           m.length[4] = 802816, m.length[5] = n
    PROVE  validate_regions(m)
<1>1. /\ region_end(m, 1) = 268435712 /\ region_end(m, 2) = 268460032
      /\ region_end(m, 3) = 269258752 /\ region_end(m, 4) = 270061568
      /\ region_end(m, 5) = as_u32(270061568 + n)
  BY DEF region_end, as_u32
<1>2. validate_within_flash(m)
  BY <1>1 DEF validate_within_flash, Region, FLASH_END, FLASH_BASE, FLASH_BYTES
<1>3. validate_page_alignment(m)
  BY DEF validate_page_alignment, is_page_aligned, Active, Dfu, State, PAGE_BYTES
<1>4. validate_dfu_layout(m)
  BY <1>1 DEF validate_dfu_layout, as_u32, Active, Dfu, PAGE_BYTES
<1>5. validate_no_overlap(m)
  <2> DEFINE id == [k \in Region |-> k]
  <2>1. id \in [Region -> Region] /\ \A r \in Region : \E k \in Region : id[k] = r
    OBVIOUS
  <2>2. ASSUME NEW k \in 1..4
        PROVE  SortsBefore(m, k, k + 1) /\ region_end(m, k) <= m.origin[k + 1]
    <3>1. k = 1 \/ k = 2 \/ k = 3 \/ k = 4
      OBVIOUS
    <3>2. CASE k = 1
      BY <1>1, <3>2 DEF SortsBefore
    <3>3. CASE k = 2
      BY <1>1, <3>3 DEF SortsBefore
    <3>4. CASE k = 3
      BY <1>1, <3>4 DEF SortsBefore
    <3>5. CASE k = 4
      BY <1>1, <3>5 DEF SortsBefore
    <3> QED
      BY <3>1, <3>2, <3>3, <3>4, <3>5
  <2>3. \A k \in 1..4 : id[k] = k /\ id[k + 1] = k + 1
    BY DEF Region
  <2> HIDE DEF id
  <2>4. \A k \in 1..4 : /\ SortsBefore(m, id[k], id[k + 1])
                        /\ region_end(m, id[k]) <= m.origin[id[k + 1]]
    BY <2>2, <2>3
  <2> QED
    BY <2>1, <2>4 DEF validate_no_overlap
<1> QED
  BY <1>2, <1>3, <1>4, <1>5 DEF validate_regions

\* A map that reaches beyond the flash passes the checks when its numbers are
\* large enough: a state partition whose end wraps, where the build does not check
\* for overflow, and one whose length is truncated, in every build.  build.rs
\* refuses to build "if the pinned partition table is internally inconsistent"; it
\* does not refuse these.
THEOREM OversizedMapsPass ==
    ASSUME NEW n \in {4294963200, 4096 + 4294967296},
           NEW map, map = [bootloader_memory_x EXCEPT !.length[State] = n]
    PROVE  validate(map) /\ map.origin[State] + map.length[State] > FLASH_END
<1> DEFINE parsed == parse_memory_x(map)
<1>1. /\ map.origin[1] = 268435456 /\ map.origin[2] = 268435712 /\ map.origin[3] = 268460032
      /\ map.origin[4] = 269258752 /\ map.origin[5] = 270061568
      /\ map.length[1] = 256 /\ map.length[2] = 24320 /\ map.length[3] = 798720
      /\ map.length[4] = 802816 /\ map.length[5] = n
  BY DEF bootloader_memory_x, State
<1>2. \A r \in Region : /\ parsed.origin[r] = as_u32(map.origin[r])
                        /\ parsed.length[r] = as_u32(map.length[r])
  BY DEF parse_memory_x
<1> HIDE DEF parsed
<1>3. 1 \in Region /\ 2 \in Region /\ 3 \in Region /\ 4 \in Region /\ 5 \in Region
  BY DEF Region
<1>4. /\ parsed.origin[1] = 268435456 /\ parsed.origin[2] = 268435712
      /\ parsed.origin[3] = 268460032 /\ parsed.origin[4] = 269258752
      /\ parsed.origin[5] = 270061568
      /\ parsed.length[1] = 256 /\ parsed.length[2] = 24320 /\ parsed.length[3] = 798720
      /\ parsed.length[4] = 802816
  BY <1>1, <1>2, <1>3 DEF as_u32
<1>5. parsed.length[5] = as_u32(n)
  BY <1>1, <1>2, <1>3
<1>6. /\ as_u32(n) \in Nat /\ as_u32(n) % 4096 = 0
      /\ as_u32(270061568 + as_u32(n)) <= FLASH_END
  BY DEF as_u32, FLASH_END, FLASH_BASE, FLASH_BYTES
<1>7. validate_regions(parsed)
  BY <1>4, <1>5, <1>6, RegionsAccepted
<1>8. map.origin[State] + map.length[State] > FLASH_END
  BY <1>1 DEF State, FLASH_END, FLASH_BASE, FLASH_BYTES
<1> QED
  BY <1>7, <1>8 DEF validate, parsed

\* The three statements of the layout agree: the map the bootloader is linked by
\* passes its own checks and has the partitions of flash.rs, and the application
\* finds the DFU and state partitions where the bootloader looks for them.
THEOREM MapsAgree ==
    /\ validate(bootloader_memory_x)
    /\ symbol_start(bootloader_memory_x, Active) = offset("Active")
    /\ symbol_end(bootloader_memory_x, Active) = end_offset("Active")
    /\ \A map \in {bootloader_memory_x, app_memory_x} :
         /\ symbol_start(map, Dfu) = offset("Dfu")
         /\ symbol_end(map, Dfu) = end_offset("Dfu")
         /\ symbol_start(map, State) = offset("State")
         /\ symbol_end(map, State) = end_offset("State")
    /\ region_end(app_memory_x, Flash) = end_address("Active")
    /\ region_end(bootloader_memory_x, Flash) = end_address("Bootloader")
    /\ bootloader_memory_x.length[Flash] = max_bootloader_binary_bytes
  <1> DEFINE m == bootloader_memory_x
             n == app_memory_x
             parsed == parse_memory_x(m)
  <1>1. /\ m.origin[1] = 268435456 /\ m.origin[2] = 268435712 /\ m.origin[3] = 268460032
        /\ m.origin[4] = 269258752 /\ m.origin[5] = 270061568
        /\ m.length[1] = 256 /\ m.length[2] = 24320 /\ m.length[3] = 798720
        /\ m.length[4] = 802816 /\ m.length[5] = 4096
    BY DEF bootloader_memory_x
  <1>2. /\ n.origin[1] = 268435456 /\ n.origin[2] = 268460032
        /\ n.origin[4] = 269258752 /\ n.origin[5] = 270061568
        /\ n.length[2] = 798720 /\ n.length[4] = 802816 /\ n.length[5] = 4096
    BY DEF app_memory_x, Boot2, Flash, Dfu, State
  <1> HIDE DEF m, n
  <1>3. \A r \in Region : /\ parsed.origin[r] = as_u32(m.origin[r])
                          /\ parsed.length[r] = as_u32(m.length[r])
    BY DEF parse_memory_x
  <1>4. validate_regions(parsed)
    <2> HIDE DEF parsed
    <2>1. 1 \in Region /\ 2 \in Region /\ 3 \in Region /\ 4 \in Region /\ 5 \in Region
      BY DEF Region
    <2>2. /\ parsed.origin[1] = 268435456 /\ parsed.origin[2] = 268435712
          /\ parsed.origin[3] = 268460032 /\ parsed.origin[4] = 269258752
          /\ parsed.origin[5] = 270061568
          /\ parsed.length[1] = 256 /\ parsed.length[2] = 24320 /\ parsed.length[3] = 798720
          /\ parsed.length[4] = 802816 /\ parsed.length[5] = 4096
      BY <1>1, <1>3, <2>1 DEF as_u32
    <2>3. as_u32(270061568 + 4096) <= FLASH_END /\ 4096 \in Nat /\ 4096 % 4096 = 0
      BY DEF as_u32, FLASH_END, FLASH_BASE, FLASH_BYTES
    <2> QED
      BY <2>2, <2>3, RegionsAccepted
  <1>5. /\ symbol_start(m, Active) = 24576   /\ symbol_end(m, Active) = 823296
        /\ symbol_start(m, Dfu) = 823296     /\ symbol_end(m, Dfu) = 1626112
        /\ symbol_start(m, State) = 1626112  /\ symbol_end(m, State) = 1630208
        /\ symbol_start(n, Dfu) = 823296     /\ symbol_end(n, Dfu) = 1626112
        /\ symbol_start(n, State) = 1626112  /\ symbol_end(n, State) = 1630208
    BY <1>1, <1>2 DEF symbol_start, symbol_end, Boot2, Active, Dfu, State
  <1>6. /\ region_end(n, Flash) = end_address("Active")
        /\ region_end(m, Flash) = end_address("Bootloader")
        /\ m.length[Flash] = max_bootloader_binary_bytes
    BY <1>1, <1>2 DEF region_end, as_u32, end_address, base_address, len_bytes, Flash,
                      max_bootloader_binary_bytes, BOOT2_BYTES
  <1> QED
    BY <1>4, <1>5, <1>6, Bounds DEF validate, parsed, m, n
==============================================================================
