----------------------------- MODULE FlashLayout -----------------------------
(***************************************************************************)
(* The flash map of core/src/flash.rs: partitions, address conversions and *)
(* lookups, as functions of addresses, and what OtaUpdate takes from it:   *)
(* that the partitions do not overlap, that erasing a page of one leaves   *)
(* the others alone, that an image which fits the active partition is      *)
(* staged inside the DFU partition, and that the swap's progress fits the  *)
(* state partition.  The same map is stated twice more, for the linker, in *)
(* bootloader/memory.x and app/memory.x, and the former is checked by      *)
(* bootloader/build.rs.                                                    *)
(*                                                                         *)
(* The addresses of flash.rs are below 2^32 throughout, so that its u32     *)
(* arithmetic is the arithmetic used here (NothingWraps, in Flash_proofs). *)
(* The numbers of a memory map are anything, and build.rs takes them and   *)
(* its sums modulo 2^32.                                                   *)
(***************************************************************************)
EXTENDS Integers

U32 == {n \in Nat : n <= 4294967295}
as_u32(n) == n % 4294967296
NoneU32 == -1  \* Option::None of an address or offset

FLASH_BASE  == 268435456            \* 0x1000_0000
FLASH_BYTES == 2 * 1024 * 1024
FLASH_END   == FLASH_BASE + FLASH_BYTES
PAGE_BYTES  == 4096
WRITE_BYTES == 1
BOOT2_BYTES == 256

Partition == {"Bootloader", "Active", "Dfu", "State", "Spare"}

base_address(p) ==
    CASE p = "Bootloader" -> 268435456   \* 0x1000_0000
      [] p = "Active"     -> 268460032   \* 0x1000_6000
      [] p = "Dfu"        -> 269258752   \* 0x100C_9000
      [] p = "State"      -> 270061568   \* 0x1018_D000
      [] p = "Spare"      -> 270065664   \* 0x1018_E000

len_bytes(p) ==
    CASE p = "Bootloader" -> 24 * 1024
      [] p = "Active"     -> 780 * 1024
      [] p = "Dfu"        -> 784 * 1024
      [] p = "State"      -> 4 * 1024
      [] p = "Spare"      -> FLASH_END - 270065664

offset(p)      == base_address(p) - FLASH_BASE
end_address(p) == base_address(p) + len_bytes(p)
end_offset(p)  == offset(p) + len_bytes(p)
page_count(p)  == len_bytes(p) \div PAGE_BYTES

contains_address(p, addr) == base_address(p) <= addr /\ addr < end_address(p)
contains_offset(p, o)     == offset(p) <= o /\ o < end_offset(p)

flash_offset_to_address(o)    == IF o < FLASH_BYTES THEN FLASH_BASE + o ELSE NoneU32
address_to_flash_offset(addr) ==
    IF FLASH_BASE <= addr /\ addr < FLASH_END THEN addr - FLASH_BASE ELSE NoneU32

is_page_aligned(a) == a % PAGE_BYTES = 0

\* The first partition, in the order of the code, that contains the address.
partition_for_address(addr) ==
    IF contains_address("Bootloader", addr) THEN "Bootloader"
    ELSE IF contains_address("Active", addr) THEN "Active"
    ELSE IF contains_address("Dfu", addr) THEN "Dfu"
    ELSE IF contains_address("State", addr) THEN "State"
    ELSE IF contains_address("Spare", addr) THEN "Spare"
    ELSE "None"

partition_for_offset(o) ==
    IF contains_offset("Bootloader", o) THEN "Bootloader"
    ELSE IF contains_offset("Active", o) THEN "Active"
    ELSE IF contains_offset("Dfu", o) THEN "Dfu"
    ELSE IF contains_offset("State", o) THEN "State"
    ELSE IF contains_offset("Spare", o) THEN "Spare"
    ELSE "None"

required_state_write_units(active_bytes) == 2 + 4 * (active_bytes \div PAGE_BYTES)
state_write_units == len_bytes("State") \div WRITE_BYTES

can_fit_in_active(size)     == size <= len_bytes("Active")
can_fit_in_dfu(size)        == size <= len_bytes("Dfu")
max_bootloader_binary_bytes == len_bytes("Bootloader") - BOOT2_BYTES
can_fit_in_bootloader(size) == size <= max_bootloader_binary_bytes

------------------------------------------------------------------------------
(* The memory maps that the linker uses, and the checks of one of them when  *)
(* the bootloader is built (bootloader/build.rs).  A map gives the regions,  *)
(* numbered in the order of PARTITIONS, their origins and lengths.           *)

Boot2  == 1
Flash  == 2
Active == 3
Dfu    == 4
State  == 5
Region == 1..5

\* bootloader/memory.x: its FLASH is what BOOT2 leaves of the 24 KiB window.
bootloader_memory_x ==
    [origin |-> <<268435456, 268435712, 268460032, 269258752, 270061568>>,
     length |-> <<256, 24 * 1024 - 256, 780 * 1024, 784 * 1024, 4 * 1024>>]

\* app/memory.x: its FLASH is the bootloader's ACTIVE.
app_memory_x ==
    [origin |-> [r \in {Boot2, Flash, Dfu, State} |->
                   CASE r = Boot2 -> 268435456 [] r = Flash -> 268460032
                     [] r = Dfu -> 269258752   [] r = State -> 270061568],
     length |-> [r \in {Boot2, Flash, Dfu, State} |->
                   CASE r = Boot2 -> 256        [] r = Flash -> 780 * 1024
                     [] r = Dfu -> 784 * 1024   [] r = State -> 4 * 1024]]

\* __bootloader_*_start and __bootloader_*_end.
symbol_start(map, r) == map.origin[r] - map.origin[Boot2]
symbol_end(map, r)   == map.origin[r] + map.length[r] - map.origin[Boot2]

\* eval_expr: a term may be negative or too large, and is truncated `as u32`.
parse_memory_x(map) ==
    [origin |-> [r \in Region |-> as_u32(map.origin[r])],
     length |-> [r \in Region |-> as_u32(map.length[r])]]

\* Without overflow checks, as in a release build.  A build with them panics
\* where the sum wraps, and accepts no more.
region_end(map, r) == as_u32(map.origin[r] + map.length[r])

validate_within_flash(map) == \A r \in Region : region_end(map, r) <= FLASH_END

validate_page_alignment(map) ==
    \A r \in {Active, Dfu, State} :
        is_page_aligned(map.origin[r]) /\ is_page_aligned(map.length[r])

validate_dfu_layout(map) ==
    /\ map.origin[Dfu] = region_end(map, Active)
    /\ map.length[Dfu] = as_u32(map.length[Active] + PAGE_BYTES)

\* The order of a stable sort by origin.
SortsBefore(map, q, r) ==
    map.origin[q] < map.origin[r] \/ (map.origin[q] = map.origin[r] /\ q < r)

\* Sorted by origin, each region ends before the next begins.
validate_no_overlap(map) ==
    \E ordered \in [Region -> Region] :
        /\ \A r \in Region : \E k \in Region : ordered[k] = r
        /\ \A k \in 1..4 :
             /\ SortsBefore(map, ordered[k], ordered[k + 1])
             /\ region_end(map, ordered[k]) <= map.origin[ordered[k + 1]]

validate_regions(map) ==
    /\ validate_within_flash(map) /\ validate_page_alignment(map)
    /\ validate_dfu_layout(map) /\ validate_no_overlap(map)

validate(map) == validate_regions(parse_memory_x(map))
==============================================================================
