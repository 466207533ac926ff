--------------------------- MODULE RetainedMemory ---------------------------
(***************************************************************************)
(* The RAM that holds the record of Retained (ram_range_retain).           *)
(*                                                                         *)
(* In System OFF the nRF52 keeps only the sections of its RAM whose        *)
(* retention bit is set.  At each start, before this boot is counted,      *)
(* retained_validate sets the bits of all the sections the record lies in, *)
(* in a loop over their addresses; the record may straddle sections, also  *)
(* of different size.  Retained takes for granted that the record survives *)
(* System OFF; here it is shown that its sections do.                      *)
(***************************************************************************)
EXTENDS Retained

CONSTANTS
  SRAM_BEGIN,             \* first address of the RAM, 16#20000000
  SRAM_END,               \* the address after its last one
  Addresses,              \* where the linker may put the record
  RETAINED_CHECKED_SIZE   \* bytes of the record and its checksum: 28

SMALL_SECTION_SIZE == 4096
SMALL_SECTIONS_PER_BLOCK == 2
SMALL_BLOCK_COUNT == 8
LARGE_SECTION_SIZE == 32768
LARGE_SECTIONS == 16      \* sections_per_block of the 9th block
LARGE_SECTION_BEGIN ==
  SRAM_BEGIN + SMALL_BLOCK_COUNT * SMALL_SECTIONS_PER_BLOCK * SMALL_SECTION_SIZE

\* The RAM begins where a large section could, and ends with the 9th block at
\* the latest; the linker puts the record into it.
ASSUME MemoryAssumption ==
  /\ SRAM_BEGIN \in Nat /\ SRAM_BEGIN % LARGE_SECTION_SIZE = 0
  /\ SRAM_END \in Nat
  /\ SRAM_END <= LARGE_SECTION_BEGIN + LARGE_SECTIONS * LARGE_SECTION_SIZE
  /\ RETAINED_CHECKED_SIZE \in Nat \ {0}
  /\ Addresses \subseteq Nat
  /\ \A a \in Addresses :
       SRAM_BEGIN <= a /\ a + RETAINED_CHECKED_SIZE <= SRAM_END

VARIABLES
  begin,      \* the address of the record
  start_up,   \* "none"; "retain" in the loop; "retained" until the boot
  addr,       \* its variable of that name
  retention   \* the sections whose retention bit is set, as block and section

memory_vars == <<begin, start_up, addr, retention>>
all_vars == <<vars, memory_vars>>

Sections == ((0 .. 7) \X (0 .. 1)) \cup ({8} \X (0 .. LARGE_SECTIONS - 1))

MemoryTypeOK ==
  /\ TypeOK
  /\ begin \in Addresses
  /\ start_up \in {"none", "retain", "retained"}
  /\ addr \in Nat
  /\ retention \subseteq Sections

-----------------------------------------------------------------------------
(* ram_range_retain                                                        *)

IsLarge(a) == a >= LARGE_SECTION_BEGIN

\* The section of an address, counted in sections of its size.
SectionIndex(a) ==
  IF IsLarge(a) THEN (a - LARGE_SECTION_BEGIN) \div LARGE_SECTION_SIZE
                ELSE (a - SRAM_BEGIN) \div SMALL_SECTION_SIZE

\* Block and section, whose bit is set in the block's register.
SectionAt(a) ==
  IF IsLarge(a)
  THEN <<SMALL_BLOCK_COUNT + SectionIndex(a) \div LARGE_SECTIONS,
         SectionIndex(a) % LARGE_SECTIONS>>
  ELSE <<SectionIndex(a) \div SMALL_SECTIONS_PER_BLOCK,
         SectionIndex(a) % SMALL_SECTIONS_PER_BLOCK>>

SizeAt(a) == IF IsLarge(a) THEN LARGE_SECTION_SIZE ELSE SMALL_SECTION_SIZE

\* (A slip: on by the size of a section, not to where the next one begins.)
NextAddressUnaligned(a) == a + SizeAt(a)

\* The first address in the next section.
NextAddress(a) == a + SizeAt(a) - (a % SizeAt(a))

\* The check of the range.
InRange == RETAINED_CHECKED_SIZE # 0 /\ begin >= SRAM_BEGIN
             /\ begin <= SRAM_END - RETAINED_CHECKED_SIZE

\* The device starts and enters retained_validate.  The bits may, or may not,
\* have survived System OFF or the reset; a new battery finds them clear.
Wake ==
  /\ power # "on"
  /\ start_up = "none"
  /\ start_up' = IF InRange THEN "retain" ELSE "retained"
  /\ addr' = begin
  /\ \/ power # "unpowered" /\ UNCHANGED retention
     \/ retention' = {}
  /\ UNCHANGED <<vars, begin>>

\* A round of the loop.
RetainSection ==
  /\ start_up = "retain"
  /\ retention' = retention \cup {SectionAt(addr)}
  /\ addr' = NextAddress(addr)
  /\ start_up' = IF addr' < begin + RETAINED_CHECKED_SIZE
                 THEN "retain" ELSE "retained"
  /\ UNCHANGED <<vars, begin>>

\* main() goes on: what retained_validate did to the record, and the boot.
Start ==
  /\ start_up = "retained"
  /\ Boot
  /\ start_up' = "none"
  /\ UNCHANGED <<begin, addr, retention>>

\* The steps of a session.
Session ==
  /\ \/ Poweroff \/ Reboot \/ SensorData \/ DfuPending \/ ClearBoots
     \/ ReadUptime \/ Seal \/ Tick
     \/ \E field \in {"uptime_sum", "uptime_latest"} : Store(field)
  /\ UNCHANGED memory_vars

\* The battery may be changed at any time.
RemoveBattery ==
  /\ BatteryRemoved
  /\ start_up' = "none"
  /\ UNCHANGED <<begin, addr, retention>>

MemoryInit ==
  /\ Init
  /\ begin \in Addresses
  /\ start_up = "none"
  /\ addr = 0
  /\ retention = {}

MemoryNext == Wake \/ RetainSection \/ Start \/ Session \/ RemoveBattery

MemorySpec == MemoryInit /\ [][MemoryNext]_all_vars

-----------------------------------------------------------------------------
(* Properties                                                              *)

\* The layout of the RAM (retained.c:22-29): 8 blocks of two sections of 4 KiB,
\* then a block with sections of 32 KiB.
FirstByte(s) ==
  IF s[1] < 8 THEN SRAM_BEGIN + 8192 * s[1] + 4096 * s[2]
              ELSE SRAM_BEGIN + 65536 + 32768 * s[2]
EndByte(s) == FirstByte(s) + (IF s[1] < 8 THEN 4096 ELSE 32768)

\* The sections the record lies in.
RecordSections ==
  {s \in Sections : FirstByte(s) < begin + RETAINED_CHECKED_SIZE
                      /\ begin < EndByte(s)}

\* In a session and in the System OFF that ends it, exactly the sections that
\* hold a byte of the record are retained: none is forgotten when the record
\* straddles sections, none more costs power (ram_range_retain).
RecordRetained ==
  power = "on" \/ (power = "off" /\ start_up = "none") =>
    retention = RecordSections
=============================================================================
