----------------------- MODULE RetainedMemory_proofs -----------------------
(***************************************************************************)
(* Proofs about RetainedMemory: for every place of the record and every    *)
(* size of it and of the RAM, ram_range_retain retains exactly its         *)
(* sections, so the theorems about Retained hold with the memory, too.     *)
(*                                                                         *)
(* RecordRetained says nothing of a start in progress.  LoopInv adds which *)
(* sections the loop has done: those up to addr, which is where the last   *)
(* of them ends.                                                           *)
(***************************************************************************)
EXTENDS RetainedMemory, Retained_proofs

End == begin + RETAINED_CHECKED_SIZE

LoopInv ==
  /\ retention \subseteq RecordSections
  /\ start_up # "none" => power # "on"
  /\ start_up = "retain" => begin <= addr /\ addr < End
  /\ start_up = "retain" =>
       \A s \in RecordSections :
         FirstByte(s) < addr /\ addr # begin => s \in retention
  /\ start_up = "retained" => RecordSections \subseteq retention
  /\ power = "on" \/ (power = "off" /\ start_up = "none") =>
       RecordSections \subseteq retention

-----------------------------------------------------------------------------
(* The sections and the arithmetic of the loop.                            *)

\* Addresses of the RAM.
InRam(a) ==
  a \in Nat /\ SRAM_BEGIN <= a
            /\ a < LARGE_SECTION_BEGIN + LARGE_SECTIONS * LARGE_SECTION_SIZE

LEMMA RamBounds ==
  /\ SRAM_BEGIN \in Nat
  /\ LARGE_SECTION_BEGIN = SRAM_BEGIN + 65536
  /\ LARGE_SECTION_BEGIN + LARGE_SECTIONS * LARGE_SECTION_SIZE
       = SRAM_BEGIN + 589824
BY MemoryAssumption
   DEF LARGE_SECTION_BEGIN, LARGE_SECTIONS, LARGE_SECTION_SIZE,
       SMALL_BLOCK_COUNT, SMALL_SECTIONS_PER_BLOCK, SMALL_SECTION_SIZE

\* No address lies in two sections.
LEMMA SectionsDisjoint ==
  ASSUME NEW s \in Sections, NEW t \in Sections, NEW a \in Nat,
         FirstByte(s) <= a, a < EndByte(s), FirstByte(t) <= a, a < EndByte(t)
  PROVE  s = t
<1>1. SRAM_BEGIN \in Nat
  BY MemoryAssumption
<1>2. /\ s = <<s[1], s[2]>> /\ t = <<t[1], t[2]>>
      /\ s[1] \in 0 .. 8 /\ s[2] \in 0 .. 15 /\ (s[1] < 8 => s[2] < 2)
      /\ t[1] \in 0 .. 8 /\ t[2] \in 0 .. 15 /\ (t[1] < 8 => t[2] < 2)
  BY DEF Sections, LARGE_SECTIONS
<1>3. CASE s[1] < 8 /\ t[1] < 8
  BY <1>1, <1>2, <1>3 DEF FirstByte, EndByte
<1>4. CASE s[1] = 8 /\ t[1] = 8
  BY <1>1, <1>2, <1>4 DEF FirstByte, EndByte
<1>5. CASE s[1] < 8 /\ t[1] = 8
  BY <1>1, <1>2, <1>5 DEF FirstByte, EndByte
<1>6. CASE s[1] = 8 /\ t[1] < 8
  BY <1>1, <1>2, <1>6 DEF FirstByte, EndByte
<1> QED BY <1>2, <1>3, <1>4, <1>5, <1>6

\* The loop finds the section of an address, and where the next one begins.
LEMMA SectionFound ==
  ASSUME NEW a, InRam(a)
  PROVE  /\ SectionAt(a) \in Sections
         /\ FirstByte(SectionAt(a)) <= a
         /\ NextAddress(a) = EndByte(SectionAt(a))
         /\ a < NextAddress(a) /\ NextAddress(a) \in Nat
<1>1. /\ SRAM_BEGIN \in Nat /\ SRAM_BEGIN % 32768 = 0
      /\ LARGE_SECTION_BEGIN = SRAM_BEGIN + 65536
      /\ a \in Nat /\ SRAM_BEGIN <= a /\ a < SRAM_BEGIN + 589824
  BY RamBounds, MemoryAssumption DEF InRam, LARGE_SECTION_SIZE
<1>2. CASE a < SRAM_BEGIN + 65536
  <2> DEFINE index == (a - SRAM_BEGIN) \div 4096
             b == index \div 2
             c == index % 2
  <2>1. index \in 0 .. 15 /\ b \in 0 .. 7 /\ c \in 0 .. 1
    BY <1>1, <1>2
  <2>2. SectionAt(a) = <<b, c>>
    BY <1>1, <1>2 DEF SectionAt, IsLarge, SectionIndex,
                      SMALL_SECTIONS_PER_BLOCK, SMALL_SECTION_SIZE
  <2>3. NextAddress(a) = a + 4096 - (a % 4096)
    <3>1. ~IsLarge(a)
      BY <1>1, <1>2 DEF IsLarge
    <3>2. SizeAt(a) = 4096
      BY <3>1 DEF SizeAt, SMALL_SECTION_SIZE
    <3> QED BY <3>2 DEF NextAddress
  <2>4. a % 4096 = a - SRAM_BEGIN - 4096 * index
    BY <1>1
  <2>5. index = 2 * b + c
    BY <2>1
  <2>6. FirstByte(<<b, c>>) = SRAM_BEGIN + 8192 * b + 4096 * c
        /\ EndByte(<<b, c>>) = SRAM_BEGIN + 8192 * b + 4096 * c + 4096
    BY <2>1 DEF FirstByte, EndByte
  <2>7. 4096 * index <= a - SRAM_BEGIN /\ a - SRAM_BEGIN < 4096 * index + 4096
    BY <1>1
  <2>8. SectionAt(a) \in Sections
    BY <2>1, <2>2 DEF Sections
  <2> HIDE DEF index, b, c
  <2> QED BY <1>1, <2>1, <2>2, <2>3, <2>4, <2>5, <2>6, <2>7, <2>8
<1>3. CASE a >= SRAM_BEGIN + 65536
  <2> DEFINE index == (a - (SRAM_BEGIN + 65536)) \div 32768
  <2>1. index \in 0 .. 15
    BY <1>1, <1>3
  <2>2. SectionAt(a) = <<8, index>>
    <3>1. index \div 16 = 0 /\ index % 16 = index
      BY <2>1
    <3> QED BY <1>1, <1>3, <3>1
        DEF SectionAt, IsLarge, SectionIndex, LARGE_SECTION_SIZE,
            LARGE_SECTIONS, SMALL_BLOCK_COUNT
  <2>3. NextAddress(a) = a + 32768 - (a % 32768)
    BY <1>1, <1>3 DEF NextAddress, SizeAt, IsLarge, LARGE_SECTION_SIZE
  <2>4. a % 32768 = a - (SRAM_BEGIN + 65536) - 32768 * index
    BY <1>1
  <2>5. FirstByte(<<8, index>>) = SRAM_BEGIN + 65536 + 32768 * index
        /\ EndByte(<<8, index>>) = SRAM_BEGIN + 65536 + 32768 * index + 32768
    BY DEF FirstByte, EndByte
  <2>6. /\ 32768 * index <= a - (SRAM_BEGIN + 65536)
        /\ a - (SRAM_BEGIN + 65536) < 32768 * index + 32768
    BY <1>1
  <2>7. SectionAt(a) \in Sections
    BY <2>1, <2>2 DEF Sections, LARGE_SECTIONS
  <2> HIDE DEF index
  <2> QED BY <1>1, <2>1, <2>2, <2>3, <2>4, <2>5, <2>6, <2>7
<1> QED BY <1>1, <1>2, <1>3

-----------------------------------------------------------------------------
(* The loop invariant.                                                     *)

\* The record lies in the RAM.
LEMMA RecordInRam ==
  ASSUME begin \in Addresses
  PROVE  /\ begin \in Nat /\ End \in Nat /\ begin < End
         /\ \A a \in Nat : begin <= a /\ a < End => InRam(a)
         /\ InRange
<1>1. /\ begin \in Nat /\ SRAM_BEGIN <= begin /\ SRAM_BEGIN \in Nat
      /\ RETAINED_CHECKED_SIZE \in Nat /\ RETAINED_CHECKED_SIZE > 0
      /\ begin + RETAINED_CHECKED_SIZE <= SRAM_END /\ SRAM_END \in Nat
      /\ SRAM_END <= LARGE_SECTION_BEGIN + LARGE_SECTIONS * LARGE_SECTION_SIZE
  BY MemoryAssumption
<1>2. LARGE_SECTION_BEGIN + LARGE_SECTIONS * LARGE_SECTION_SIZE \in Nat
  BY RamBounds
<1>3. \A a \in Nat : begin <= a /\ a < End => InRam(a)
  BY <1>1, <1>2 DEF InRam, End
<1>4. InRange
  BY <1>1 DEF InRange
<1> QED BY <1>1, <1>3, <1>4 DEF End

\* Sections have two ends, and the first comes first.
LEMMA SectionEnds ==
  ASSUME NEW s \in Sections
  PROVE  FirstByte(s) \in Nat /\ EndByte(s) \in Nat /\ FirstByte(s) < EndByte(s)
<1>1. s[1] \in 0 .. 8 /\ s[2] \in 0 .. 15 /\ SRAM_BEGIN \in Nat
  BY MemoryAssumption DEF Sections, LARGE_SECTIONS
<1> QED BY <1>1 DEF FirstByte, EndByte

\* A round of the loop retains the section that begins at or before addr, and
\* leaves none out.
LEMMA RoundKeepsLoopInv ==
  ASSUME begin \in Addresses, addr \in Nat, LoopInv, RetainSection
  PROVE  /\ addr' \in Nat
         /\ LoopInv'
<1> DEFINE t == SectionAt(addr)
<1>1. /\ begin \in Nat /\ End \in Nat /\ begin <= addr /\ addr < End
      /\ InRam(addr)
      /\ \A s \in RecordSections :
           FirstByte(s) < addr /\ addr # begin => s \in retention
      /\ retention \subseteq RecordSections
      /\ start_up = "retain" /\ power # "on"
  BY RecordInRam DEF LoopInv, RetainSection
<1>2. /\ retention' = retention \cup {t}
      /\ addr' = NextAddress(addr)
      /\ start_up' = IF addr' < End THEN "retain" ELSE "retained"
      /\ begin' = begin /\ power' = power
  BY DEF RetainSection, vars, End
<1>3. /\ RecordSections' = RecordSections /\ End' = End
  BY <1>2 DEF RecordSections, End
<1>4. /\ t \in Sections /\ FirstByte(t) <= addr
      /\ NextAddress(addr) = EndByte(t)
      /\ addr < NextAddress(addr) /\ NextAddress(addr) \in Nat
  BY <1>1, SectionFound
<1> HIDE DEF t
<1>5. FirstByte(t) \in Nat
  BY <1>4, SectionEnds
<1>6. t \in RecordSections
  <2>1. FirstByte(t) < End /\ begin < EndByte(t)
    BY <1>1, <1>4, <1>5
  <2> QED BY <1>4, <2>1 DEF RecordSections, End
<1>7. ASSUME NEW s \in RecordSections, FirstByte(s) < addr'
      PROVE  s \in retention'
  <2>1. /\ s \in Sections /\ FirstByte(s) < End /\ begin < EndByte(s)
        /\ FirstByte(s) \in Nat /\ EndByte(s) \in Nat
        /\ FirstByte(s) < EndByte(s)
    BY SectionEnds DEF RecordSections, End
  <2>2. CASE FirstByte(s) >= addr
    <3>1. FirstByte(t) <= FirstByte(s) /\ FirstByte(s) < EndByte(t)
      BY <1>1, <1>2, <1>4, <1>5, <1>7, <2>1, <2>2
    <3>2. s = t
      BY <1>4, <2>1, <3>1, SectionsDisjoint
    <3> QED BY <1>2, <3>2
  <2>3. CASE FirstByte(s) < addr /\ addr = begin
    <3>1. s = t
      BY <1>1, <1>4, <2>1, <2>3, SectionsDisjoint
    <3> QED BY <1>2, <3>1
  <2>4. CASE FirstByte(s) < addr /\ addr # begin
    BY <1>1, <1>2, <2>4
  <2> QED BY <1>1, <2>1, <2>2, <2>3, <2>4
<1>8. addr' >= End => RecordSections \subseteq retention'
  <2> SUFFICES ASSUME addr' >= End, NEW s \in RecordSections
               PROVE  s \in retention'
    OBVIOUS
  <2>1. FirstByte(s) < End /\ FirstByte(s) \in Nat
    BY SectionEnds DEF RecordSections, End
  <2> QED BY <1>1, <1>2, <1>4, <1>7, <2>1
<1>9. /\ retention' \subseteq RecordSections
      /\ begin <= addr' /\ addr' \in Nat
  BY <1>1, <1>2, <1>4, <1>6
<1> QED BY <1>1, <1>2, <1>3, <1>4, <1>7, <1>8, <1>9 DEF LoopInv

\* What happens in a session happens while the power is on.
LEMMA SessionOn ==
  Session => power = "on" /\ UNCHANGED memory_vars
BY DEF Session, Poweroff, Reboot, SensorData, DfuPending, ClearBoots,
       ReadUptime, Store, Seal, Tick

\* Every step with the memory is a step of Retained.
LEMMA MemoryStep == [MemoryNext]_all_vars => [Next]_vars
BY DEF MemoryNext, Wake, RetainSection, Start, Session, RemoveBattery, Next,
       all_vars

MemoryInv ==
  /\ begin \in Addresses
  /\ start_up \in {"none", "retain", "retained"}
  /\ addr \in Nat
  /\ LoopInv

LEMMA MemoryInvariant == MemorySpec => []MemoryInv
<1>1. MemoryInit => MemoryInv
  BY DEF MemoryInit, Init, MemoryInv, LoopInv
<1>2. MemoryInv /\ [MemoryNext]_all_vars => MemoryInv'
  <2> SUFFICES ASSUME MemoryInv, [MemoryNext]_all_vars PROVE MemoryInv'
    OBVIOUS
  <2>1. ASSUME UNCHANGED <<begin, addr, retention>>,
               start_up' \in {"none", "retain", "retained"}, LoopInv'
        PROVE  MemoryInv'
    BY <2>1 DEF MemoryInv
  <2>2. CASE Wake
    <3>1. /\ begin \in Nat /\ begin < End /\ InRange
          /\ retention \subseteq RecordSections
      BY RecordInRam DEF MemoryInv, LoopInv
    <3>2. /\ power # "on" /\ power' = power /\ begin' = begin
          /\ start_up' = "retain" /\ addr' = begin
          /\ retention' \in {retention, {}}
      BY <2>2, <3>1 DEF Wake, vars
    <3>3. RecordSections' = RecordSections /\ End' = End
      BY <3>2 DEF RecordSections, End
    <3>4. LoopInv'
      BY <3>1, <3>2, <3>3 DEF LoopInv
    <3> QED BY <3>1, <3>2, <3>4 DEF MemoryInv
  <2>3. CASE RetainSection
    <3>1. addr' \in Nat /\ LoopInv'
      BY <2>3, RoundKeepsLoopInv DEF MemoryInv
    <3>2. begin' = begin /\ start_up' \in {"retain", "retained"}
      BY <2>3 DEF RetainSection
    <3> QED BY <3>1, <3>2 DEF MemoryInv
  <2>4. CASE Start
    <3>1. /\ start_up = "retained" /\ start_up' = "none" /\ power' = "on"
          /\ UNCHANGED <<begin, addr, retention>>
      BY <2>4 DEF Start, Boot
    <3>2. RecordSections' = RecordSections
      BY <3>1 DEF RecordSections
    <3>3. LoopInv'
      BY <3>1, <3>2 DEF MemoryInv, LoopInv
    <3> QED BY <2>1, <3>1, <3>3
  <2>5. CASE Session
    <3>1. power = "on" /\ UNCHANGED <<begin, start_up, addr, retention>>
      BY <2>5, SessionOn DEF memory_vars
    <3>2. RecordSections' = RecordSections
      BY <3>1 DEF RecordSections
    <3>3. start_up = "none"
      BY <3>1 DEF MemoryInv, LoopInv
    <3>4. LoopInv'
      BY <3>1, <3>2, <3>3 DEF MemoryInv, LoopInv
    <3> QED BY <2>1, <3>1, <3>3, <3>4
  <2>6. CASE RemoveBattery
    <3>1. /\ power' = "unpowered" /\ start_up' = "none"
          /\ UNCHANGED <<begin, addr, retention>>
      BY <2>6 DEF RemoveBattery, BatteryRemoved
    <3>2. RecordSections' = RecordSections
      BY <3>1 DEF RecordSections
    <3>3. LoopInv'
      BY <3>1, <3>2 DEF MemoryInv, LoopInv
    <3> QED BY <2>1, <3>1, <3>3
  <2>7. CASE UNCHANGED all_vars
    <3>1. UNCHANGED <<power, begin, start_up, addr, retention>>
      BY <2>7 DEF all_vars, vars, memory_vars
    <3>2. RecordSections' = RecordSections /\ End' = End
      BY <3>1 DEF RecordSections, End
    <3> QED BY <3>1, <3>2 DEF MemoryInv, LoopInv
  <2> QED BY <2>2, <2>3, <2>4, <2>5, <2>6, <2>7 DEF MemoryNext
<1> QED BY <1>1, <1>2, PTL DEF MemorySpec

-----------------------------------------------------------------------------
(* The results.                                                            *)

\* With the memory, too, the record behaves as Retained says: all theorems
\* about Spec hold of MemorySpec.
THEOREM MemoryImplementsRetained == MemorySpec => Spec
<1>1. MemoryInit => Init
  BY DEF MemoryInit
<1> QED BY <1>1, MemoryStep, PTL DEF MemorySpec, Spec

\* The record, the history and the loop keep their types.
THEOREM MemoryTypeTheorem == MemorySpec => []MemoryTypeOK
<1>1. TypeOK /\ MemoryInv => MemoryTypeOK
  BY DEF MemoryInv, LoopInv, MemoryTypeOK, RecordSections
<1> QED BY <1>1, MemoryImplementsRetained, TypeTheorem, MemoryInvariant, PTL

\* Wherever the linker puts the record, and whatever its size: System OFF
\* retains exactly the sections that hold a byte of it.
THEOREM RecordRetainedTheorem == MemorySpec => []RecordRetained
<1>1. MemoryInv => RecordRetained
  BY DEF MemoryInv, LoopInv, RecordRetained
<1> QED BY <1>1, MemoryInvariant, PTL
=============================================================================
