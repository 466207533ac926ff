----------------------------- MODULE MCRetained -----------------------------
(* The RAM of an nRF52840 and records of 28 bytes: inside a section, across *)
(* two of one block, two blocks, the small and the large sections, and two  *)
(* large ones.                                                              *)
EXTENDS RetainedMemory

MCAddresses ==
  {SRAM_BEGIN + offset : offset \in {16, 4088, 8168, 65512, 98296}}
=============================================================================
