-------------------------- MODULE MCSectionPlanner --------------------------
(* Instance of SectionPlanner for TLC.  u32 is scaled to 8 bits (256) and  *)
(* u64 to 16 bits (65536).  Three stub tables: none, one section, and two *)
(* sections whose last one ends past 2^8, so that the u32 sum overflows.  *)
(* Image base 512 is a usual one; 65480 puts the stub's end just below    *)
(* 2^16, so that the offset sums of the new sections overflow, and 65500  *)
(* makes the image-base addition itself overflow for the one-section      *)
(* table.  An empty os-release and an empty command line give zero-sized  *)
(* sections.                                                               *)
EXTENDS SectionPlanner

MCWidth == 8
MCImageBases == {512, 65480, 65500}
MCSectionTables ==
    { <<>>,
      <<[va |-> 16, vs |-> 32]>>,
      <<[va |-> 16, vs |-> 32], [va |-> 240, vs |-> 32]>> }
MCOsReleaseSizes == {0, 5}
MCTokenLens == {1, 3}
MCMaxTokens == 2
MCRelPathLens == {4, 9}
MCInitrdSizes == {0, 7}
=============================================================================
