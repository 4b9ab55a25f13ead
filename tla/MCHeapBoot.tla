----------------------------- MODULE MCHeapBoot -----------------------------
(***************************************************************************)
(* Two types of internal memory, one external and one of startup stacks.   *)
(* 512 stands for 2^32, so that a size may be next to it.                  *)
(***************************************************************************)
EXTENDS HeapBoot

R(start, size, type) == [start |-> start, size |-> size, type |-> type]

\* Regions that can be joined, once and twice; that meet and differ; with a gap; stacks
MCLayouts ==
    { <<R(32, 64, "dram"), R(96, 64, "dram"), R(160, 64, "iram")>>,
      <<R(32, 48, "dram"), R(80, 32, "dram"), R(112, 48, "dram"), R(176, 40, "spiram")>>,
      <<R(32, 32, "stack"), R(64, 40, "stack"), R(104, 104, "dram")>>,
      <<R(32, 48, "spiram"), R(80, 112, "diram"), R(192, 40, "dram"), R(232, 16, "dram")>> }

MCMemory == {R(32, 192, "dram"), R(224, 200, "iram")}

\* Outside, in a block, over the end of a region, twice, and with an odd start
MCAdditions == {<<240, 288>>, <<96, 128>>, <<200, 300>>, <<296, 360>>, <<300, 342>>}

\* Too small for a header of 16 bytes
MCTooSmall == {<<240, 288>>, <<296, 304>>}
=============================================================================
