--------------------------- MODULE MCDecodeCache ---------------------------
(* A small instance of DecodeCache: three halfwords of DRAM under two       *)
(* aliases and three of flash, one jump that takes two halfwords (as JAL     *)
(* does), one halfword nothing decodes, two slots shared by every alias and  *)
(* two generations, so that slots collide and generations wrap.             *)
EXTENDS DecodeCache

CONSTANTS z, j, b

MCImages ==
    { [o \in 0 .. 2 |-> CASE o = 0 -> j [] OTHER -> z],
      [o \in 0 .. 2 |-> CASE o = 1 -> b [] OTHER -> z] }
=============================================================================
