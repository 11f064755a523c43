---------------------------- MODULE MCMultiplex ----------------------------
(* Three schedules of two lengths, a file that may be malformed, a day      *)
(* with a filter for one section and days with none.                        *)
EXTENDS Multiplex, TLC

CONSTANTS a, b, c, x, y

(* The three settling times put the rungs out of step: once a period the    *)
(* index is due and nothing else is.                                        *)
MCPeriod == [clock |-> 4, lineup |-> 4, titles |-> 4, events |-> 2, programmes |-> 4, index |-> 1]
MCWired == Rungs
MCSchedules == {a, b, c}
MCSections == <<x, y>>
MCCarries == (a :> {x, y}) @@ (b :> {y}) @@ (c :> {x})
MCUnits == [d \in Days |-> IF d = 1 THEN {y} ELSE {}]
=============================================================================
