------------------------------ MODULE MCPeakCan ------------------------------
(* An instance of PeakCan for TLC: two objects, two channels, a table of two
   handles, filters of either kind. *)
EXTENDS PeakCan, TLC

CONSTANTS b1, b2, o1, o2

TwoBoards  == {b1, b2}
TwoObjects == {o1, o2}
None       == {}
Refusable  == {{"badid"}}
NoParam    == {"none"}
Indexes    == {"index"}

FilterModes  == {{}, {"NXTD"}}
FilterValues == {{"code"}, {"mask29"}}
PeakFaults   == {"filter", "initialize", "receive_event"}

Symmetric == Permutations({b1, b2}) \cup Permutations({o1, o2})

(* States that differ only in what the last call returned are one state. *)
View == <<init, can, pcan, call, objVars>>
===============================================================================
