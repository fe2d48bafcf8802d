------------------------------ MODULE MCOptions ------------------------------
(* The programs from their command lines to their ends: every line of up to   *)
(* MaxWords words for each of the nine parsers, and every course through each *)
(* of the five mains, one or the other.                                       *)
EXTENDS Options, CanTools

(* Around every length that a CAN FD frame can have. *)
MCLengths == {0, 8, 9, 12, 13, 16, 17, 20, 24, 32, 48, 49, 64}

CONSTANT p1

MCPrograms == {p1}
MCLists    == [p \in MCPrograms |-> {"json", "list", "test"}]
MCWanted   == [p \in MCPrograms |-> 1]

VARIABLE machine \* the command line or the course

MCInit ==
  /\ Init /\ ToolsInit
  /\ \/ machine = "line" /\ tool = [p \in Programs |-> "moni"]
     \/ machine = "course" /\ parser = "simu_p"

MCNext ==
  \/ machine = "line" /\ Next /\ UNCHANGED <<machine, courseVars>>
  \/ machine = "course" /\ ToolsNext /\ UNCHANGED <<machine, vars>>

MCSpec == MCInit /\ [][MCNext]_<<machine, vars, courseVars>>
===============================================================================
