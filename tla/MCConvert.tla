------------------------------ MODULE MCConvert -----------------------------
(* The conversions, each by itself: bit-rate strings, lines of can_send and  *)
(* formatted messages.                                                       *)
EXTENDS CanBtr, MsgParse, MsgFormat

VARIABLE machine  \* which of them

vars == <<machine, btrVars, parseVars, formatVars>>

MCNumbers ==
  [f_clock |-> {0, 8000000, 80000000}, f_clock_mhz |-> {8, 80, 2148},
   nom_brp |-> {1, 64, 65, 65536}, nom_tseg1 |-> {16, 17},
   nom_tseg2 |-> {8, 9}, nom_sjw |-> {4, 5}, nom_sam |-> {0, 1, 256},
   data_brp |-> {2}, data_tseg1 |-> {5, 33}, data_tseg2 |-> {2}, data_sjw |-> {2}]

(* One option at a time, the widest line, and options out of their range. *)
Widest ==
  [counter |-> TRUE, time_format |-> "djd", time_usec |-> TRUE, time_stamp |-> "absolute",
   channel |-> TRUE, id |-> "oct", id_xtd |-> TRUE, dlc |-> "oct", dlc_brackets |-> "[",
   data |-> "dec", ascii |-> TRUE, wraparound |-> 8, end_of_line |-> TRUE,
   rx_prompt |-> 6]

Single(option_, values) == { option_ :> value : value \in values }

MCConfigurations ==
  {Widest} \cup Single("time_stamp", {"zero", "absolute", "relative"})
  \cup Single("time_format", {"hhmmss", "sec", "other"})
  \cup Single("dlc", {"oct", "hex"}) \cup Single("dlc_format", {"dlc"})
  \cup Single("data", {"dec", "oct", "hex"}) \cup Single("ascii", BOOLEAN)
  \cup Single("wraparound", {0, 4, 8, 10, 16, 32, 64})
  \cup Single("separator", {"tabs"})
  \cup Single("tx_prompt", {3, 7})

MCMessages ==
  { [id |-> IF dlc = 8 THEN 536870911 ELSE 1, xtd |-> (dlc = 8), fdf |-> fdf, rtr |-> (dlc = 1),
     dlc |-> dlc] : fdf \in BOOLEAN, dlc \in {0, 1, 3, 8} }
  \cup { [id |-> 2047, xtd |-> FALSE, fdf |-> TRUE, rtr |-> FALSE, dlc |-> dlc] : dlc \in {9, 15} }

MCStamps == { [sec |-> sec, part |-> part] : sec \in {0, 1000000000}, part \in 0..1 }

Init ==
  /\ machine \in {"btr", "parse", "format"}
  /\ BtrInit /\ ParseInit /\ FormatInit

Next ==
  \/ machine = "btr" /\ BtrNext /\ UNCHANGED <<machine, parseVars, formatVars>>
  \/ machine = "parse" /\ ParseNext /\ UNCHANGED <<machine, btrVars, formatVars>>
  \/ machine = "format" /\ FormatNext /\ UNCHANGED <<machine, btrVars, parseVars>>

Spec == Init /\ [][Next]_vars
=============================================================================
