------------------------------ MODULE MsgParse ------------------------------
(***************************************************************************)
(* msg_parse of src/Sources/CANAPI/can_msg.c: a line of can_send, in the   *)
(* format of the SocketCAN utility cansend, is read from left to right     *)
(* into a message, a repetition and an increment of the data.              *)
(*                                                                         *)
(* An identifier is its number of digits and the bits its value needs, the *)
(* data is its number of bytes.                                            *)
(***************************************************************************)
EXTENDS Integers

CONSTANTS
  Counts,     \* repetitions that are tried; 0 and MaxCount + 1 are refused
  MaxCount,   \* stands for UINT32_MAX
  Cycles      \* cycle times that are tried

ASSUME ParseAssumption ==
  MaxCount \in Nat \ {0} /\ Counts \subseteq 0 .. MaxCount + 1 /\ Cycles \subseteq Nat

VARIABLES
  at,    \* what is read next, "accepted" or "refused"
  msg,   \* the message
  len,   \* the bytes of data so far
  times  \* cnt, cyc (in microseconds) and inc

parseVars == <<at, msg, len, times>>

ParseInit ==
  /\ at = "id"
  /\ msg = [bits |-> 0, xtd |-> FALSE, fdf |-> FALSE, brs |-> FALSE, esi |-> FALSE,
            rtr |-> FALSE, dlc |-> 0]
  /\ len = 0
  /\ times = [cnt |-> 1, cyc |-> 0, inc |-> 0]

Refuse == at' = "refused" /\ UNCHANGED <<msg, len, times>>

ParseId(digits, bits) ==
  /\ at = "id"
  /\ LET fits == digits \in {3, 8} /\ bits <= (IF digits = 8 THEN 29 ELSE 11)
     IN  /\ msg' = [msg EXCEPT !.xtd = (digits = 8), !.bits = IF fits THEN bits ELSE 0]
         /\ at' = IF fits THEN "type" ELSE "refused"
  /\ UNCHANGED <<len, times>>

(* '#' before data or 'R', '##' before the flags of CAN FD. *)
ParseType(type) ==
  /\ at = "type"
  /\ CASE type = "#"  -> at' = "payload" /\ UNCHANGED <<msg, len, times>>
       [] type = "##" -> at' = "flags" /\ UNCHANGED <<msg, len, times>>
       [] OTHER       -> Refuse

(* Mutant: all flags are taken, whether or not FDF is among them. *)
LegalFlags_any(flags) == flags \in 0..7

(* FDF must be set, and nothing beside BRS and ESI. *)
LegalFlags(flags) == flags \in 4..7

ParseFlags(flags) ==
  /\ at = "flags"
  /\ IF LegalFlags(flags)
     THEN /\ msg' = [msg EXCEPT !.fdf = flags >= 4, !.brs = flags % 2 = 1,
                                !.esi = (flags \div 2) % 2 = 1]
          /\ at' = "payload"
          /\ UNCHANGED <<len, times>>
     ELSE Refuse

(* 'R' with an optional length of one digit. *)
ParseRemote(digits) ==
  /\ at = "payload" /\ len = 0
  /\ msg' = [msg EXCEPT !.rtr = TRUE,
                        !.dlc = IF digits = {} THEN 0 ELSE CHOOSE d \in digits : TRUE]
  /\ at' = IF \A d \in digits : d <= 8 THEN "extra" ELSE "refused"
  /\ UNCHANGED <<len, times>>

MaxLength == IF msg.fdf THEN 64 ELSE 8

(* Two hexadecimal digits, and a dot perhaps. *)
ParseByte ==
  /\ at = "payload"
  /\ IF len < MaxLength
     THEN len' = len + 1 /\ UNCHANGED <<at, msg, times>>
     ELSE Refuse

(* Half a byte, or a second dot. *)
ParseOdd == at \in {"payload", "id", "flags"} /\ Refuse

LEN2DLC(n) ==
  CASE n > 48 -> 15 [] n \in 33..48 -> 14 [] n \in 25..32 -> 13 [] n \in 21..24 -> 12
    [] n \in 17..20 -> 11 [] n \in 13..16 -> 10 [] n \in 9..12 -> 9 [] OTHER -> n

ParseData ==
  /\ at = "payload"
  /\ msg' = [msg EXCEPT !.dlc = LEN2DLC(len)]
  /\ at' = "extra"
  /\ UNCHANGED <<len, times>>

(* '_' and a DLC of 9 to F, which is not used. *)
ParseExtra(dlc) ==
  /\ at = "extra" /\ ~msg.fdf
  /\ IF dlc > 8 THEN at' = "repeat" /\ UNCHANGED <<msg, len, times>> ELSE Refuse

ParseCount(count) ==
  /\ at \in {"extra", "repeat"}
  /\ IF count \in 1..MaxCount
     THEN /\ times' = [times EXCEPT !.cnt = count]
          /\ at' = "cycle"
          /\ UNCHANGED <<msg, len>>
     ELSE Refuse

Microseconds(unit, value) == IF unit = "C" THEN value * 1000 ELSE value

CycleLimit(unit) == IF unit = "C" THEN 60000 ELSE 60000000

ParseCycle(unit, value) ==
  /\ at = "cycle"
  /\ IF value <= CycleLimit(unit)
     THEN /\ times' = [times EXCEPT !.cyc = Microseconds(unit, value)]
          /\ at' = "step"
          /\ UNCHANGED <<msg, len>>
     ELSE Refuse

(* '++' or '--'. *)
ParseStep(step) ==
  /\ at \in {"cycle", "step"}
  /\ times' = [times EXCEPT !.inc = step]
  /\ at' = "end"
  /\ UNCHANGED <<msg, len>>

ParseEnd ==
  /\ at \in {"extra", "repeat", "cycle", "step", "end"}
  /\ at' = "accepted"
  /\ UNCHANGED <<msg, len, times>>

(* Anything else there. *)
ParseRest == at \in {"extra", "repeat", "cycle", "step", "end"} /\ Refuse

ParseNext ==
  \/ \E digits \in {2, 3, 8, 9}, bits \in {11, 12, 29, 30} : ParseId(digits, bits)
  \/ \E type \in {"#", "##", "other"} : ParseType(type)
  \/ \E flags \in 0..15 : ParseFlags(flags)
  \/ \E digits \in {{}} \cup {{d} : d \in 0..9} : ParseRemote(digits)
  \/ ParseByte
  \/ ParseOdd
  \/ ParseData
  \/ \E dlc \in 0..15 : ParseExtra(dlc)
  \/ \E count \in Counts : ParseCount(count)
  \/ \E unit \in {"C", "U"}, value \in Cycles : ParseCycle(unit, value)
  \/ \E step \in {-1, 1} : ParseStep(step)
  \/ ParseEnd
  \/ ParseRest

ParseSpec == ParseInit /\ [][ParseNext]_parseVars
-------------------------------------------------------------------------------
(* The parts that are read in order, and what they may hold meanwhile: a   *)
(* refused line leaves what was read before the error behind.              *)
ParseTypeOK ==
  /\ at \in {"id", "type", "flags", "payload", "extra", "repeat", "cycle", "step", "end",
             "accepted", "refused"}
  /\ msg \in [bits : 0..29, xtd : BOOLEAN, fdf : BOOLEAN, brs : BOOLEAN, esi : BOOLEAN,
              rtr : BOOLEAN, dlc : 0..15]
  /\ len \in 0..64
  /\ times \in [cnt : 1..MaxCount, cyc : 0..CycleLimit("U"), inc : -1..1]

(* The length of an accepted data frame is the shortest one that holds all *)
(* the bytes of the line: none is cut off, and no longer frame is sent.    *)
DataFits ==
  LET bytes(dlc) == IF dlc <= 8 THEN dlc ELSE <<12, 16, 20, 24, 32, 48, 64>>[dlc - 8]
  IN  at = "accepted" /\ ~msg.rtr =>
        /\ len <= bytes(msg.dlc)
        /\ \A dlc \in 0 .. msg.dlc - 1 : bytes(dlc) < len

(* can_write refuses no message that was accepted for its form: the        *)
(* identifier is within the range of its format, the length is one of CAN  *)
(* CC unless the frame is one of CAN FD, and only such a frame switches    *)
(* the bit rate or tells the error state (can_api.c, lines 689 ff); and it *)
(* holds the data of the line.  Neither of them refuses an RTR frame of    *)
(* CAN FD.                                                                 *)
ParsedWritable ==
  /\ ParseTypeOK /\ DataFits
  /\ at = "accepted" => /\ msg.bits <= (IF msg.xtd THEN 29 ELSE 11)
                        /\ msg.brs \/ msg.esi => msg.fdf
                        /\ msg.dlc > 8 => msg.fdf
===============================================================================
