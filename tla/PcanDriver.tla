------------------------------ MODULE PcanDriver ------------------------------
(***************************************************************************)
(* The PCANBasic driver library (libPCBUSB) as the wrapper in              *)
(* src/Sources/Wrapper/can_api.c uses it.  The library itself is a binary  *)
(* outside the repository: these operators say what the wrapper relies on. *)
(*                                                                         *)
(* A driver channel is a record                                            *)
(*   up      - CAN_Initialize[FD] succeeded and CAN_Uninitialize has not   *)
(*   recv    - PCAN_RECEIVE_STATUS: received frames enter the queue        *)
(*   listen  - PCAN_LISTEN_ONLY: nothing is sent, not even an acknowledge  *)
(*   filter  - the acceptance filter in force                              *)
(*                                                                         *)
(* A driver status is the set of the PCAN_ERROR_* bits that are set in it; *)
(* {} is PCAN_ERROR_OK.                                                    *)
(***************************************************************************)

(* A filter value is the set of its bits: one code bit, one mask bit of    *)
(* the 11-bit identifier, one mask bit beyond it, one bit beyond both.     *)
FilterBit == {"code", "mask11", "mask29", "beyond"}

Filter == [mode : {"OFF", "STD", "XTD"}, mask : SUBSET FilterBit]

(* PCAN_MESSAGE_FILTER = PCAN_FILTER_OPEN: every frame is accepted.        *)
OpenFilter == [mode |-> "OFF", mask |-> {}]

DriverChannel ==
  [up : BOOLEAN, recv : BOOLEAN, listen : BOOLEAN, filter : Filter]

(* A channel nobody initialised; CAN_Uninitialize returns to it.           *)
Down == [up |-> FALSE, recv |-> TRUE, listen |-> FALSE, filter |-> OpenFilter]

(* CAN_Initialize[FD] honours a receive status and a listen-only value set *)
(* before it; otherwise the receiver is on.  It sets no filter.            *)
CAN_Initialize(ch) == [ch EXCEPT !.up = TRUE, !.filter = OpenFilter]

(* A call that needs an initialised channel and finds none; a call that    *)
(* fails for a reason of the device; the bits of 0xFF00 among those used.  *)
NotUp    == {"INITIALIZE"}
Spurious == {"ILLHW"}
HighBits == {"ILLHW"}

(* A received frame is the set of its attributes; {} is a standard data    *)
(* frame and also what a zeroed buffer decodes to.                         *)
FrameBit == {"xtd", "rtr", "status", "busoff", "warning", "errframe", "lec"}

(* The outcomes of CAN_Read[FD]: a frame, possibly with notice that others *)
(* were lost; an empty queue, possibly with a bus-error bit; an error.     *)
(* The caller's buffer is written only with a frame ('got').               *)
CAN_Read(ch, frames, faulty) ==
  LET NoFrame(statuses) == [sts : statuses, got : {FALSE}, frame : {{}}]
  IN  IF ~ch.up THEN NoFrame({NotUp})
      ELSE [sts : SUBSET {"OVERRUN", "QOVERRUN"}, got : {TRUE}, frame : frames]
             \cup NoFrame({{"QRCVEMPTY"}, {"QRCVEMPTY", "BUSHEAVY"}})
             \cup NoFrame(IF faulty THEN {Spurious, Spurious \cup {"QRCVEMPTY"}} ELSE {})
===============================================================================
