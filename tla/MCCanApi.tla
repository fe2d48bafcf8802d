------------------------------- MODULE MCCanApi -------------------------------
(* Instances of CanApi for TLC. *)
EXTENDS CanApiClaims, TLC

CONSTANTS b1, b2

AllFaults ==
  {"condition", "version", "features", "receive_status", "listen_only",
   "initialize", "uninitialize", "reset", "receive_event", "filter",
   "write", "read", "status"}

LifeFaults   == AllFaults \ {"uninitialize"}

Symmetric == Permutations({b1, b2})

OneBoard    == {b1}
TwoBoards   == {b1, b2}
None        == {}

(* Lifecycle: two handles, two channels, every way a call can fail but for a
   CAN_Uninitialize that fails on a channel that is up. *)
LifeModes    == {{}, {"MON"}}
LifeBitrates == {"index"}
NoParam      == {"none"}

(* One handle and two channels, so that the table runs full: every argument the
   calls refuse; frames of every kind, every suppression and every loss. *)
ChannelModes    == {{"NISO"}, {"NXTD", "NRTR"}, {"FDOE", "BRSE"}}
ChannelParams   == {"none", "isa"}
ChannelBitrates == BitrateKind
SentFrames      == {{}, {"xtd"}, {"fdf", "brs"}, {"dlc9"}, {"badid"}}
ReceivedFrames  == {{}, {"xtd"}, {"rtr"}, {"status", "busoff"}, {"errframe", "lec"}}
Statuses        == {{}, {"BUSOFF", "XMTFULL"}, {"OVERRUN", "QOVERRUN"}}

(* ret is written by every call and read by none: states that differ only in it
   are one state. The action properties that mention ret' are still evaluated on
   every step. *)
View == <<init, can, pcan, call>>
===============================================================================
