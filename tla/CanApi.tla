-------------------------------- MODULE CanApi --------------------------------
(***************************************************************************)
(* The CAN API V3 wrapper of src/Sources/Wrapper/can_api.c: the table of   *)
(* interface handles, the library initialization flag and the calls that   *)
(* change them, over the driver channels of PcanDriver.  The macOS build   *)
(* is modelled (ISSUE_303_WORKAROUND defined, OPTION_CANAPI_RETVALS        *)
(* disabled).                                                              *)
(*                                                                         *)
(* One client calls the library: a call is one step, except can_read,      *)
(* whose loop takes one step per CAN_Read.  A call that makes several      *)
(* driver calls may fail at any of them; every prefix of its effects is an *)
(* outcome.  ret records what the last call returned.                      *)
(***************************************************************************)
EXTENDS PcanDriver, Integers, FiniteSets

CONSTANTS
  MaxHandles,   \* CAN_MAX_HANDLES
  Boards,       \* the hardware channels
  NONEBUS,      \* PCAN_NONEBUS, the board of an unused handle
  BADCHANNEL,   \* a channel number outside 0..0xFFFF
  FdBoards,     \* the channels with FEATURE_FD_CAPABLE
  Modes,        \* the operation modes clients ask for
  Params,       \* the board parameters clients give to can_init
  Bitrates,     \* the bit-rate arguments of can_start
  FilterArgs,   \* the values clients set as acceptance filter
  TxFrames,     \* the messages clients write
  BusStatuses,  \* what CAN_GetStatus reports of a running channel
  RxFrames,     \* the frames the driver receives
  Faults,       \* the driver calls that may fail without a cause in the model
  MaxCount      \* bound of the frame counters

Flag == {"FDOE", "BRSE", "NISO", "SHRD", "NXTD", "NRTR", "ERR", "MON"}

StatusBit == {"can_stopped", "bus_off", "warning_level", "bus_error",
              "transmitter_busy", "receiver_empty", "message_lost", "queue_overrun"}

(* Bit-rate arguments: one of the nine indexes of can_start, another index,*)
(* 8 MHz register values of SJA1000, register values of CAN FD, register   *)
(* values the converters refuse, and the null pointer.                     *)
BitrateKind == {"index", "badindex", "btr20", "btrfd", "badbtr", "null"}

(* Attributes of a message to send: besides the flags of can_message_t, a  *)
(* data length code above 8 or above 15 and an identifier out of range.    *)
TxBit == {"xtd", "rtr", "fdf", "brs", "sts", "dlc9", "dlc16", "badid"}

ASSUME CanApiAssumption ==
  /\ MaxHandles \in Nat \ {0}
  /\ MaxCount \in Nat \ {0}
  /\ NONEBUS \notin Boards /\ BADCHANNEL \notin Boards \cup {NONEBUS}
  /\ FdBoards \subseteq Boards
  /\ Modes \subseteq SUBSET Flag
  /\ Bitrates \subseteq BitrateKind
  /\ FilterArgs \subseteq SUBSET FilterBit
  /\ TxFrames \subseteq SUBSET TxBit
  /\ BusStatuses \subseteq SUBSET {"BUSOFF", "BUSHEAVY", "XMTFULL", "OVERRUN", "QOVERRUN"}
  /\ RxFrames \subseteq SUBSET FrameBit

Handle == 0 .. MaxHandles - 1

CANEXIT_ALL == -1

(* What clients pass as a handle: valid ones, -1, and one beyond the table.*)
HandleArg == {CANEXIT_ALL} \cup 0 .. MaxHandles

VARIABLES
  init,   \* the initialization flag
  can,    \* the interface handles
  pcan,   \* the driver channels
  call,   \* the can_read in progress, if any
  ret     \* the last call that returned

vars == <<init, can, pcan, call, ret>>

NoCall == [h |-> -1, buf |-> {}]

NoRet == [op |-> "none", h |-> -1, rc |-> "NOERROR", real |-> TRUE]

(* var_init, for one handle *)
Blank ==
  [board |-> NONEBUS, brd |-> "none", mode |-> {}, fdes |-> NONEBUS,
   filter |-> OpenFilter, status |-> {"can_stopped"}, lec |-> FALSE,
   tx |-> 0, rx |-> 0, err |-> 0]

var_init == [h \in Handle |-> Blank]

Init ==
  /\ init = FALSE
  /\ can = var_init
  /\ pcan = [b \in Boards |-> Down]
  /\ call = NoCall
  /\ ret = NoRet

(* IS_HANDLE_VALID and IS_HANDLE_OPENED *)
Opened(h) == h \in Handle /\ can[h].board # NONEBUS

Stopped(h) == "can_stopped" \in can[h].status

all_closed(tbl) == \A h \in Handle : tbl[h].board = NONEBUS

(* 'Channel already in use', which the channel number of an unused handle  *)
(* is as long as there is one.                                             *)
InUse(tbl, b) == \E h \in Handle : tbl[h].board = b

(* Mutant: the variables are initialized by every can_init and can_test. *)
Table_fresh == var_init

(* The table as a call finds it that initializes the library if needed.    *)
Table == IF init THEN can ELSE var_init

Return(op, h, rc) == ret' = [op |-> op, h |-> h, rc |-> rc, real |-> TRUE]

(* An early return: the call changes nothing. *)
Reject(op, h, rc) == Return(op, h, rc) /\ UNCHANGED <<init, can, pcan, call>>

RefuseHandle(op, h) ==
  \/ ~init /\ Reject(op, h, "NOTINIT")
  \/ init /\ ~Opened(h) /\ Reject(op, h, "HANDLE")

(* The status bits in the order in which pcan_error tests them, and the    *)
(* CANERR_* code (or PCAN_ERR_* code) it returns for the first one set.    *)
ErrorOrder ==
  <<"XMTFULL", "OVERRUN", "BUSOFF", "BUSHEAVY", "QRCVEMPTY", "QOVERRUN",
    "QXMTFULL", "ILLHW", "ILLCLIENT", "INITIALIZE">>

ErrorCode ==
  <<"TX_BUSY", "MSG_LST", "BOFF", "BERR", "RX_EMPTY", "QUE_OVR",
    "TX_BUSY", "ILLHW", "ILLCLIENT", "NOTINIT">>

pcan_error(sts) ==
  LET first(i) == ErrorOrder[i] \in sts /\ \A j \in 1 .. i - 1 : ErrorOrder[j] \notin sts
  IN  IF \E i \in DOMAIN ErrorOrder : first(i)
        THEN ErrorCode[CHOOSE i \in DOMAIN ErrorOrder : first(i)]
        ELSE "UNKNOWN"

(* The errors a driver call may report: on a channel that is not up only   *)
(* that, otherwise a spurious one if the call is among Faults.             *)
Errors(name, up) ==
  IF ~up THEN {NotUp} ELSE IF name \in Faults THEN {Spurious} ELSE {}

pcan_capability(b) ==
  {"NXTD", "NRTR", "MON"} \cup IF b \in FdBoards THEN {"FDOE", "BRSE"} ELSE {}

Supported(mode, b) ==
  /\ mode \subseteq pcan_capability(b)
  /\ mode \cap {"BRSE", "NISO"} # {} => "FDOE" \in mode
-------------------------------------------------------------------------------
(* can_test: an idle library is initialized for the duration of the test,  *)
(* and left initialized when the test ends in an error.                    *)
can_test(b, mode) ==
  LET used    == InUse(Table, b)
      Result(ini, rc) ==
        /\ init' = ini /\ can' = Table /\ UNCHANGED <<pcan, call>>
        /\ Return("can_test", -1, rc)
      Tested  == Result(~all_closed(Table), "NOERROR")
  IN  \/ b = BADCHANNEL /\ Reject("can_test", -1, pcan_error({"ILLCLIENT"}))
      \/ /\ b # BADCHANNEL
         /\ "condition" \in Faults \/ b = NONEBUS
         /\ Result(TRUE, pcan_error(Spurious))
      \/ /\ b \in Boards
         /\ \/ ~used /\ Tested                 \* absent, or used by another program
            \/ "features" \in Faults /\ Result(TRUE, pcan_error(Spurious))
            \/ ~Supported(mode, b) /\ Result(TRUE, "ILLPARA")
            \/ Supported(mode, b) /\ Tested

(* can_init: the slot taken is the first unused one.  Its filter, error    *)
(* code and counters, and its board parameters when none are given, stay   *)
(* as the slot's previous owner left them.                                 *)
FirstFree(tbl) ==
  CHOOSE h \in Handle : tbl[h].board = NONEBUS /\ \A k \in 0 .. h - 1 : tbl[k].board # NONEBUS

(* Mutant: the new status is all clear. *)
Take_running(slot, b, mode, param) ==
  [slot EXCEPT !.board = b, !.mode = mode, !.status = {}]

Take(slot, b, mode, param) ==
  [slot EXCEPT !.board = b, !.mode = mode, !.status = {"can_stopped"},
               !.brd = IF param = "none" THEN @ ELSE param]

(* The receiver off, then the transmitter off. *)
Deaf(ch) == [ch EXCEPT !.recv = FALSE]

(* Mutant: the transmitter is left on. *)
Mute_half(ch) == Deaf(ch)

Mute(ch) == [Deaf(ch) EXCEPT !.listen = TRUE]

can_init(b, mode, param) ==
  LET used  == InUse(Table, b)
      free  == InUse(Table, NONEBUS)
      h     == FirstFree(Table)
      Fail(rc) ==
        init' = TRUE /\ can' = Table /\ UNCHANGED call /\ Return("can_init", -1, rc)
      Driver(ch) == pcan' = [pcan EXCEPT ![b] = ch]
  IN  \/ b = BADCHANNEL /\ Reject("can_init", -1, pcan_error({"ILLCLIENT"}))
      \/ b # BADCHANNEL /\ used /\ Fail("YETINIT") /\ UNCHANGED pcan
      \/ b # BADCHANNEL /\ ~used /\ ~free /\ Fail("NOTINIT") /\ UNCHANGED pcan
      \/ /\ b \in Boards /\ ~used /\ free
         /\ \/ /\ UNCHANGED pcan
               /\ \/ "version" \in Faults /\ Fail("LIBRARY")
                  \/ "features" \in Faults /\ Fail(pcan_error(Spurious))
                  \/ ~Supported(mode, b) /\ Fail("ILLPARA")
                  \/ Supported(mode, b) /\ "receive_status" \in Faults
                       /\ Fail(pcan_error(Spurious))
            \/ /\ Supported(mode, b)
               /\ \/ "listen_only" \in Faults /\ Driver(Deaf(pcan[b])) /\ Fail(pcan_error(Spurious))
                  \/ "initialize" \in Faults /\ Driver(Mute(pcan[b])) /\ Fail(pcan_error(Spurious))
                  \/ /\ Driver(CAN_Initialize(Mute(pcan[b])))
                     /\ init' = TRUE /\ UNCHANGED call
                     /\ can' = [Table EXCEPT ![h] = Take(@, b, mode, param)]
                     /\ Return("can_init", h, "NOERROR")

(* exit_channel, for one open handle: the table and the driver after it.   *)
CloseSlot(slot) ==
  [slot EXCEPT !.board = NONEBUS, !.status = @ \cup {"can_stopped"}]

(* Mutant: the channels are not uninitialized. *)
CloseAll_kept(hs) ==
  /\ can' = [h \in Handle |-> IF h \in hs THEN CloseSlot(can[h]) ELSE can[h]]
  /\ UNCHANGED pcan

CloseAll(hs) ==
  /\ can' = [h \in Handle |-> IF h \in hs THEN CloseSlot(can[h]) ELSE can[h]]
  /\ pcan' = [b \in Boards |-> IF \E h \in hs : can[h].board = b THEN Down ELSE pcan[b]]

(* can_exit: CAN_Uninitialize decides whether a handle closes.  Closing    *)
(* all handles skips those it refuses.  A library without open handles is  *)
(* no longer initialized.                                                  *)
can_exit(h) ==
  LET Close(hs) ==
        /\ CloseAll(hs)
        /\ init' = ~all_closed(can')
        /\ UNCHANGED call
        /\ Return("can_exit", h, "NOERROR")
      closable == {k \in Handle : Opened(k) /\ pcan[can[k].board].up}
  IN  \/ h # CANEXIT_ALL /\ RefuseHandle("can_exit", h)
      \/ h = CANEXIT_ALL /\ ~init /\ Reject("can_exit", h, "NOTINIT")
      \/ /\ init /\ Opened(h)
         /\ \/ \E sts \in Errors("uninitialize", pcan[can[h].board].up) :
                  Reject("can_exit", h, pcan_error(sts))
            \/ h \in closable /\ Close({h})
      \/ /\ init /\ h = CANEXIT_ALL
         /\ \E failed \in IF "uninitialize" \in Faults THEN SUBSET closable ELSE {{}} :
              Close(closable \ failed)

(* can_kill: on POSIX systems kill_channel only checks the handle.         *)
can_kill(h) ==
  \/ h # CANEXIT_ALL /\ RefuseHandle("can_kill", h)
  \/ h = CANEXIT_ALL /\ Reject("can_kill", h, IF init THEN "NOERROR" ELSE "NOTINIT")
  \/ init /\ Opened(h) /\ Reject("can_kill", h, "NOERROR")

(* The bit-rate arguments can_start converts for the driver. *)
Accepts(mode, br) ==
  IF "FDOE" \in mode THEN br = "btrfd" ELSE br \in {"index", "btr20"}

(* Mutant: the mask is dropped unless it belongs to the 11-bit filter. *)
StartFilter_std(f) == IF f.mode # "STD" THEN OpenFilter ELSE f

(* The filter can_start installs: the mask counts only in a filter mode.   *)
StartFilter(f) == IF f.mode = "OFF" THEN OpenFilter ELSE f

(* Mutant: the file descriptor of the last start is kept. *)
StartSlot_stale(slot) ==
  [slot EXCEPT !.status = {}, !.lec = FALSE, !.tx = 0, !.rx = 0, !.err = 0]

StartSlot(slot) ==
  [slot EXCEPT !.fdes = slot.board, !.status = {}, !.lec = FALSE,
               !.tx = 0, !.rx = 0, !.err = 0]

(* can_start: the channel is uninitialized and initialized again.  A       *)
(* failure after CAN_Uninitialize leaves the handle open and stopped on a  *)
(* channel that is down; the clean-up after a late failure ignores the     *)
(* result of its own CAN_Uninitialize.                                     *)
can_start(h, br) ==
  LET slot  == can[h]
      b     == slot.board
      ch    == pcan[b]
      quiet == [Down EXCEPT !.listen = "MON" \in slot.mode]
      on    == CAN_Initialize(quiet)
      after == {Down} \cup IF "uninitialize" \in Faults THEN {on} ELSE {}
      Abort(failing, chs) ==
        \E sts \in Errors(failing, ch.up), new \in chs :
          /\ pcan' = [pcan EXCEPT ![b] = new]
          /\ UNCHANGED <<init, call>>
          /\ Return("can_start", h, pcan_error(sts))
  IN  \/ RefuseHandle("can_start", h)
      \/ init /\ Opened(h) /\ br = "null" /\ Reject("can_start", h, "NULLPTR")
      \/ /\ init /\ Opened(h) /\ br # "null"
         /\ \/ ~Stopped(h) /\ Reject("can_start", h, "ONLINE")
            \/ Stopped(h) /\ ~Accepts(slot.mode, br) /\ Reject("can_start", h, "BAUDRATE")
            \/ /\ Stopped(h) /\ Accepts(slot.mode, br)
               /\ \/ UNCHANGED can /\ Abort("reset", {ch})
                  \/ /\ ch.up /\ UNCHANGED can
                     /\ \/ Abort("uninitialize", {ch})
                        \/ Abort("listen_only", {Down})
                        \/ Abort("initialize", {quiet})
                        \/ Abort("receive_event", after)
                  \/ /\ ch.up /\ can' = [can EXCEPT ![h].fdes = b]
                     /\ Abort("filter", after)
                  \/ /\ ch.up
                     /\ can' = [can EXCEPT ![h] = StartSlot(@)]
                     /\ pcan' = [pcan EXCEPT ![b] = [on EXCEPT !.filter = StartFilter(slot.filter)]]
                     /\ UNCHANGED <<init, call>>
                     /\ Return("can_start", h, "NOERROR")

(* can_reset: the receiver first, then the transmitter.  When the second   *)
(* fails the handle counts as running with its receiver off.               *)
can_reset(h) ==
  LET b == can[h].board
      Driver(ch, rc) ==
        /\ pcan' = [pcan EXCEPT ![b] = ch] /\ UNCHANGED <<init, call>>
        /\ Return("can_reset", h, rc)
  IN  \/ RefuseHandle("can_reset", h)
      \/ init /\ Opened(h) /\ Stopped(h) /\ Reject("can_reset", h, "OFFLINE")
      \/ /\ init /\ Opened(h) /\ ~Stopped(h)
         /\ \/ "receive_status" \in Faults /\ Reject("can_reset", h, pcan_error(Spurious))
            \/ "listen_only" \in Faults /\ UNCHANGED can /\ Driver(Deaf(pcan[b]), pcan_error(Spurious))
            \/ /\ can' = [can EXCEPT ![h].status = @ \cup {"can_stopped"}]
               /\ Driver(Mute(pcan[b]), "NOERROR")

(* The checks of can_write, with the length limits of CAN 2.0 and CAN FD.  *)
TxLegal(mode, msg) ==
  /\ msg \cap {"badid", "sts", "dlc16"} = {}
  /\ "xtd" \in msg => "NXTD" \notin mode
  /\ "rtr" \in msg => "NRTR" \notin mode
  /\ msg \cap {"fdf", "dlc9"} # {} => "FDOE" \in mode
  /\ "brs" \in msg => "BRSE" \in mode /\ "fdf" \in msg

can_write(h, msg) ==
  LET slot == can[h]
      Store(new, rc) ==
        /\ can' = [can EXCEPT ![h] = new] /\ UNCHANGED <<init, pcan, call>>
        /\ Return("can_write", h, rc)
  IN  \/ RefuseHandle("can_write", h)
      \/ init /\ Opened(h) /\ Stopped(h) /\ Reject("can_write", h, "OFFLINE")
      \/ /\ init /\ Opened(h) /\ ~Stopped(h)
         /\ \/ ~TxLegal(slot.mode, msg) /\ Reject("can_write", h, "ILLPARA")
            \/ /\ TxLegal(slot.mode, msg)
               /\ \/ \E sts \in Errors("write", pcan[slot.board].up) :
                        Reject("can_write", h, pcan_error(sts))
                  \/ Store([slot EXCEPT !.status = @ \cup {"transmitter_busy"}], "TX_BUSY")
                  \/ /\ pcan[slot.board].up /\ slot.tx < MaxCount
                     /\ Store([slot EXCEPT !.status = @ \ {"transmitter_busy"}, !.tx = @ + 1],
                              "NOERROR")

(* Extended and remote frames the operation mode suppresses, and status    *)
(* and error frames unless it asks for them, are never handed over.        *)
Suppressed(mode, f) ==
  ("xtd" \in f /\ "NXTD" \in mode) \/ ("rtr" \in f /\ "NRTR" \in mode)

Info(f) == f \cap {"status", "errframe"} # {}

Refused(mode, f) == Suppressed(mode, f) \/ (Info(f) /\ "ERR" \notin mode)

Bits(bit, cond) == IF cond THEN {bit} ELSE {}

(* Mutant: status and error frames are counted before they are refused. *)
Note_counts(slot, f) == [slot EXCEPT !.err = IF Info(f) THEN @ + 1 ELSE @]

(* What a frame that is not suppressed tells about the controller.         *)
Note(slot, f) ==
  IF Suppressed(slot.mode, f) THEN slot
  ELSE IF "status" \in f THEN
    [slot EXCEPT !.status = (@ \ {"bus_off", "warning_level"})
                              \cup Bits("bus_off", "busoff" \in f)
                              \cup Bits("warning_level", "warning" \in f)]
  ELSE IF "errframe" \in f THEN
    [slot EXCEPT !.lec = "lec" \in f,
                 !.status = (@ \ {"bus_error"}) \cup Bits("bus_error", "lec" \in f)]
  ELSE slot

Counted(slot, f) ==
  [slot EXCEPT !.status = @ \ {"receiver_empty"},
               !.rx = IF Info(f) THEN @ ELSE @ + 1,
               !.err = IF Info(f) THEN @ + 1 ELSE @]

(* Mutant: the handle need not be running. *)
can_read_any(h) ==
  \/ RefuseHandle("can_read", h)
  \/ /\ init /\ Opened(h)
     /\ call' = [h |-> h, buf |-> {}]
     /\ ret' = NoRet
     /\ UNCHANGED <<init, can, pcan>>

can_read(h) ==
  \/ RefuseHandle("can_read", h)
  \/ init /\ Opened(h) /\ Stopped(h) /\ Reject("can_read", h, "OFFLINE")
  \/ /\ init /\ Opened(h) /\ ~Stopped(h)
     /\ call' = [h |-> h, buf |-> {}]
     /\ ret' = NoRet
     /\ UNCHANGED <<init, can, pcan>>

(* One pass of the loop in can_read.  A refused frame leads to another     *)
(* pass; an error that does not say 'queue empty' is not noticed, and the  *)
(* buffer, as the call zeroed it or as a refused frame left it, is taken   *)
(* for a received frame.  An empty queue ends the call: the waiting before *)
(* that has no effect of its own.                                          *)
ReadPass(r) ==
  LET h    == call.h
      slot == can[h]
      f    == IF r.got THEN r.frame ELSE call.buf
      seen == [slot EXCEPT !.status = @ \cup Bits("message_lost", "OVERRUN" \in r.sts)
                                        \cup Bits("queue_overrun", "QOVERRUN" \in r.sts)]
      empty == "QRCVEMPTY" \in r.sts
  IN  /\ UNCHANGED <<init, pcan>>
      /\ \/ /\ empty
            /\ can' = [can EXCEPT ![h] = [seen EXCEPT !.status = @ \cup {"receiver_empty"}]]
            /\ call' = NoCall
            /\ Return("can_read", h, IF r.sts \cap HighBits # {} THEN pcan_error(r.sts) ELSE "RX_EMPTY")
         \/ /\ ~empty /\ Refused(slot.mode, f)
            /\ can' = [can EXCEPT ![h] = Note(seen, f)]
            /\ call' = [call EXCEPT !.buf = f]
            /\ UNCHANGED ret
         \/ /\ ~empty /\ ~Refused(slot.mode, f) /\ slot.rx < MaxCount /\ slot.err < MaxCount
            /\ can' = [can EXCEPT ![h] = Counted(Note(seen, f), f)]
            /\ call' = NoCall
            /\ ret' = [op |-> "can_read", h |-> h, rc |-> "NOERROR", real |-> r.got]

Reading ==
  /\ call # NoCall
  /\ \E r \in CAN_Read(pcan[can[call.h].board], RxFrames, "read" \in Faults) : ReadPass(r)

(* Mutant: the status register is assigned, not accumulated. *)
Refresh_all(slot, sts) ==
  [slot EXCEPT !.status = Bits("bus_off", "BUSOFF" \in sts)
     \cup Bits("bus_error", slot.lec)
     \cup Bits("warning_level", "BUSHEAVY" \in sts)
     \cup Bits("transmitter_busy", "XMTFULL" \in sts)
     \cup Bits("message_lost", "OVERRUN" \in sts)
     \cup Bits("queue_overrun", "QOVERRUN" \in sts)]

(* The status register after CAN_GetStatus: the bus state is replaced, the *)
(* transmit and loss bits are latched.                                     *)
Refresh(slot, sts) ==
  [slot EXCEPT !.status = (@ \ {"bus_off", "bus_error", "warning_level"})
     \cup Bits("bus_off", "BUSOFF" \in sts)
     \cup Bits("bus_error", slot.lec)
     \cup Bits("warning_level", "BUSHEAVY" \in sts)
     \cup Bits("transmitter_busy", "XMTFULL" \in sts)
     \cup Bits("message_lost", "OVERRUN" \in sts)
     \cup Bits("queue_overrun", "QOVERRUN" \in sts)]

(* can_status, and can_busload which adds only an error when stopped.      *)
can_status(op, h) ==
  \/ RefuseHandle(op, h)
  \/ /\ init /\ Opened(h) /\ Stopped(h)
     /\ Reject(op, h, IF op = "can_busload" THEN "OFFLINE" ELSE "NOERROR")
  \/ /\ init /\ Opened(h) /\ ~Stopped(h)
     /\ \/ \E sts \in Errors("status", pcan[can[h].board].up) : Reject(op, h, pcan_error(sts))
        \/ \E sts \in BusStatuses :
             /\ pcan[can[h].board].up
             /\ can' = [can EXCEPT ![h] = Refresh(@, sts)]
             /\ UNCHANGED <<init, pcan, call>>
             /\ Return(op, h, "NOERROR")

(* can_bitrate: what the device reports is given to the caller although    *)
(* the result tells of a stopped controller.                               *)
can_bitrate(h) ==
  \/ RefuseHandle("can_bitrate", h)
  \/ /\ init /\ Opened(h)
     /\ \/ \E sts \in Errors("status", pcan[can[h].board].up) :
             Reject("can_bitrate", h, pcan_error(sts))
        \/ /\ pcan[can[h].board].up
           /\ Reject("can_bitrate", h, IF Stopped(h) THEN "OFFLINE" ELSE "NOERROR")

(* Properties of the library, of a device, and numbers that are neither.   *)
PropertyKind == {"library", "device", "unknown"}

(* The answer for a library property, and to one that wants a handle.      *)
lib_parameter(h, kind) ==
  \/ kind = "library" /\ Reject("can_property", h, "NOERROR")
  \/ kind = "device" /\ Reject("can_property", h, IF init THEN "HANDLE" ELSE "NOTINIT")
  \/ kind = "unknown" /\ Reject("can_property", h, "NOTSUPP")

(* The answer for a property of an open handle that is only read; the      *)
(* status and the bus load are those of can_status.                        *)
drv_parameter(h, kind) ==
  \/ kind # "device" /\ lib_parameter(h, kind)
  \/ /\ kind = "device"
     /\ \/ Reject("can_property", h, "NOERROR")
        \/ \E sts \in Errors("status", pcan[can[h].board].up) :
             Reject("can_property", h, pcan_error(sts))

(* can_property for the values it only reads: the library answers without  *)
(* a handle, but not under one that is closed.                             *)
can_property(h, kind) ==
  \/ (~init \/ h \notin Handle) /\ lib_parameter(h, kind)
  \/ init /\ h \in Handle /\ ~Opened(h) /\ Reject("can_property", h, "HANDLE")
  \/ init /\ h \in Handle /\ Opened(h) /\ drv_parameter(h, kind)

(* The mask bits the wrapper inverts between its own filter values and     *)
(* those of the driver, and the bits a value may have.                     *)
XorMask(kind) == IF kind = "STD" THEN {"mask11"} ELSE {"mask11", "mask29"}

Inverted(value, kind) == (value \ XorMask(kind)) \cup (XorMask(kind) \ value)

ValidFilter(mode, value, kind) ==
  /\ value \subseteq {"code"} \cup XorMask(kind)
  /\ kind = "XTD" => "NXTD" \notin mode

(* can_property with CANPROP_SET_FILTER_11BIT or CANPROP_SET_FILTER_29BIT *)
set_filter(h, kind, value) ==
  LET b == can[h].board
      f == [mode |-> kind, mask |-> Inverted(value, kind)]
  IN  \/ RefuseHandle("set_filter", h)
      \/ /\ init /\ Opened(h)
         /\ \/ ~ValidFilter(can[h].mode, value, kind) /\ Reject("set_filter", h, "ILLPARA")
            \/ /\ ValidFilter(can[h].mode, value, kind)
               /\ \/ ~Stopped(h) /\ Reject("set_filter", h, "ONLINE")
                  \/ \E sts \in Errors("filter", pcan[b].up) :
                       Stopped(h) /\ Reject("set_filter", h, pcan_error(sts))
                  \/ /\ Stopped(h) /\ pcan[b].up
                     /\ can' = [can EXCEPT ![h].filter = f]
                     /\ pcan' = [pcan EXCEPT ![b].filter = f]
                     /\ UNCHANGED <<init, call>>
                     /\ Return("set_filter", h, "NOERROR")

(* Mutant: the handle may be running. *)
reset_filter_any(h) ==
  LET b == can[h].board
  IN  \/ RefuseHandle("reset_filter", h)
      \/ /\ init /\ Opened(h) /\ pcan[b].up
         /\ can' = [can EXCEPT ![h].filter.mode = "OFF"]
         /\ pcan' = [pcan EXCEPT ![b].filter = OpenFilter]
         /\ UNCHANGED <<init, call>>
         /\ Return("reset_filter", h, "NOERROR")

(* can_property with CANPROP_SET_FILTER_RESET: the mask value is kept. *)
reset_filter(h) ==
  LET b == can[h].board
  IN  \/ RefuseHandle("reset_filter", h)
      \/ init /\ Opened(h) /\ ~Stopped(h) /\ Reject("reset_filter", h, "ONLINE")
      \/ /\ init /\ Opened(h) /\ Stopped(h)
         /\ \/ \E sts \in Errors("filter", pcan[b].up) : Reject("reset_filter", h, pcan_error(sts))
            \/ /\ pcan[b].up
               /\ can' = [can EXCEPT ![h].filter.mode = "OFF"]
               /\ pcan' = [pcan EXCEPT ![b].filter = OpenFilter]
               /\ UNCHANGED <<init, call>>
               /\ Return("reset_filter", h, "NOERROR")

(* The filter value that the library reports.  There is one filter for     *)
(* both kinds of identifiers: the reset value stands for the other kind,   *)
(* otherwise the driver is asked.                                          *)
FilterRead(h, kind) ==
  LET f == pcan[can[h].board].filter
  IN  IF can[h].filter.mode \notin {"OFF", kind} \/ f.mode = "OFF" THEN {}
      ELSE Inverted(f.mask, kind)

(* can_property with CANPROP_GET_FILTER_11BIT or CANPROP_GET_FILTER_29BIT  *)
get_filter(h, kind) ==
  LET asks == can[h].filter.mode \in {"OFF", kind}
      up   == pcan[can[h].board].up
  IN  \/ RefuseHandle("get_filter", h)
      \/ /\ init /\ Opened(h)
         /\ \/ \E sts \in Errors("filter", up) : asks /\ Reject("get_filter", h, pcan_error(sts))
            \/ (asks => up) /\ Reject("get_filter", h, "NOERROR")
-------------------------------------------------------------------------------
Channels == Boards \cup {NONEBUS, BADCHANNEL}

Idle == call = NoCall

(* One client: no call begins while a can_read is in progress. *)
Next ==
  \/ \E b \in Channels, mode \in Modes : Idle /\ can_test(b, mode)
  \/ \E b \in Channels, mode \in Modes, param \in Params : Idle /\ can_init(b, mode, param)
  \/ \E h \in HandleArg : Idle /\ can_exit(h)
  \/ \E h \in HandleArg : Idle /\ can_kill(h)
  \/ \E h \in HandleArg, br \in Bitrates : Idle /\ can_start(h, br)
  \/ \E h \in HandleArg : Idle /\ can_reset(h)
  \/ \E h \in HandleArg, msg \in TxFrames : Idle /\ can_write(h, msg)
  \/ \E h \in HandleArg : Idle /\ can_read(h)
  \/ \E op \in {"can_status", "can_busload"}, h \in HandleArg : Idle /\ can_status(op, h)
  \/ \E h \in HandleArg, kind \in {"STD", "XTD"}, value \in FilterArgs :
        Idle /\ set_filter(h, kind, value)
  \/ \E h \in HandleArg : Idle /\ reset_filter(h)
  \/ \E h \in HandleArg : Idle /\ can_bitrate(h)
  \/ \E h \in HandleArg, kind \in PropertyKind : Idle /\ can_property(h, kind)
  \/ \E h \in HandleArg, kind \in {"STD", "XTD"} : Idle /\ get_filter(h, kind)
  \/ Reading

Spec == Init /\ [][Next]_vars
-------------------------------------------------------------------------------
Slot ==
  [board : Boards \cup {NONEBUS}, brd : Params \cup {"none"}, mode : SUBSET Flag,
   fdes : Boards \cup {NONEBUS}, filter : Filter, status : SUBSET StatusBit,
   lec : BOOLEAN, tx : 0 .. MaxCount, rx : 0 .. MaxCount, err : 0 .. MaxCount]

(* Every variable has its type, and a read in progress is that of an open  *)
(* and running handle.                                                     *)
TypeOK ==
  /\ init \in BOOLEAN
  /\ can \in [Handle -> Slot]
  /\ pcan \in [Boards -> DriverChannel]
  /\ call \in [h : Handle, buf : SUBSET FrameBit] \cup {NoCall}
  /\ call # NoCall => init /\ Opened(call.h) /\ ~Stopped(call.h)

Running(h) == Opened(h) /\ ~Stopped(h)

(* No two open handles share a hardware channel (can_init refuses a        *)
(* channel that is in use with CANERR_YETINIT).                            *)
BoardsDistinct ==
  \A h, k \in Handle : Opened(h) /\ Opened(k) /\ h # k => can[h].board # can[k].board

(* While the initialization flag is clear no handle is open, so that the   *)
(* var_init of the next can_init or can_test cannot wipe an open handle.   *)
ClosedUnlessInit == ~init => \A h \in Handle : ~Opened(h)

(* A channel initialized in the driver belongs to an open handle: no       *)
(* sequence of failures of can_init, can_start or can_exit leaves a        *)
(* channel occupied that no handle can release.                            *)
NoOrphanChannel ==
  \A b \in Boards : pcan[b].up => \E h \in Handle : can[h].board = b

(* The handle table and the driver agree, whatever order of calls and
   failures there was. *)
TableConsistent == BoardsDistinct /\ ClosedUnlessInit /\ NoOrphanChannel

(* The filter asked for last: the one set, or none after a reset. *)
AskedFilter(f) == IF f.mode = "OFF" THEN OpenFilter ELSE f

(* A handle that counts as running is on the bus the way it was asked to:  *)
(* its channel is up, listen-only exactly in monitor mode, with the        *)
(* handle's acceptance filter, and blocking reads wait on its own channel. *)
RunningOnBus ==
  \A h \in Handle : Running(h) =>
    LET ch == pcan[can[h].board]
    IN  /\ ch.up
        /\ ch.listen <=> "MON" \in can[h].mode
        /\ ch.filter = AskedFilter(can[h].filter)
        /\ can[h].fdes = can[h].board

(* 'No communication is possible' while a handle counts as stopped: its    *)
(* channel is down or listens only, however can_init, can_start and        *)
(* can_reset failed.  It takes a CAN_Uninitialize that succeeds on a       *)
(* channel that is up.                                                     *)
StoppedIsSilent ==
  \A h \in Handle : Opened(h) /\ Stopped(h) /\ pcan[can[h].board].up
    => pcan[can[h].board].listen

(* A call on one handle never changes another open handle or the channel   *)
(* behind it; only closing all handles touches more than one.              *)
OthersUntouched ==
  [][\A h \in Handle :
       Opened(h) /\ (can'[h] # can[h] \/ pcan'[can[h].board] # pcan[can[h].board])
       => \/ ret'.h = h /\ ret'.op # "can_init"
          \/ call.h = h
          \/ ret'.op = "can_exit" /\ ret'.h = CANEXIT_ALL]_vars

(* A step from open to open on the same channel that does not start it.    *)
Continues(h) ==
  Opened(h) /\ can'[h].board = can[h].board /\ (Running(h) \/ Stopped(h)')

(* Once set, the loss bits of the status register stay until can_start:    *)
(* neither a status refresh, a read nor a stop loses the news that         *)
(* messages were lost; and 'transmitter busy' goes only with a frame sent. *)
LossIsLatched ==
  [][\A h \in Handle : Continues(h) =>
       LET cleared == can[h].status \ can'[h].status
       IN  /\ cleared \cap {"message_lost", "queue_overrun"} = {}
           /\ "transmitter_busy" \in cleared => can'[h].tx = can[h].tx + 1]_vars

(* The counters tell what clients were told: between two starts the frame  *)
(* counters move by one, exactly with a call that returned NOERROR, and a  *)
(* start sets them to zero (can_api.h: 'all statistical counters will be   *)
(* reset by this').                                                        *)
CountersTell ==
  [][\A h \in Handle :
       /\ Continues(h) =>
            LET told(op) == ret'.op = op /\ ret'.h = h /\ ret'.rc = "NOERROR"
                sent     == can'[h].tx - can[h].tx
                received == can'[h].rx + can'[h].err - can[h].rx - can[h].err
            IN  /\ sent = IF told("can_write") THEN 1 ELSE 0
                /\ received = IF told("can_read") THEN 1 ELSE 0
       /\ Stopped(h) /\ Running(h)' => can'[h].tx + can'[h].rx + can'[h].err = 0]_vars

(* The acceptance filter changes only in the stopped state, both in the    *)
(* wrapper and in the driver ('set filter only if the CAN controller is in *)
(* INIT mode').                                                            *)
FilterFrozen ==
  [][\A h \in Handle : Running(h) /\ Running(h)' =>
       /\ can'[h].filter = can[h].filter
       /\ pcan'[can[h].board].filter = pcan[can[h].board].filter]_vars

(* The operation states of can_api.h, per channel, as a table tells them.  *)
ChanState(tbl, b) ==
  IF InUse(tbl, b)
    THEN LET h == CHOOSE k \in Handle : tbl[k].board = b
         IN  [owner |-> h,
              state |-> IF "can_stopped" \in tbl[h].status THEN "stopped" ELSE "running"]
    ELSE [owner |-> -1, state |-> "offline"]

CS == INSTANCE ChannelStates WITH chan <- [b \in Boards |-> ChanState(can, b)]

(* The library implements the operation states: no call, whatever driver   *)
(* call fails in it, takes a channel to a state the API does not describe, *)
(* and a handle denotes the same channel from can_init to can_exit.        *)
ImplementsStates == CS!ChanSpec
===============================================================================
