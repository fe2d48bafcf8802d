-------------------------------- MODULE PeakCan --------------------------------
(***************************************************************************)
(* The C++ class CPeakCAN of src/Sources/PeakCAN.cpp: objects that keep    *)
(* one handle each and forward their methods to the wrapper of CanApi.     *)
(* Programs that use the class do not call the wrapper beside it.          *)
(***************************************************************************)
EXTENDS CanApi

CONSTANT Objects

(* The class gives no board parameters. *)
ASSUME PeakCanAssumption == "none" \in Params

VARIABLES
  m_Handle, \* the handle of each object, -1 for none
  asked,    \* history: the filter each object set last, of kind "OFF" for none
  hidden    \* history: handles that an object forgot without closing them

objVars  == <<m_Handle, asked, hidden>>
peakVars == <<vars, objVars>>

NoFilter == [kind |-> "OFF", value |-> {}]

PeakInit ==
  /\ Init
  /\ m_Handle = [o \in Objects |-> -1]
  /\ asked = [o \in Objects |-> NoFilter]
  /\ hidden = {}

HasHandle(o) == m_Handle[o] >= 0

Succeeds == ret'.rc = "NOERROR"

Asks(o, f) == asked' = IF Succeeds THEN [asked EXCEPT ![o] = f] ELSE asked

(* A call of the wrapper that leaves the object as it is. *)
Forward(call_) == call_ /\ UNCHANGED objVars

(* A method of an object without a handle that does not call the wrapper.  *)
NoHandle(o, op) == ~HasHandle(o) /\ Reject(op, -1, "HANDLE") /\ UNCHANGED objVars
-------------------------------------------------------------------------------
(* The handle of an object that is initialized again is stored over.       *)
InitializeChannel(o, b, mode) ==
  /\ can_init(b, mode, "none")
  /\ Asks(o, NoFilter)
  /\ m_Handle' = IF Succeeds THEN [m_Handle EXCEPT ![o] = ret'.h] ELSE m_Handle
  /\ hidden' = IF Succeeds /\ HasHandle(o) THEN hidden \cup {m_Handle[o]} ELSE hidden

ProbeChannel(o, b, mode) == Forward(can_test(b, mode))

(* Mutant: the object keeps the handle it has closed. *)
Closed_kept(o) == m_Handle

Closed(o) == [m_Handle EXCEPT ![o] = -1]

TeardownChannel(o) ==
  \/ NoHandle(o, "can_exit")
  \/ /\ HasHandle(o) /\ can_exit(m_Handle[o])
     /\ m_Handle' = IF Succeeds THEN Closed(o) ELSE m_Handle
     /\ Asks(o, NoFilter)
     /\ UNCHANGED hidden

(* The destructor ignores a teardown that fails; another object may be     *)
(* constructed in its place.                                               *)
Destroy(o) ==
  /\ HasHandle(o) /\ can_exit(m_Handle[o])
  /\ m_Handle' = [m_Handle EXCEPT ![o] = -1]
  /\ asked' = [asked EXCEPT ![o] = NoFilter]
  /\ hidden' = IF Succeeds THEN hidden ELSE hidden \cup {m_Handle[o]}

SignalChannel(o) ==
  \/ NoHandle(o, "can_kill")
  \/ HasHandle(o) /\ Forward(can_kill(m_Handle[o]))

StartController(o, br) == Forward(can_start(m_Handle[o], br))

ResetController(o) == Forward(can_reset(m_Handle[o]))

WriteMessage(o, msg) == Forward(can_write(m_Handle[o], msg))

ReadMessage(o) == Forward(can_read(m_Handle[o]))

GetStatus(o) == Forward(can_status("can_status", m_Handle[o]))

GetBusLoad(o) == Forward(can_status("can_busload", m_Handle[o]))

(* GetBitrate and GetBusSpeed *)
GetBitrate(o) == Forward(can_bitrate(m_Handle[o]))

GetProperty(o, kind) == Forward(can_property(m_Handle[o], kind))

SetFilter(o, kind, value) ==
  /\ set_filter(m_Handle[o], kind, value)
  /\ Asks(o, [kind |-> kind, value |-> value])
  /\ UNCHANGED <<m_Handle, hidden>>

ResetFilters(o) ==
  /\ reset_filter(m_Handle[o])
  /\ Asks(o, NoFilter)
  /\ UNCHANGED <<m_Handle, hidden>>

GetFilter(o, kind) == Forward(get_filter(m_Handle[o], kind))
-------------------------------------------------------------------------------
PeakNext ==
  \/ /\ Idle
     /\ \E o \in Objects :
          \/ \E b \in Channels, mode \in Modes : InitializeChannel(o, b, mode) \/ ProbeChannel(o, b, mode)
          \/ TeardownChannel(o) \/ Destroy(o) \/ SignalChannel(o)
          \/ \E br \in Bitrates : StartController(o, br)
          \/ ResetController(o)
          \/ \E msg \in TxFrames : WriteMessage(o, msg)
          \/ \E kind \in PropertyKind : GetProperty(o, kind)
          \/ ReadMessage(o) \/ GetStatus(o) \/ GetBusLoad(o) \/ GetBitrate(o)
          \/ \E kind \in {"STD", "XTD"} :
               GetFilter(o, kind) \/ \E value \in FilterArgs : SetFilter(o, kind, value)
          \/ ResetFilters(o)
  \/ Forward(Reading)

PeakSpec == PeakInit /\ [][PeakNext]_peakVars
-------------------------------------------------------------------------------
PeakTypeOK ==
  /\ TypeOK
  /\ m_Handle \in [Objects -> {-1} \cup Handle]
  /\ asked \in [Objects -> [kind : {"OFF", "STD", "XTD"}, value : SUBSET FilterBit]]
  /\ hidden \subseteq Handle

Owners(h) == {o \in Objects : m_Handle[o] = h}

(* Every open handle belongs to exactly one object, or one forgot it: a    *)
(* handle that an object still has is never closed or given to another     *)
(* object behind its back, and a forgotten one stays open for ever.        *)
HandlesAccounted ==
  /\ PeakTypeOK
  /\ \A h \in Handle :
       IF h \in hidden THEN Opened(h) /\ Owners(h) = {}
       ELSE Cardinality(Owners(h)) = IF Opened(h) THEN 1 ELSE 0

(* The filter an object set is what it reads back, until it sets or resets *)
(* it or gives up its channel: through starts, stops, failed calls and     *)
(* whatever other objects do.  It takes a CAN_Uninitialize that succeeds   *)
(* on a channel that is up.                                                *)
FilterReadBack ==
  \A o \in Objects :
    LET h == m_Handle[o]
        f == asked[o]
    IN  HasHandle(o) /\ f.kind # "OFF" /\ pcan[can[h].board].up =>
          \A kind \in {"STD", "XTD"} : FilterRead(h, kind) = IF kind = f.kind THEN f.value ELSE {}
===============================================================================
