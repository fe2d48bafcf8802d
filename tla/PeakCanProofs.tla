----------------------------- MODULE PeakCanProofs -----------------------------
(***************************************************************************)
(* Theorems of PeakCan, for every number of objects, handles and channels  *)
(* and every set of failing driver calls: who owns an open handle, and     *)
(* what the filters of an object are.                                      *)
(*                                                                         *)
(* A method is a call of the wrapper followed by what the object makes of  *)
(* its result.  So the effects of the calls (CanApiProofs) are first       *)
(* joined with whether the call tells of success; then every method is     *)
(* one of five kinds, by what it does to the objects.                      *)
(***************************************************************************)
EXTENDS PeakCan, CanApiProofs, FiniteSetTheorems

(* can_init tells of success exactly when it takes a handle, and of which. *)
LEMMA InitTells ==
  ASSUME Idle, NEW b, NEW mode, NEW param, can_init(b, mode, param)
  PROVE  \/ ~Succeeds /\ (UNCHANGED state \/ Prepares)
         \/ /\ Succeeds /\ b \in Boards /\ Opens(b, mode, param)
            /\ ret'.h = FirstFree(Table)
PROOF
  <1> DEFINE Fails == \E rc : /\ init' = TRUE /\ can' = Table /\ UNCHANGED call
                              /\ Return("can_init", -1, rc) /\ rc # "NOERROR"
  <1>1. CASE \E rc : Reject("can_init", -1, rc) /\ rc # "NOERROR"
    BY <1>1 DEF Reject, Return, state, Succeeds
  <1>2. CASE Fails /\ UNCHANGED pcan
    BY <1>2 DEF Prepares, Return, Succeeds
  <1>3. CASE /\ Fails /\ b \in Boards /\ ~InUse(Table, b)
             /\ Driven(b, Deaf(pcan[b])) \/ Driven(b, Mute(pcan[b]))
    BY <1>3 DEF Prepares, Return, Succeeds
  <1>4. CASE /\ b \in Boards /\ Opens(b, mode, param)
             /\ Return("can_init", FirstFree(Table), "NOERROR")
    BY <1>4 DEF Return, Succeeds
  <1> HIDE DEF Fails
  <1>5. \/ \E rc : Reject("can_init", -1, rc) /\ rc # "NOERROR"
        \/ Fails /\ UNCHANGED pcan
        \/ /\ Fails /\ b \in Boards /\ ~InUse(Table, b)
           /\ Driven(b, Deaf(pcan[b])) \/ Driven(b, Mute(pcan[b]))
        \/ /\ b \in Boards /\ Opens(b, mode, param)
           /\ Return("can_init", FirstFree(Table), "NOERROR")
    BY ErrorTold DEF can_init, Opens, Driven, Fails
  <1> QED
    BY <1>1, <1>2, <1>3, <1>4, <1>5

(* can_exit of one handle tells of success exactly when it closes it. *)
LEMMA ExitTells ==
  ASSUME Idle, NEW h, h # CANEXIT_ALL, can_exit(h)
  PROVE  \/ ~Succeeds /\ UNCHANGED state
         \/ Succeeds /\ Opened(h) /\ Closes({h})
PROOF
  <1>1. CASE RefuseHandle("can_exit", h) \/ \E sts : Reject("can_exit", h, pcan_error(sts))
    BY <1>1, ErrorTold DEF RefuseHandle, Reject, Return, state, Succeeds
  <1>2. CASE /\ Opened(h) /\ CloseAll({h}) /\ init' = ~all_closed(can')
             /\ UNCHANGED call /\ Return("can_exit", h, "NOERROR")
    BY <1>2 DEF Closes, Return, Succeeds
  <1>3. \/ RefuseHandle("can_exit", h)
        \/ \E sts : Reject("can_exit", h, pcan_error(sts))
        \/ /\ Opened(h) /\ CloseAll({h}) /\ init' = ~all_closed(can')
           /\ UNCHANGED call /\ Return("can_exit", h, "NOERROR")
    BY DEF can_exit
  <1> QED
    BY <1>1, <1>2, <1>3

(* Setting and resetting a filter tells of success exactly when it is done.*)
LEMMA FilterTells ==
  ASSUME Idle, NEW h
  PROVE  /\ \A kind, value : set_filter(h, kind, value) =>
              LET f == [mode |-> kind, mask |-> Inverted(value, kind)]
              IN  \/ ~Succeeds /\ UNCHANGED state
                  \/ Succeeds /\ Filters(h, f, f)
         /\ reset_filter(h) =>
              \/ ~Succeeds /\ UNCHANGED state
              \/ Succeeds /\ Filters(h, [can[h].filter EXCEPT !.mode = "OFF"], OpenFilter)
PROOF
  <1>1. ASSUME NEW op,
               RefuseHandle(op, h) \/ \E rc : Reject(op, h, rc) /\ rc # "NOERROR"
        PROVE  ~Succeeds /\ UNCHANGED state
    BY <1>1 DEF RefuseHandle, Reject, Return, state, Succeeds
  <1>2. ASSUME NEW op, Return(op, h, "NOERROR") PROVE Succeeds
    BY <1>2 DEF Return, Succeeds
  <1>3. ASSUME NEW kind, NEW value, set_filter(h, kind, value)
        PROVE  LET f == [mode |-> kind, mask |-> Inverted(value, kind)]
               IN  \/ RefuseHandle("set_filter", h)
                   \/ \E rc : Reject("set_filter", h, rc) /\ rc # "NOERROR"
                   \/ Return("set_filter", h, "NOERROR") /\ Filters(h, f, f)
    BY <1>3, ErrorTold DEF set_filter, Filters, On, Board
  <1>4. ASSUME reset_filter(h)
        PROVE  LET f == [can[h].filter EXCEPT !.mode = "OFF"]
               IN  \/ RefuseHandle("reset_filter", h)
                   \/ \E rc : Reject("reset_filter", h, rc) /\ rc # "NOERROR"
                   \/ Return("reset_filter", h, "NOERROR") /\ Filters(h, f, OpenFilter)
    BY <1>4, ErrorTold DEF reset_filter, Filters, On, Board
  <1> QED
    BY <1>1, <1>2, <1>3, <1>4
-------------------------------------------------------------------------------
(* Methods that only forward a call other than can_init, can_exit and the  *)
(* filter calls.                                                           *)
Plain ==
  \/ UNCHANGED state
  \/ Prepares
  \/ \E h \in Handle : Aborts(h) \/ Starts(h) \/ Stops(h)
  \/ \E h \in Handle, new \in Slot : Carries(h, new)

Forgets(o) ==
  \/ /\ m_Handle' = IF Succeeds THEN Closed(o) ELSE m_Handle
     /\ Asks(o, NoFilter)
     /\ UNCHANGED hidden
  \/ /\ m_Handle' = [m_Handle EXCEPT ![o] = -1]
     /\ asked' = [asked EXCEPT ![o] = NoFilter]
     /\ hidden' = IF Succeeds THEN hidden ELSE hidden \cup {m_Handle[o]}

(* The kinds of method, by what becomes of the objects. *)
Initializes(o) == Idle /\ \E b \in Channels, mode \in Modes : InitializeChannel(o, b, mode)

Releases(o) == Idle /\ HasHandle(o) /\ can_exit(m_Handle[o]) /\ Forgets(o)

SetsFilter(o) ==
  /\ Idle
  /\ \E kind \in {"STD", "XTD"}, value \in FilterArgs : SetFilter(o, kind, value)

LEMMA PlainCalls ==
  ASSUME TypeOK, NEW h, NEW b, NEW mode, NEW br, NEW msg, NEW kind, Idle,
         \/ can_test(b, mode) \/ can_kill(h) \/ can_start(h, br) \/ can_reset(h)
         \/ can_write(h, msg) \/ can_read(h)
         \/ can_status("can_status", h) \/ can_status("can_busload", h)
         \/ can_bitrate(h) \/ can_property(h, kind) \/ get_filter(h, kind)
  PROVE  Plain
PROOF
  <1>1. \A k : Aborts(k) \/ Starts(k) \/ Stops(k) => k \in Handle
    BY DEF Aborts, Starts, Stops, On, Opened
  <1>2. \A new : Carries(h, new) => h \in Handle
    BY DEF Carries, Opened
  <1>3. can_test(b, mode) => UNCHANGED state \/ Prepares
    BY TestEffect
  <1>4. can_start(h, br) \/ can_reset(h) => UNCHANGED state \/ Aborts(h) \/ Starts(h) \/ Stops(h)
    BY StartEffect, ResetEffect
  <1>5. can_write(h, msg) \/ can_read(h) \/ can_status("can_status", h) \/ can_status("can_busload", h)
          => UNCHANGED state \/ \E new \in Slot : Carries(h, new)
    BY WriteEffect, ReadEffect, StatusEffect
  <1>6. can_kill(h) \/ can_bitrate(h) \/ can_property(h, kind) \/ get_filter(h, kind)
          => UNCHANGED state
    BY KillEffect, QueryEffect
  <1> QED
    BY <1>1, <1>2, <1>3, <1>4, <1>5, <1>6 DEF Plain

LEMMA Methods ==
  ASSUME TypeOK, [PeakNext]_peakVars
  PROVE  \/ Plain /\ UNCHANGED objVars
         \/ \E o \in Objects : \/ Initializes(o) \/ Releases(o) \/ SetsFilter(o)
                               \/ Idle /\ ResetFilters(o)
PROOF
  <1> DEFINE Kind(o) == \/ Plain /\ UNCHANGED objVars
                        \/ Initializes(o) \/ Releases(o) \/ SetsFilter(o)
                        \/ Idle /\ ResetFilters(o)
  <1>1. CASE UNCHANGED peakVars
    BY <1>1 DEF peakVars, vars, state, Plain
  <1>2. CASE Forward(Reading)
    <2>1. \E new \in Slot : Carries(call.h, new)
      BY <1>2, PassEffect DEF Forward
    <2>2. call.h \in Handle
      BY <2>1 DEF Carries, Opened
    <2> QED
      BY <1>2, <2>1, <2>2 DEF Plain, Forward
  <1>3. ASSUME NEW o \in Objects, Idle,
               \/ \E b \in Channels, mode \in Modes : ProbeChannel(o, b, mode)
               \/ SignalChannel(o)
               \/ \E br \in Bitrates : StartController(o, br)
               \/ ResetController(o)
               \/ \E msg \in TxFrames : WriteMessage(o, msg)
               \/ \E kind \in PropertyKind : GetProperty(o, kind)
               \/ ReadMessage(o) \/ GetStatus(o) \/ GetBusLoad(o) \/ GetBitrate(o)
               \/ \E kind \in {"STD", "XTD"} : GetFilter(o, kind)
        PROVE  Plain /\ UNCHANGED objVars
    <2> DEFINE h == m_Handle[o]
    <2>1. CASE NoHandle(o, "can_kill")
      BY <2>1, Refusals DEF NoHandle, Plain
    <2>2. \/ NoHandle(o, "can_kill")
          \/ /\ UNCHANGED objVars
             /\ \/ \E b \in Channels, mode \in Modes : can_test(b, mode)
                \/ can_kill(h) \/ can_reset(h) \/ can_read(h) \/ can_bitrate(h)
                \/ can_status("can_status", h) \/ can_status("can_busload", h)
                \/ \E br \in Bitrates : can_start(h, br)
                \/ \E msg \in TxFrames : can_write(h, msg)
                \/ \E kind \in PropertyKind : can_property(h, kind)
                \/ \E kind \in {"STD", "XTD"} : get_filter(h, kind)
      BY <1>3 DEF ProbeChannel, SignalChannel, StartController, ResetController, WriteMessage,
                  GetProperty, ReadMessage, GetStatus, GetBusLoad, GetBitrate, GetFilter, Forward
    <2> HIDE DEF h
    <2> QED
      BY <1>3, <2>1, <2>2, PlainCalls
  <1>4. ASSUME NEW o \in Objects, Idle, TeardownChannel(o) \/ Destroy(o)
        PROVE  Releases(o) \/ (Plain /\ UNCHANGED objVars)
    <2>1. CASE NoHandle(o, "can_exit")
      BY <2>1, Refusals DEF NoHandle, Plain
    <2> QED
      BY <1>4, <2>1 DEF TeardownChannel, Destroy, Releases, Forgets
  <1>5. ASSUME NEW o \in Objects, Idle,
               \/ \E b \in Channels, mode \in Modes : InitializeChannel(o, b, mode)
               \/ \E kind \in {"STD", "XTD"}, value \in FilterArgs : SetFilter(o, kind, value)
        PROVE  Initializes(o) \/ SetsFilter(o)
    BY <1>5 DEF Initializes, SetsFilter
  <1> QED
    BY <1>1, <1>2, <1>3, <1>4, <1>5 DEF PeakNext
-------------------------------------------------------------------------------
(* Calls other than can_init and can_exit open and close no handle.        *)
LEMMA PlainKeepsBoards ==
  ASSUME Inv, Plain \/ \E h, f, g : Filters(h, f, g)
  PROVE  \A k \in Handle : can'[k].board = can[k].board
PROOF
  <1> SUFFICES ASSUME NEW k \in Handle PROVE can'[k].board = can[k].board
    OBVIOUS
  <1>1. can[k] \in Slot /\ can \in [Handle -> Slot]
    BY DEF Inv, TypeOK
  <1>2. CASE UNCHANGED state
    BY <1>2 DEF state
  <1>3. CASE Prepares
    BY <1>3, TableFacts DEF Prepares
  <1>4. ASSUME NEW h \in Handle, Aborts(h) \/ Stops(h) \/ \E f, g : Filters(h, f, g)
        PROVE  can'[k].board = can[k].board
    BY <1>1, <1>4 DEF Aborts, Stops, Filters, Slot
  <1>5. ASSUME NEW h \in Handle, Starts(h) PROVE can'[k].board = can[k].board
    BY <1>1, <1>5, SlotRecords DEF Starts
  <1>6. ASSUME NEW h \in Handle, NEW new, Carries(h, new) PROVE can'[k].board = can[k].board
    BY <1>1, <1>6 DEF Carries, Board
  <1>7. \A h, f, g : Filters(h, f, g) => h \in Handle
    BY DEF Filters, On, Opened
  <1> QED
    BY <1>2, <1>3, <1>4, <1>5, <1>6, <1>7 DEF Plain

(* Ownership, without counting: an object has an open handle that is not   *)
(* forgotten, no two have the same, and every open handle is had or        *)
(* forgotten.                                                              *)
ObjectsTyped ==
  /\ m_Handle \in [Objects -> {-1} \cup Handle]
  /\ asked \in [Objects -> [kind : {"OFF", "STD", "XTD"}, value : SUBSET FilterBit]]
  /\ hidden \subseteq Handle

Owned ==
  /\ \A o \in Objects : HasHandle(o) => Opened(m_Handle[o]) /\ m_Handle[o] \notin hidden
  /\ \A o, q \in Objects : HasHandle(o) /\ m_Handle[o] = m_Handle[q] => o = q
  /\ \A h \in Handle : Opened(h) => h \in hidden \/ \E o \in Objects : m_Handle[o] = h
  /\ \A h \in hidden : Opened(h)

PeakInv == Inv /\ ObjectsTyped /\ Owned

LEMMA PeakInvInit == PeakInit => PeakInv
PROOF
  <1> SUFFICES ASSUME PeakInit PROVE PeakInv
    OBVIOUS
  <1>1. Inv
    BY InvInit DEF PeakInit
  <1>2. \A h \in Handle : ~Opened(h)
    BY DEF PeakInit, Init, var_init, Blank, Opened
  <1>3. \A o \in Objects : ~HasHandle(o)
    BY DEF PeakInit, HasHandle
  <1>4. ObjectsTyped
    BY DEF ObjectsTyped, PeakInit, NoFilter
  <1>5. Owned
    BY <1>2, <1>3 DEF Owned, PeakInit
  <1> QED
    BY <1>1, <1>4, <1>5 DEF PeakInv
-------------------------------------------------------------------------------
(* What the methods do to the library is what the library does.            *)
LEMMA FilterValue ==
  ASSUME NEW kind \in {"STD", "XTD"}, NEW value \in FilterArgs
  PROVE  [mode |-> kind, mask |-> Inverted(value, kind)] \in Filter
PROOF
  BY CanApiAssumption DEF Filter, Inverted, XorMask, FilterBit

LEMMA InitializesKind ==
  ASSUME NEW o, Initializes(o)
  PROVE  \/ ~Succeeds /\ (UNCHANGED state \/ Prepares) /\ UNCHANGED objVars
         \/ \E b \in Boards, mode \in Modes :
              /\ Opens(b, mode, "none")
              /\ m_Handle' = [m_Handle EXCEPT ![o] = FirstFree(Table)]
              /\ asked' = [asked EXCEPT ![o] = NoFilter]
              /\ hidden' = IF HasHandle(o) THEN hidden \cup {m_Handle[o]} ELSE hidden
PROOF
  <1>1. PICK b \in Channels, mode \in Modes : InitializeChannel(o, b, mode)
    BY DEF Initializes
  <1>2. Idle /\ can_init(b, mode, "none")
    BY <1>1 DEF Initializes, InitializeChannel
  <1>3. \/ ~Succeeds /\ (UNCHANGED state \/ Prepares)
        \/ /\ Succeeds /\ b \in Boards /\ Opens(b, mode, "none")
           /\ ret'.h = FirstFree(Table)
    BY <1>2, InitTells
  <1> QED
    BY <1>1, <1>3 DEF InitializeChannel, Asks, objVars

LEMMA ReleasesKind ==
  ASSUME ObjectsTyped, NEW o \in Objects, Releases(o)
  PROVE  /\ Forgets(o) /\ HasHandle(o)
         /\ \/ ~Succeeds /\ UNCHANGED state
            \/ Succeeds /\ m_Handle[o] \in Handle /\ Closes({m_Handle[o]})
PROOF
  <1> DEFINE h == m_Handle[o]
  <1>1. Idle /\ h # CANEXIT_ALL /\ can_exit(h)
    BY DEF Releases, HasHandle, CANEXIT_ALL, ObjectsTyped, Handle
  <1> HIDE DEF h
  <1>2. \/ ~Succeeds /\ UNCHANGED state
        \/ Succeeds /\ Opened(h) /\ Closes({h})
    BY <1>1, ExitTells
  <1> QED
    BY <1>2 DEF Releases, Opened, h

LEMMA SetsKind ==
  ASSUME NEW o, SetsFilter(o)
  PROVE  \/ ~Succeeds /\ UNCHANGED state /\ UNCHANGED objVars
         \/ \E kind \in {"STD", "XTD"}, value \in FilterArgs :
              LET f == [mode |-> kind, mask |-> Inverted(value, kind)]
              IN  /\ f \in Filter /\ m_Handle[o] \in Handle /\ Filters(m_Handle[o], f, f)
                  /\ asked' = [asked EXCEPT ![o] = [kind |-> kind, value |-> value]]
                  /\ UNCHANGED <<m_Handle, hidden>>
PROOF
  <1>1. PICK kind \in {"STD", "XTD"}, value \in FilterArgs : SetFilter(o, kind, value)
    BY DEF SetsFilter
  <1> DEFINE h == m_Handle[o]
             f == [mode |-> kind, mask |-> Inverted(value, kind)]
  <1>2. Idle /\ set_filter(h, kind, value)
    BY <1>1 DEF SetFilter, SetsFilter
  <1>3. \/ ~Succeeds /\ UNCHANGED state
        \/ Succeeds /\ Filters(h, f, f)
    BY <1>2, FilterTells
  <1>4. f \in Filter
    BY FilterValue
  <1>5. Filters(h, f, f) => h \in Handle
    BY DEF Filters, On, Opened
  <1>6. CASE ~Succeeds /\ UNCHANGED state
    BY <1>1, <1>6 DEF SetFilter, Asks, objVars
  <1>7. CASE Succeeds /\ Filters(h, f, f)
    <2>1. /\ asked' = [asked EXCEPT ![o] = [kind |-> kind, value |-> value]]
          /\ UNCHANGED <<m_Handle, hidden>>
      BY <1>1, <1>7 DEF SetFilter, Asks
    <2> QED
      BY <1>4, <1>5, <1>7, <2>1
  <1> QED
    BY <1>3, <1>6, <1>7

LEMMA ResetsKind ==
  ASSUME TypeOK, NEW o, Idle, ResetFilters(o)
  PROVE  \/ ~Succeeds /\ UNCHANGED state /\ UNCHANGED objVars
         \/ \E f \in Filter :
              /\ m_Handle[o] \in Handle /\ Filters(m_Handle[o], f, OpenFilter)
              /\ asked' = [asked EXCEPT ![o] = NoFilter]
              /\ UNCHANGED <<m_Handle, hidden>>
PROOF
  <1> DEFINE h == m_Handle[o]
             f == [can[h].filter EXCEPT !.mode = "OFF"]
  <1>1. Idle /\ reset_filter(h)
    BY DEF ResetFilters
  <1>2. \/ ~Succeeds /\ UNCHANGED state
        \/ Succeeds /\ Filters(h, f, OpenFilter)
    BY <1>1, FilterTells
  <1>3. Filters(h, f, OpenFilter) => h \in Handle /\ f \in Filter
    BY SMTT(60) DEF Filters, On, Opened, TypeOK, Slot, Filter
  <1>4. /\ asked' = IF Succeeds THEN [asked EXCEPT ![o] = NoFilter] ELSE asked
        /\ UNCHANGED <<m_Handle, hidden>>
    BY DEF ResetFilters, Asks
  <1> HIDE DEF f
  <1> QED
    BY <1>2, <1>3, <1>4 DEF objVars

LEMMA MethodKinds ==
  ASSUME PeakInv, [PeakNext]_peakVars
  PROVE  Kinds
PROOF
  <1>1. Plain => Kinds
    BY DEF Plain, Kinds
  <1>2. ASSUME NEW o \in Objects, Initializes(o) PROVE Kinds
    BY <1>2, InitializesKind, PeakCanAssumption DEF Kinds
  <1>3. ASSUME NEW o \in Objects, Releases(o) PROVE Kinds
    <2>1. \/ UNCHANGED state
          \/ {m_Handle[o]} \in SUBSET Handle /\ Closes({m_Handle[o]})
      BY <1>3, ReleasesKind DEF PeakInv
    <2> QED
      BY <2>1 DEF Kinds
  <1>4. ASSUME NEW o \in Objects, SetsFilter(o) PROVE Kinds
    BY <1>4, SetsKind DEF Kinds
  <1>5. ASSUME NEW o \in Objects, Idle, ResetFilters(o) PROVE Kinds
    BY <1>5, ResetsKind, Constants DEF Kinds, PeakInv, Inv
  <1> QED
    BY <1>1, <1>2, <1>3, <1>4, <1>5, Methods DEF PeakInv, Inv
-------------------------------------------------------------------------------
(* Ownership survives each kind of method. *)
LEMMA OwnedSame ==
  ASSUME PeakInv, UNCHANGED <<m_Handle, hidden>>, \A h \in Handle : can'[h].board = can[h].board
  PROVE  Owned'
PROOF
  BY DEF PeakInv, Owned, ObjectsTyped, HasHandle, Opened

OpenThen(k) == k \in Handle /\ can'[k].board # NONEBUS

LEMMA OwnedIntro ==
  ASSUME \A q \in Objects : m_Handle'[q] >= 0 => OpenThen(m_Handle'[q]) /\ m_Handle'[q] \notin hidden',
         \A q, p \in Objects : m_Handle'[q] >= 0 /\ m_Handle'[q] = m_Handle'[p] => q = p,
         \A k \in Handle : OpenThen(k) => k \in hidden' \/ \E q \in Objects : m_Handle'[q] = k,
         \A k \in hidden' : OpenThen(k)
  PROVE  Owned'
PROOF
  BY DEF Owned, HasHandle, Opened, OpenThen

LEMMA OwnedInitializes ==
  ASSUME PeakInv, NEW o \in Objects, Initializes(o)
  PROVE  ObjectsTyped' /\ Owned'
PROOF
  <1>1. CASE (UNCHANGED state \/ Prepares) /\ UNCHANGED objVars
    <2>1. \A h \in Handle : can'[h].board = can[h].board
      BY <1>1, PlainKeepsBoards DEF Plain, PeakInv
    <2> QED
      BY <1>1, <2>1, OwnedSame DEF objVars, PeakInv, ObjectsTyped
  <1>2. ASSUME NEW b \in Boards, NEW mode \in Modes, Opens(b, mode, "none"),
               m_Handle' = [m_Handle EXCEPT ![o] = FirstFree(Table)],
               asked' = [asked EXCEPT ![o] = NoFilter],
               hidden' = IF HasHandle(o) THEN hidden \cup {m_Handle[o]} ELSE hidden
        PROVE  ObjectsTyped' /\ Owned'
    <2> DEFINE h == FirstFree(Table)
    <2>1. h \in Handle /\ ~Opened(h)
      BY <1>2, FreeHandle, TableFacts DEF Opens, Opened, PeakInv
    <2>2. can'[h].board # NONEBUS /\ \A k \in Handle \ {h} : can'[k].board = can[k].board
      <3>1. can' = [Table EXCEPT ![h] = Take(Table[h], b, mode, "none")]
            /\ Table \in [Handle -> Slot] /\ b # NONEBUS
        BY <1>2, TableFacts, CanApiAssumption DEF Opens, PeakInv
      <3>2. Take(Table[h], b, mode, "none").board = b
        BY <2>1, <3>1, TakeRecord, PeakCanAssumption
      <3> HIDE DEF h
      <3> QED
        BY <2>1, <3>1, <3>2, TableFacts DEF PeakInv
    <2>3. HasHandle(o) => m_Handle[o] \in Handle
      BY DEF PeakInv, Owned, Opened
    <2> HIDE DEF h
    <2>4. ObjectsTyped'
      BY <1>2, <2>1, <2>3 DEF PeakInv, ObjectsTyped, NoFilter, h
    <2>5. /\ m_Handle'[o] = h /\ \A q \in Objects \ {o} : m_Handle'[q] = m_Handle[q]
          /\ \A q \in Objects : m_Handle[q] # h
          /\ h >= 0 /\ h \notin hidden
      BY <1>2, <2>1 DEF PeakInv, ObjectsTyped, Owned, Handle, HasHandle, h
    <2>6. \A k \in Handle : OpenThen(k) <=> Opened(k) \/ k = h
      BY <2>1, <2>2 DEF Opened, OpenThen
    <2>7. \A q \in Objects : m_Handle'[q] >= 0 => OpenThen(m_Handle'[q]) /\ m_Handle'[q] \notin hidden'
      BY <1>2, <2>1, <2>5, <2>6 DEF PeakInv, Owned, HasHandle, Opened
    <2>8. \A q, p \in Objects : m_Handle'[q] >= 0 /\ m_Handle'[q] = m_Handle'[p] => q = p
      BY <2>5 DEF PeakInv, Owned, HasHandle
    <2>9. \A k \in Handle : OpenThen(k) => k \in hidden' \/ \E q \in Objects : m_Handle'[q] = k
      <3> SUFFICES ASSUME NEW k \in Handle, Opened(k), k \notin hidden', k # h
                   PROVE  \E q \in Objects : m_Handle'[q] = k
        BY <2>5, <2>6
      <3>1. PICK q \in Objects : m_Handle[q] = k
        BY <1>2 DEF PeakInv, Owned
      <3>2. q # o
        BY <1>2, <3>1 DEF HasHandle, Handle
      <3> QED
        BY <2>5, <3>1, <3>2
    <2>10. \A k \in hidden' : OpenThen(k)
      BY <1>2, <2>3, <2>6 DEF PeakInv, Owned, ObjectsTyped
    <2> QED
      BY <2>4, <2>7, <2>8, <2>9, <2>10, OwnedIntro
  <1> QED
    BY <1>1, <1>2, InitializesKind

LEMMA OwnedReleases ==
  ASSUME PeakInv, NEW o \in Objects, Releases(o)
  PROVE  ObjectsTyped' /\ Owned'
PROOF
  <1> DEFINE h == m_Handle[o]
  <1>1. /\ Forgets(o) /\ HasHandle(o)
        /\ \/ ~Succeeds /\ UNCHANGED state
           \/ Succeeds /\ h \in Handle /\ Closes({h})
    BY ReleasesKind DEF PeakInv
  <1>2. h \in Handle /\ h >= 0 /\ Opened(h) /\ h \notin hidden
        /\ \A q \in Objects \ {o} : m_Handle[q] # h
    BY <1>1 DEF PeakInv, Owned, HasHandle, Opened
  <1> HIDE DEF h
  <1>3. ObjectsTyped'
    BY <1>1, <1>2, SMTT(60) DEF PeakInv, ObjectsTyped, NoFilter, Forgets, Closed, Asks, h
  <1>4. CASE m_Handle' = m_Handle
    <2>1. ~Succeeds /\ UNCHANGED <<state, m_Handle, hidden>>
      <3>1. [m_Handle EXCEPT ![o] = -1] # m_Handle
        BY <1>2 DEF PeakInv, ObjectsTyped, h
      <3> QED
        BY <1>1, <1>4, <3>1 DEF Forgets, Closed
    <2> QED
      BY <1>3, <2>1, OwnedSame DEF state
  <1>5. ASSUME m_Handle' = [m_Handle EXCEPT ![o] = -1],
               \/ UNCHANGED can /\ hidden' = hidden \cup {h}
               \/ Closes({h}) /\ hidden' = hidden
        PROVE  Owned'
    <2>1. /\ m_Handle'[o] = -1 /\ \A q \in Objects \ {o} : m_Handle'[q] = m_Handle[q]
      BY <1>5 DEF PeakInv, ObjectsTyped
    <2>2. \A k \in Handle : OpenThen(k) <=> Opened(k) /\ (k = h => h \in hidden')
      <3>1. CASE Closes({h}) /\ hidden' = hidden
        <4>1. can'[h].board = NONEBUS /\ \A k \in Handle \ {h} : can'[k] = can[k]
          BY <1>2, <3>1, SlotRecords DEF Closes, CloseAll, PeakInv, Inv, TypeOK
        <4> QED
          BY <1>2, <3>1, <4>1 DEF Opened, OpenThen
      <3> QED
        BY <1>2, <1>5, <3>1 DEF Opened, OpenThen
    <2>3. hidden \subseteq hidden' /\ hidden' \subseteq hidden \cup {h}
      BY <1>5
    <2>4. \A q \in Objects : m_Handle'[q] >= 0 => OpenThen(m_Handle'[q]) /\ m_Handle'[q] \notin hidden'
      <3> SUFFICES ASSUME NEW q \in Objects, m_Handle'[q] >= 0
                   PROVE  OpenThen(m_Handle'[q]) /\ m_Handle'[q] \notin hidden'
        OBVIOUS
      <3>1. q # o /\ m_Handle'[q] = m_Handle[q] /\ HasHandle(q)
        BY <2>1 DEF HasHandle
      <3>2. Opened(m_Handle[q]) /\ m_Handle[q] \notin hidden /\ m_Handle[q] # h
            /\ m_Handle[q] \in Handle
        BY <1>2, <3>1 DEF PeakInv, Owned, Opened
      <3> QED
        BY <2>2, <2>3, <3>1, <3>2
    <2>5. \A q, p \in Objects : m_Handle'[q] >= 0 /\ m_Handle'[q] = m_Handle'[p] => q = p
      BY <2>1 DEF PeakInv, Owned, HasHandle
    <2>6. \A k \in Handle : OpenThen(k) => k \in hidden' \/ \E q \in Objects : m_Handle'[q] = k
      <3> SUFFICES ASSUME NEW k \in Handle, OpenThen(k), k \notin hidden'
                   PROVE  \E q \in Objects : m_Handle'[q] = k
        OBVIOUS
      <3>1. Opened(k) /\ k # h /\ k \notin hidden
        BY <2>2, <2>3
      <3>2. PICK q \in Objects : m_Handle[q] = k
        BY <3>1 DEF PeakInv, Owned
      <3> QED
        BY <2>1, <3>1, <3>2 DEF h
    <2>7. \A k \in hidden' : OpenThen(k)
      <3> SUFFICES ASSUME NEW k \in hidden' PROVE OpenThen(k)
        OBVIOUS
      <3>1. k \in Handle /\ Opened(k)
        BY <1>2, <2>3 DEF PeakInv, Owned, ObjectsTyped
      <3> QED
        BY <2>2, <3>1
    <2> QED
      BY <2>4, <2>5, <2>6, <2>7, OwnedIntro
  <1>6. CASE m_Handle' # m_Handle
    <2>1. m_Handle' = [m_Handle EXCEPT ![o] = -1]
      BY <1>1, <1>6 DEF Forgets, Closed
    <2>2. \/ UNCHANGED can /\ hidden' = hidden \cup {h}
          \/ Closes({h}) /\ hidden' = hidden
      BY <1>1, <1>6 DEF Forgets, state, h
    <2> QED
      BY <1>3, <1>5, <2>1, <2>2
  <1> QED
    BY <1>3, <1>4, <1>6

LEMMA PeakInvNext == PeakInv /\ [PeakNext]_peakVars => PeakInv'
PROOF
  <1> SUFFICES ASSUME PeakInv, [PeakNext]_peakVars PROVE PeakInv'
    OBVIOUS
  <1>1. Inv'
    BY MethodKinds, InvKinds DEF PeakInv
  <1>2. ASSUME Plain, UNCHANGED objVars PROVE ObjectsTyped' /\ Owned'
    BY <1>2, PlainKeepsBoards, OwnedSame DEF PeakInv, ObjectsTyped, objVars
  <1>3. ASSUME NEW o \in Objects, Initializes(o) \/ Releases(o)
        PROVE  ObjectsTyped' /\ Owned'
    BY <1>3, OwnedInitializes, OwnedReleases
  <1>4. ASSUME NEW o \in Objects, SetsFilter(o) \/ (Idle /\ ResetFilters(o))
        PROVE  ObjectsTyped' /\ Owned'
    <2>1. /\ Plain \/ \E h, f, g : Filters(h, f, g)
          /\ UNCHANGED <<m_Handle, hidden>>
          /\ \/ UNCHANGED asked
             \/ asked' = [asked EXCEPT ![o] = NoFilter]
             \/ \E kind \in {"STD", "XTD"}, value \in FilterArgs :
                  asked' = [asked EXCEPT ![o] = [kind |-> kind, value |-> value]]
      BY <1>4, SetsKind, ResetsKind DEF Plain, objVars, PeakInv, Inv
    <2>2. ObjectsTyped'
      BY <2>1, CanApiAssumption, SMTT(60) DEF PeakInv, ObjectsTyped, NoFilter
    <2> QED
      BY <2>1, <2>2, PlainKeepsBoards, OwnedSame DEF PeakInv
  <1>5. ObjectsTyped' /\ Owned'
    BY <1>2, <1>3, <1>4, Methods DEF PeakInv, Inv, ObjectsTyped, objVars
  <1> QED
    BY <1>1, <1>5 DEF PeakInv

LEMMA Accounting == PeakInv => HandlesAccounted
PROOF
  <1> SUFFICES ASSUME PeakInv PROVE HandlesAccounted
    OBVIOUS
  <1>1. PeakTypeOK
    BY DEF PeakInv, Inv, ObjectsTyped, PeakTypeOK
  <1>2. ASSUME NEW h \in Handle, h \in hidden PROVE Opened(h) /\ Owners(h) = {}
    BY <1>2 DEF PeakInv, Owned, ObjectsTyped, Owners, HasHandle, Handle
  <1>3. ASSUME NEW h \in Handle, h \notin hidden, ~Opened(h) PROVE Cardinality(Owners(h)) = 0
    <2>1. Owners(h) = {}
      BY <1>3 DEF PeakInv, Owned, Owners, HasHandle, Handle
    <2> QED
      BY <2>1, FS_EmptySet
  <1>4. ASSUME NEW h \in Handle, h \notin hidden, Opened(h) PROVE Cardinality(Owners(h)) = 1
    <2>1. PICK o \in Objects : m_Handle[o] = h
      BY <1>4 DEF PeakInv, Owned
    <2>2. Owners(h) = {o}
      BY <2>1 DEF PeakInv, Owned, Owners, HasHandle, Handle
    <2> QED
      BY <2>2, FS_Singleton
  <1> QED
    BY <1>1, <1>2, <1>3, <1>4 DEF HandlesAccounted

(* Every open handle belongs to exactly one object, or one forgot it, for  *)
(* every number of objects and handles and whatever calls fail: no object  *)
(* ever has a handle that is closed or that another one has.               *)
THEOREM ObjectsOwnHandles == PeakSpec => []HandlesAccounted
PROOF
  BY PeakInvInit, PeakInvNext, Accounting, PTL DEF PeakSpec

(* Also the class changes an acceptance filter only while the handle is    *)
(* stopped, in the wrapper and in the driver.                              *)
THEOREM ClassKeepsFilters == PeakSpec => FilterFrozen
PROOF
  <1>1. PeakInv /\ [PeakNext]_peakVars => [Frozen]_vars
    BY MethodKinds, FrozenKinds DEF PeakInv
  <1> QED
    BY <1>1, PeakInvInit, PeakInvNext, PTL DEF PeakSpec, FilterFrozen, Frozen
-------------------------------------------------------------------------------
(* A handle has a filter in the wrapper, and in the driver while its       *)
(* channel is up.  A channel that can_start leaves up after a failure      *)
(* would be one with another filter.                                       *)
HasFilter(h, f) ==
  /\ can[h].filter = f
  /\ pcan[Board(h)].up => pcan[Board(h)].filter = f

LEMMA FilterStays ==
  ASSUME Inv, "uninitialize" \notin Faults,
         NEW h \in Handle, Opened(h), NEW f \in Filter, f.mode # "OFF", HasFilter(h, f),
         \/ Untouched(h)
         \/ Aborts(h) \/ Starts(h) \/ Stops(h)
         \/ \E new \in Slot : Carries(h, new)
  PROVE  HasFilter(h, f)'
PROOF
  <1>1. /\ can[h] \in Slot /\ Board(h) \in Boards /\ pcan[Board(h)] \in DriverChannel
        /\ can \in [Handle -> Slot] /\ pcan \in [Boards -> DriverChannel]
    BY OpenFacts DEF Inv, TypeOK
  <1>2. ASSUME can'[h].filter = f, can'[h].board = Board(h),
               NEW ch, Driven(Board(h), ch), ch.up => ch.filter = f
        PROVE  HasFilter(h, f)'
    BY <1>1, <1>2 DEF HasFilter, Driven, Board
  <1>3. CASE Untouched(h)
    BY <1>3 DEF Untouched, HasFilter, Board
  <1>4. CASE Aborts(h)
    <2>1. can'[h].filter = f /\ can'[h].board = Board(h)
      BY <1>1, <1>4 DEF Aborts, Slot, HasFilter, Board
    <2>2. \/ Driven(Board(h), pcan[Board(h)])
          \/ Driven(Board(h), Down)
          \/ Driven(Board(h), Quiet(h))
      BY <1>4 DEF Aborts
    <2>3. ~Down.up /\ ~Quiet(h).up
      BY QuietRecord DEF Down
    <2> QED
      BY <1>2, <2>1, <2>2, <2>3 DEF HasFilter
  <1>5. CASE Starts(h)
    <2> DEFINE ch == [CAN_Initialize(Quiet(h)) EXCEPT !.filter = StartFilter(can[h].filter)]
    <2>1. can'[h].filter = f /\ can'[h].board = Board(h)
      BY <1>1, <1>5, SlotRecords DEF Starts, HasFilter, Board
    <2>2. Driven(Board(h), ch) /\ StartFilter(can[h].filter) = f
      BY <1>5 DEF Starts, StartFilter, HasFilter
    <2>3. CAN_Initialize(Quiet(h)) \in DriverChannel
      BY QuietRecord, ChannelRecords
    <2>4. ch.filter = f
      BY <2>2, <2>3, ChannelRecords
    <2> HIDE DEF ch
    <2> QED
      BY <1>2, <2>1, <2>2, <2>4
  <1>6. CASE Stops(h)
    <2>1. can'[h].filter = f /\ can'[h].board = Board(h)
      BY <1>1, <1>6 DEF Stops, Slot, HasFilter, Board
    <2>2. \/ Driven(Board(h), Deaf(pcan[Board(h)]))
          \/ Driven(Board(h), Mute(pcan[Board(h)]))
      BY <1>6 DEF Stops
    <2>3. /\ Deaf(pcan[Board(h)]).up = pcan[Board(h)].up
          /\ Deaf(pcan[Board(h)]).filter = pcan[Board(h)].filter
          /\ Mute(pcan[Board(h)]).up = pcan[Board(h)].up
          /\ Mute(pcan[Board(h)]).filter = pcan[Board(h)].filter
      BY <1>1 DEF Deaf, Mute, DriverChannel
    <2> QED
      BY <1>2, <2>1, <2>2, <2>3 DEF HasFilter
  <1>7. CASE \E new \in Slot : Carries(h, new)
    <2>1. can'[h].filter = f /\ can'[h].board = Board(h) /\ UNCHANGED pcan
      BY <1>1, <1>7 DEF Carries, HasFilter
    <2> QED
      BY <2>1 DEF HasFilter, Board
  <1> QED
    BY <1>3, <1>4, <1>5, <1>6, <1>7

(* The filter an object asked for, as wrapper and driver keep it. *)
Wanted(a) == [mode |-> a.kind, mask |-> Inverted(a.value, a.kind)]

FiltersKept ==
  \A o \in Objects : HasHandle(o) /\ asked[o].kind # "OFF" => HasFilter(m_Handle[o], Wanted(asked[o]))

LEMMA WantedFilter ==
  ASSUME ObjectsTyped, NEW o \in Objects, asked[o].kind # "OFF"
  PROVE  Wanted(asked[o]) \in Filter /\ Wanted(asked[o]).mode # "OFF"
PROOF
  <1>1. asked[o].kind \in {"STD", "XTD"} /\ asked[o].value \in SUBSET FilterBit
    BY DEF ObjectsTyped
  <1> QED
    BY <1>1 DEF Wanted, Filter, Inverted, XorMask, FilterBit

(* An object that still has its handle and asked for no other filter has   *)
(* the one it had, whatever becomes of other handles.                      *)
LEMMA FilterKept ==
  ASSUME PeakInv, FiltersKept, "uninitialize" \notin Faults,
         NEW o \in Objects, HasHandle(o), asked[o].kind # "OFF",
         m_Handle'[o] = m_Handle[o], asked'[o] = asked[o],
         Untouched(m_Handle[o]) \/ Plain
  PROVE  HasFilter(m_Handle[o], Wanted(asked[o]))'
PROOF
  <1>1. PICK h \in Handle : h = m_Handle[o] /\ Opened(h)
    BY DEF PeakInv, Owned, Opened
  <1>2. PICK f \in Filter : f = Wanted(asked[o]) /\ f.mode # "OFF"
    BY WantedFilter DEF PeakInv
  <1>3. Inv /\ HasFilter(h, f)
    BY <1>1, <1>2 DEF PeakInv, FiltersKept
  <1>4. \/ Untouched(h)
        \/ Aborts(h) \/ Starts(h) \/ Stops(h)
        \/ \E new \in Slot : Carries(h, new)
    <2>1. CASE UNCHANGED state
      BY <2>1 DEF state, Untouched, Board
    <2>2. CASE Prepares
      BY <1>1, <1>3, <2>2, ApartNew
    <2>3. ASSUME NEW k \in Handle, k # h,
                 Aborts(k) \/ Starts(k) \/ Stops(k) \/ \E new \in Slot : Carries(k, new)
          PROVE  Untouched(h)
      BY <1>1, <1>3, <2>3, ApartKinds
    <2> QED
      BY <1>1, <2>1, <2>2, <2>3 DEF Plain
  <1>5. HasFilter(h, f)'
    BY <1>1, <1>2, <1>3, <1>4, FilterStays
  <1> QED
    BY <1>1, <1>2, <1>5 DEF HasFilter, Board, Wanted

KeptAt(o) ==
  m_Handle'[o] >= 0 /\ asked'[o].kind # "OFF" => HasFilter(m_Handle[o], Wanted(asked[o]))'

LEMMA KeptInitializes ==
  ASSUME PeakInv, FiltersKept, "uninitialize" \notin Faults,
         NEW o \in Objects, Initializes(o), NEW q \in Objects
  PROVE  KeptAt(q)
PROOF
  <1> SUFFICES ASSUME m_Handle'[q] >= 0, asked'[q].kind # "OFF"
               PROVE  HasFilter(m_Handle[q], Wanted(asked[q]))'
    BY DEF KeptAt
  <1>1. CASE (UNCHANGED state \/ Prepares) /\ UNCHANGED objVars
    BY <1>1, FilterKept DEF objVars, Plain, HasHandle
  <1>2. ASSUME NEW b \in Boards, NEW mode \in Modes, Opens(b, mode, "none"),
               m_Handle' = [m_Handle EXCEPT ![o] = FirstFree(Table)],
               asked' = [asked EXCEPT ![o] = NoFilter]
        PROVE  HasFilter(m_Handle[q], Wanted(asked[q]))'
    <2>1. q # o
      BY <1>2 DEF PeakInv, ObjectsTyped, NoFilter
    <2>2. m_Handle'[q] = m_Handle[q] /\ asked'[q] = asked[q] /\ HasHandle(q)
      BY <1>2, <2>1 DEF HasHandle
    <2>3. Opened(m_Handle[q]) /\ m_Handle[q] \in Handle
      BY <2>2 DEF PeakInv, Owned, Opened
    <2>4. \A k \in Handle : Opened(k) => Untouched(k)
      BY <1>2, ApartNew, PeakCanAssumption DEF PeakInv
    <2> QED
      BY <2>2, <2>3, <2>4, FilterKept
  <1> QED
    BY <1>1, <1>2, InitializesKind

LEMMA KeptReleases ==
  ASSUME PeakInv, FiltersKept, "uninitialize" \notin Faults,
         NEW o \in Objects, Releases(o), NEW q \in Objects
  PROVE  KeptAt(q)
PROOF
  <1> SUFFICES ASSUME m_Handle'[q] >= 0, asked'[q].kind # "OFF"
               PROVE  HasFilter(m_Handle[q], Wanted(asked[q]))'
    BY DEF KeptAt
  <1>1. /\ Forgets(o) /\ HasHandle(o)
        /\ \/ ~Succeeds /\ UNCHANGED state
           \/ Succeeds /\ m_Handle[o] \in Handle /\ Closes({m_Handle[o]})
    BY ReleasesKind DEF PeakInv
  <1>2. \/ q # o
        \/ ~Succeeds
    BY <1>1 DEF Forgets, Closed, PeakInv, ObjectsTyped
  <1>3. m_Handle'[q] = m_Handle[q] /\ asked'[q] = asked[q] /\ HasHandle(q)
    BY <1>1, <1>2 DEF Forgets, Closed, Asks, PeakInv, ObjectsTyped, HasHandle, NoFilter
  <1>4. CASE UNCHANGED state
    BY <1>3, <1>4, FilterKept DEF Plain
  <1>5. CASE q # o /\ m_Handle[o] \in Handle /\ Closes({m_Handle[o]})
    <2>1. /\ m_Handle[q] \in Handle /\ Opened(m_Handle[q]) /\ m_Handle[q] # m_Handle[o]
      BY <1>3, <1>5 DEF PeakInv, Owned, Opened
    <2>2. PICK h \in Handle, k \in Handle : h = m_Handle[q] /\ k = m_Handle[o]
      BY <1>5, <2>1
    <2>3. can'[h] = can[h]
      BY <1>5, <2>1, <2>2 DEF Closes, CloseAll
    <2>4. can'[h].board = NONEBUS \/ (can'[h] = can[h] /\ (Opened(h) => Untouched(h)))
      BY <1>5, <2>2, CloseFacts DEF PeakInv
    <2>5. Untouched(m_Handle[q])
      BY <2>1, <2>2, <2>3, <2>4 DEF Opened
    <2> QED
      BY <1>3, <2>5, FilterKept
  <1> QED
    BY <1>1, <1>2, <1>4, <1>5

(* Setting the filter of a handle. *)
LEMMA FilterSet ==
  ASSUME Inv, NEW h \in Handle, NEW f \in Filter, NEW g \in Filter, Filters(h, f, g)
  PROVE  /\ f = g => HasFilter(h, f)'
         /\ \A k \in Handle : Opened(k) /\ k # h => Untouched(k)
PROOF
  <1>1. Opened(h) /\ can[h] \in Slot /\ Board(h) \in Boards /\ pcan[Board(h)] \in DriverChannel
    BY OpenFacts DEF Filters, On
  <1>2. can'[h].filter = f /\ can'[h].board = Board(h)
    BY <1>1 DEF Filters, Slot, Inv, TypeOK, Board
  <1>3. pcan'[Board(h)].filter = g
    BY <1>1 DEF Filters, DriverChannel, Inv, TypeOK
  <1>4. \A k \in Handle : Opened(k) /\ k # h => Untouched(k)
    BY ApartKinds
  <1> QED
    BY <1>2, <1>3, <1>4 DEF HasFilter, Board

LEMMA KeptSets ==
  ASSUME PeakInv, FiltersKept, "uninitialize" \notin Faults,
         NEW o \in Objects, SetsFilter(o) \/ (Idle /\ ResetFilters(o)), NEW q \in Objects
  PROVE  KeptAt(q)
PROOF
  <1> SUFFICES ASSUME m_Handle'[q] >= 0, asked'[q].kind # "OFF"
               PROVE  HasFilter(m_Handle[q], Wanted(asked[q]))'
    BY DEF KeptAt
  <1>1. CASE UNCHANGED state /\ UNCHANGED objVars
    BY <1>1, FilterKept DEF objVars, Plain, HasHandle
  <1>2. ASSUME NEW f \in Filter, NEW g \in Filter, NEW a,
               m_Handle[o] \in Handle, Filters(m_Handle[o], f, g),
               asked' = [asked EXCEPT ![o] = a], UNCHANGED <<m_Handle, hidden>>,
               a.kind = "OFF" \/ (f = g /\ f = Wanted(a))
        PROVE  HasFilter(m_Handle[q], Wanted(asked[q]))'
    <2>1. PICK h \in Handle : h = m_Handle[o]
      BY <1>2
    <2>2. /\ f = g => HasFilter(h, f)'
          /\ \A k \in Handle : Opened(k) /\ k # h => Untouched(k)
      BY <1>2, <2>1, FilterSet DEF PeakInv
    <2>3. CASE q = o
      <3>1. asked'[q] = a /\ f = g /\ f = Wanted(a) /\ m_Handle'[q] = h
        BY <1>2, <2>1, <2>3 DEF PeakInv, ObjectsTyped
      <3> QED
        BY <2>2, <3>1 DEF HasFilter, Board, Wanted
    <2>4. CASE q # o
      <3>1. m_Handle'[q] = m_Handle[q] /\ asked'[q] = asked[q] /\ HasHandle(q)
        BY <1>2, <2>4 DEF HasHandle
      <3>2. m_Handle[q] \in Handle /\ Opened(m_Handle[q]) /\ m_Handle[q] # h
        BY <2>1, <2>4, <3>1 DEF PeakInv, Owned, Opened
      <3> QED
        BY <2>2, <3>1, <3>2, FilterKept
    <2> QED
      BY <2>3, <2>4
  <1>3. ASSUME SetsFilter(o), ~(UNCHANGED state /\ UNCHANGED objVars)
        PROVE  HasFilter(m_Handle[q], Wanted(asked[q]))'
    <2>1. PICK kind \in {"STD", "XTD"}, value \in FilterArgs :
            LET f == [mode |-> kind, mask |-> Inverted(value, kind)]
            IN  /\ f \in Filter /\ m_Handle[o] \in Handle /\ Filters(m_Handle[o], f, f)
                /\ asked' = [asked EXCEPT ![o] = [kind |-> kind, value |-> value]]
                /\ UNCHANGED <<m_Handle, hidden>>
      BY <1>3, SetsKind
    <2> DEFINE a == [kind |-> kind, value |-> value]
               f == [mode |-> kind, mask |-> Inverted(value, kind)]
    <2>2. f = Wanted(a)
      BY DEF Wanted
    <2> HIDE DEF a, f
    <2> QED
      BY <1>2, <2>1, <2>2 DEF a, f
  <1>4. ASSUME Idle, ResetFilters(o), ~(UNCHANGED state /\ UNCHANGED objVars)
        PROVE  HasFilter(m_Handle[q], Wanted(asked[q]))'
    BY <1>2, <1>4, ResetsKind, Constants DEF NoFilter, PeakInv, Inv
  <1> QED
    BY <1>1, <1>3, <1>4

LEMMA KeptNext ==
  ASSUME PeakInv, FiltersKept, "uninitialize" \notin Faults, [PeakNext]_peakVars
  PROVE  FiltersKept'
PROOF
  <1>1. ASSUME Plain, UNCHANGED objVars, NEW q \in Objects PROVE KeptAt(q)
    BY <1>1, FilterKept DEF KeptAt, objVars, HasHandle
  <1>2. \A q \in Objects : KeptAt(q)
    BY <1>1, KeptInitializes, KeptReleases, KeptSets, Methods DEF PeakInv, Inv
  <1> QED
    BY <1>2 DEF FiltersKept, KeptAt, HasHandle

(* What the wrapper inverts it inverts back. *)
LEMMA InvertedTwice ==
  ASSUME NEW value \in SUBSET FilterBit, NEW kind
  PROVE  Inverted(Inverted(value, kind), kind) = value
PROOF
  BY DEF Inverted

LEMMA ReadBack == PeakInv /\ FiltersKept => FilterReadBack
PROOF
  <1> SUFFICES ASSUME PeakInv, FiltersKept, NEW o \in Objects, HasHandle(o),
                      asked[o].kind # "OFF", pcan[can[m_Handle[o]].board].up,
                      NEW kind \in {"STD", "XTD"}
               PROVE  FilterRead(m_Handle[o], kind)
                        = IF kind = asked[o].kind THEN asked[o].value ELSE {}
    BY DEF FilterReadBack
  <1>1. asked[o].kind \in {"STD", "XTD"} /\ asked[o].value \in SUBSET FilterBit
    BY DEF PeakInv, ObjectsTyped
  <1>2. /\ can[m_Handle[o]].filter = Wanted(asked[o])
        /\ pcan[can[m_Handle[o]].board].filter = Wanted(asked[o])
    BY DEF FiltersKept, HasFilter, Board
  <1>3. /\ Wanted(asked[o]).mode = asked[o].kind
        /\ Wanted(asked[o]).mask = Inverted(asked[o].value, asked[o].kind)
    BY DEF Wanted
  <1> QED
    BY <1>1, <1>2, <1>3, InvertedTwice DEF FilterRead

(* The filter an object set is what it reads back, through starts, stops,  *)
(* failed calls and whatever other objects do, for every number of objects *)
(* and handles, if CAN_Uninitialize does not fail on a channel that is up. *)
THEOREM FiltersReadBack ==
  ASSUME "uninitialize" \notin Faults
  PROVE  PeakSpec => []FilterReadBack
PROOF
  <1>1. PeakInit => PeakInv /\ FiltersKept
    BY PeakInvInit DEF PeakInit, FiltersKept, HasHandle
  <1>2. PeakInv /\ FiltersKept /\ [PeakNext]_peakVars => (PeakInv /\ FiltersKept)'
    BY PeakInvNext, KeptNext
  <1> QED
    BY <1>1, <1>2, ReadBack, PTL DEF PeakSpec
===============================================================================
