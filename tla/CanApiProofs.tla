----------------------------- MODULE CanApiProofs -----------------------------
(***************************************************************************)
(* Theorems of CanApi, for every number of handles, every set of channels  *)
(* and every set of failing driver calls.                                  *)
(*                                                                         *)
(* The steps of the library are first sorted into a few kinds by their     *)
(* effect on the state (lemma Effects); each invariant is then shown to    *)
(* survive every kind.                                                     *)
(***************************************************************************)
EXTENDS CanApi, WellFoundedInduction, TLAPS

(* What calls read: ret is only told to the client. *)
state == <<init, can, pcan, call>>

(* The board and the channel of a handle, and a step that puts a record on *)
(* the channel.                                                            *)
Board(h) == can[h].board

Driven(b, ch) == pcan' = [pcan EXCEPT ![b] = ch]

(* can_test, and can_init until it takes a handle. *)
Prepares ==
  /\ Idle /\ UNCHANGED call
  /\ can' = Table
  /\ init' = TRUE \/ init' = ~all_closed(Table)
  /\ \/ UNCHANGED pcan
     \/ \E b \in Boards : /\ ~InUse(Table, b)
                          /\ Driven(b, Deaf(pcan[b])) \/ Driven(b, Mute(pcan[b]))

(* can_init that takes a handle *)
Opens(b, mode, param) ==
  /\ Idle /\ UNCHANGED call
  /\ init' = TRUE
  /\ ~InUse(Table, b) /\ InUse(Table, NONEBUS)
  /\ can' = [Table EXCEPT ![FirstFree(Table)] = Take(@, b, mode, param)]
  /\ Driven(b, CAN_Initialize(Mute(pcan[b])))

(* can_exit *)
Closes(hs) ==
  /\ Idle /\ UNCHANGED call
  /\ CloseAll(hs)
  /\ init' = ~all_closed(can')

(* A call on an open handle of an initialized library, and no other. *)
On(h) == Idle /\ init /\ Opened(h) /\ UNCHANGED <<init, call>>

Quiet(h) == [Down EXCEPT !.listen = "MON" \in can[h].mode]

(* can_start that fails after its first driver call *)
Aborts(h) ==
  /\ On(h) /\ Stopped(h)
  /\ UNCHANGED can \/ can' = [can EXCEPT ![h].fdes = Board(h)]
  /\ \/ Driven(Board(h), pcan[Board(h)])
     \/ Driven(Board(h), Down)
     \/ Driven(Board(h), Quiet(h))
     \/ "uninitialize" \in Faults /\ Driven(Board(h), CAN_Initialize(Quiet(h)))

(* can_start that succeeds *)
Starts(h) ==
  /\ On(h) /\ Stopped(h)
  /\ can' = [can EXCEPT ![h] = StartSlot(@)]
  /\ Driven(Board(h), [CAN_Initialize(Quiet(h)) EXCEPT !.filter = StartFilter(can[h].filter)])

(* can_reset that succeeds, or fails half-way *)
Stops(h) ==
  /\ On(h) /\ ~Stopped(h)
  /\ \/ UNCHANGED can /\ Driven(Board(h), Deaf(pcan[Board(h)]))
     \/ /\ can' = [can EXCEPT ![h].status = @ \cup {"can_stopped"}]
        /\ Driven(Board(h), Mute(pcan[Board(h)]))

(* Calls that move frames or read the status register of a running handle. *)
Carries(h, new) ==
  /\ init /\ Opened(h) /\ ~Stopped(h)
  /\ UNCHANGED <<init, pcan>>
  /\ can' = [can EXCEPT ![h] = new]
  /\ new.board = Board(h) /\ new.mode = can[h].mode
  /\ new.fdes = can[h].fdes /\ new.filter = can[h].filter
  /\ "can_stopped" \notin new.status
  /\ call' = NoCall \/ call' \in [h : {h}, buf : SUBSET FrameBit]

(* can_property that sets or resets the acceptance filter *)
Filters(h, f, g) ==
  /\ On(h) /\ Stopped(h) /\ pcan[Board(h)].up
  /\ can' = [can EXCEPT ![h].filter = f]
  /\ pcan' = [pcan EXCEPT ![Board(h)].filter = g]
-------------------------------------------------------------------------------
(* Constants of the table and the driver have their types. *)
LEMMA Constants ==
  /\ Blank \in Slot
  /\ Down \in DriverChannel
  /\ OpenFilter \in Filter
  /\ Handle \subseteq Int
PROOF
  BY CanApiAssumption DEF Blank, Slot, Down, DriverChannel, OpenFilter, Filter, Handle, StatusBit

(* A call that is refused changes no state. *)
LEMMA Refusals ==
  ASSUME NEW op, NEW h, NEW rc
  PROVE  /\ Reject(op, h, rc) => UNCHANGED state
         /\ RefuseHandle(op, h) => UNCHANGED state
PROOF
  BY DEF Reject, RefuseHandle, state

LEMMA TestEffect ==
  ASSUME Idle, NEW b, NEW mode, can_test(b, mode)
  PROVE  UNCHANGED state \/ Prepares
PROOF
  BY Refusals DEF can_test, Prepares

LEMMA InitEffect ==
  ASSUME Idle, NEW b, NEW mode, NEW param, can_init(b, mode, param)
  PROVE  UNCHANGED state \/ Prepares \/ (b \in Boards /\ Opens(b, mode, param))
PROOF
  BY Refusals, Zenon DEF can_init, Prepares, Opens, Driven

LEMMA ExitEffect ==
  ASSUME Idle, NEW h, can_exit(h)
  PROVE  UNCHANGED state \/ \E hs \in SUBSET Handle : Closes(hs)
PROOF
  BY Refusals DEF can_exit, Closes, Opened

LEMMA KillEffect ==
  ASSUME NEW h, can_kill(h)
  PROVE  UNCHANGED state
PROOF
  BY Refusals DEF can_kill

LEMMA QueryEffect ==
  ASSUME NEW h, NEW kind, can_bitrate(h) \/ can_property(h, kind) \/ get_filter(h, kind)
  PROVE  UNCHANGED state
PROOF
  BY Refusals DEF can_bitrate, can_property, lib_parameter, drv_parameter, get_filter

LEMMA StartEffect ==
  ASSUME Idle, NEW h, NEW br, can_start(h, br)
  PROVE  UNCHANGED state \/ Aborts(h) \/ Starts(h)
PROOF
  BY Refusals DEF can_start, Aborts, Starts, On, Driven, Board, Quiet

LEMMA ResetEffect ==
  ASSUME Idle, NEW h, can_reset(h)
  PROVE  UNCHANGED state \/ Stops(h)
PROOF
  BY Refusals DEF can_reset, Stops, On, Driven, Board

(* What a pass of can_read does to a slot keeps it one that is running on  *)
(* the same channel.                                                       *)
Same(slot, new) ==
  /\ new.board = slot.board /\ new.mode = slot.mode
  /\ new.fdes = slot.fdes /\ new.filter = slot.filter
  /\ "can_stopped" \in new.status <=> "can_stopped" \in slot.status

(* Storing a status register that does not start or stop the handle.       *)
LEMMA WithStatus ==
  ASSUME NEW slot \in Slot, NEW st \in SUBSET StatusBit,
         "can_stopped" \in st <=> "can_stopped" \in slot.status
  PROVE  LET new == [slot EXCEPT !.status = st]
         IN  /\ new \in Slot /\ Same(slot, new)
             /\ new.tx = slot.tx /\ new.rx = slot.rx /\ new.err = slot.err
PROOF
  BY DEF Slot, Same

(* The same, with an error code or with a transmit counter.                *)
LEMMA WithMore ==
  ASSUME NEW slot \in Slot, NEW st \in SUBSET StatusBit,
         "can_stopped" \in st <=> "can_stopped" \in slot.status,
         NEW lec \in BOOLEAN, NEW tx \in 0 .. MaxCount
  PROVE  LET coded == [slot EXCEPT !.lec = lec, !.status = st]
             sent  == [slot EXCEPT !.status = st, !.tx = tx]
         IN  /\ coded \in Slot /\ Same(slot, coded)
             /\ coded.rx = slot.rx /\ coded.err = slot.err
             /\ sent \in Slot /\ Same(slot, sent)
PROOF
  BY ZenonT(90) DEF Slot, Same

LEMMA NoteKeeps ==
  ASSUME NEW slot \in Slot, NEW f
  PROVE  Note(slot, f) \in Slot /\ Same(slot, Note(slot, f))
         /\ Note(slot, f).rx = slot.rx /\ Note(slot, f).err = slot.err
PROOF
  <1> DEFINE bus == (slot.status \ {"bus_off", "warning_level"})
                      \cup Bits("bus_off", "busoff" \in f)
                      \cup Bits("warning_level", "warning" \in f)
             err == (slot.status \ {"bus_error"}) \cup Bits("bus_error", "lec" \in f)
             lec == "lec" \in f
  <1>1. /\ bus \in SUBSET StatusBit /\ err \in SUBSET StatusBit
        /\ "can_stopped" \in bus <=> "can_stopped" \in slot.status
        /\ "can_stopped" \in err <=> "can_stopped" \in slot.status
    BY DEF Slot, StatusBit, Bits
  <1>5. lec \in BOOLEAN /\ 0 \in 0 .. MaxCount
    BY CanApiAssumption
  <1> HIDE DEF bus, err, lec
  <1>2. CASE Note(slot, f) = slot
    BY <1>2 DEF Same
  <1>3. CASE Note(slot, f) = [slot EXCEPT !.status = bus]
    BY <1>1, <1>3, WithStatus
  <1>4. CASE Note(slot, f) = [slot EXCEPT !.lec = lec, !.status = err]
    <2>1. LET new == [slot EXCEPT !.lec = lec, !.status = err]
          IN  new \in Slot /\ Same(slot, new) /\ new.rx = slot.rx /\ new.err = slot.err
      BY <1>1, <1>5, WithMore, ZenonT(90)
    <2> QED
      BY <1>4, <2>1, SMTT(60)
  <1> QED
    BY <1>2, <1>3, <1>4 DEF Note, bus, err, lec

LEMMA CountedKeeps ==
  ASSUME NEW slot \in Slot, NEW f, slot.rx < MaxCount, slot.err < MaxCount
  PROVE  Counted(slot, f) \in Slot /\ Same(slot, Counted(slot, f))
PROOF
  <1> DEFINE st == slot.status \ {"receiver_empty"}
             rx == IF Info(f) THEN slot.rx ELSE slot.rx + 1
             err == IF Info(f) THEN slot.err + 1 ELSE slot.err
  <1>1. st \in SUBSET StatusBit /\ ("can_stopped" \in st <=> "can_stopped" \in slot.status)
    BY DEF Slot, StatusBit
  <1>2. rx \in 0 .. MaxCount /\ err \in 0 .. MaxCount
    BY CanApiAssumption DEF Slot
  <1>3. Counted(slot, f) = [slot EXCEPT !.status = st, !.rx = rx, !.err = err]
    BY DEF Counted
  <1> HIDE DEF st, rx, err
  <1> QED
    BY <1>1, <1>2, <1>3, ZenonT(90) DEF Slot, Same

LEMMA RefreshKeeps ==
  ASSUME NEW slot \in Slot, NEW sts
  PROVE  Refresh(slot, sts) \in Slot /\ Same(slot, Refresh(slot, sts))
PROOF
  BY DEF Refresh, Slot, Same, StatusBit, Bits

(* A step that stores a slot in place of a running one. *)
LEMMA CarriesIntro ==
  ASSUME TypeOK, NEW h, init, Opened(h), ~Stopped(h),
         NEW new \in Slot, Same(can[h], new),
         can' = [can EXCEPT ![h] = new], UNCHANGED <<init, pcan>>,
         call' = NoCall \/ call' \in [h : {h}, buf : SUBSET FrameBit]
  PROVE  Carries(h, new)
PROOF
  BY DEF Carries, Same, Stopped, Board

LEMMA WriteEffect ==
  ASSUME TypeOK, Idle, NEW h, NEW msg, can_write(h, msg)
  PROVE  UNCHANGED state \/ \E new \in Slot : Carries(h, new)
PROOF
  <1>1. CASE UNCHANGED state
    BY <1>1
  <1>2. ASSUME init, Opened(h), ~Stopped(h), UNCHANGED <<init, pcan, call>>,
               NEW new \in Slot, Same(can[h], new), can' = [can EXCEPT ![h] = new]
        PROVE  Carries(h, new)
    BY <1>2, CarriesIntro DEF Idle
  <1>3. CASE init /\ Opened(h)
    <2> DEFINE slot == can[h]
               busy == [slot EXCEPT !.status = @ \cup {"transmitter_busy"}]
               sent == [slot EXCEPT !.status = @ \ {"transmitter_busy"}, !.tx = @ + 1]
    <2>1. slot \in Slot
      BY <1>3 DEF TypeOK, Opened
    <2>2. busy \in Slot /\ Same(slot, busy)
      <3> DEFINE st == slot.status \cup {"transmitter_busy"}
      <3>1. st \in SUBSET StatusBit /\ ("can_stopped" \in st <=> "can_stopped" \in slot.status)
        BY <2>1 DEF Slot, StatusBit
      <3> HIDE DEF st
      <3> QED
        BY <2>1, <3>1, WithStatus DEF st
    <2>3. slot.tx < MaxCount => sent \in Slot /\ Same(slot, sent)
      <3> DEFINE st == slot.status \ {"transmitter_busy"}
      <3>1. st \in SUBSET StatusBit /\ ("can_stopped" \in st <=> "can_stopped" \in slot.status)
        BY <2>1 DEF Slot, StatusBit
      <3>2. slot.tx < MaxCount => slot.tx + 1 \in 0 .. MaxCount
        BY <2>1, CanApiAssumption, SMTT(60) DEF Slot
      <3> HIDE DEF st
      <3>3. slot.tx < MaxCount => LET new == [slot EXCEPT !.status = st, !.tx = slot.tx + 1]
                                  IN  new \in Slot /\ Same(slot, new)
        BY <2>1, <3>1, <3>2, WithMore
      <3> QED
        BY <3>3 DEF st
    <2> QED
      BY <1>2, <1>3, <2>2, <2>3, Refusals DEF can_write
  <1> QED
    BY <1>3, Refusals DEF can_write

LEMMA StatusEffect ==
  ASSUME TypeOK, Idle, NEW op, NEW h, can_status(op, h)
  PROVE  UNCHANGED state \/ \E new \in Slot : Carries(h, new)
PROOF
  <1>1. CASE UNCHANGED state
    BY <1>1
  <1>2. ASSUME init, Opened(h), ~Stopped(h), UNCHANGED <<init, pcan, call>>,
               NEW sts, can' = [can EXCEPT ![h] = Refresh(@, sts)]
        PROVE  \E new \in Slot : Carries(h, new)
    <2>1. can[h] \in Slot
      BY <1>2 DEF TypeOK, Opened
    <2> QED
      BY <1>2, <2>1, RefreshKeeps, CarriesIntro DEF Idle
  <1> QED
    BY <1>2, Refusals DEF can_status

LEMMA ReadEffect ==
  ASSUME TypeOK, Idle, NEW h, can_read(h)
  PROVE  UNCHANGED state \/ \E new \in Slot : Carries(h, new)
PROOF
  <1>1. CASE /\ init /\ Opened(h) /\ ~Stopped(h) /\ UNCHANGED <<init, can, pcan>>
             /\ call' = [h |-> h, buf |-> {}]
    <2>1. can[h] \in Slot /\ can' = [can EXCEPT ![h] = can[h]]
      BY <1>1 DEF TypeOK, Opened
    <2> QED
      BY <1>1, <2>1, CarriesIntro DEF Same
  <1> QED
    BY <1>1, Refusals DEF can_read

(* A driver hands over frames made of the known attributes.                *)
LEMMA ReadFrame ==
  ASSUME NEW ch, NEW faulty, NEW r \in CAN_Read(ch, RxFrames, faulty)
  PROVE  r.frame \in SUBSET FrameBit
PROOF
  BY CanApiAssumption, ZenonT(90) DEF CAN_Read

LEMMA PassEffect ==
  ASSUME TypeOK, Reading
  PROVE  \E new \in Slot : Carries(call.h, new)
PROOF
  <1> DEFINE h == call.h
             slot == can[h]
  <1>1. PICK r \in CAN_Read(pcan[slot.board], RxFrames, "read" \in Faults) : ReadPass(r)
    BY DEF Reading
  <1>2. /\ init /\ Opened(h) /\ ~Stopped(h) /\ slot \in Slot
        /\ h \in Handle /\ call.buf \in SUBSET FrameBit
    BY DEF Reading, TypeOK, Opened
  <1> DEFINE f == IF r.got THEN r.frame ELSE call.buf
             seen == [slot EXCEPT !.status = @ \cup Bits("message_lost", "OVERRUN" \in r.sts)
                                               \cup Bits("queue_overrun", "QOVERRUN" \in r.sts)]
             empty == [seen EXCEPT !.status = @ \cup {"receiver_empty"}]
  <1>3. f \in SUBSET FrameBit
    BY <1>2, ReadFrame
  <1>4. seen \in Slot /\ Same(slot, seen) /\ seen.rx = slot.rx /\ seen.err = slot.err
    <2> DEFINE st == slot.status \cup Bits("message_lost", "OVERRUN" \in r.sts)
                                 \cup Bits("queue_overrun", "QOVERRUN" \in r.sts)
    <2>1. st \in SUBSET StatusBit /\ ("can_stopped" \in st <=> "can_stopped" \in slot.status)
      BY <1>2 DEF Slot, StatusBit, Bits
    <2>2. seen = [slot EXCEPT !.status = st]
      OBVIOUS
    <2> HIDE DEF st, seen
    <2> QED
      BY <1>2, <2>1, <2>2, WithStatus
  <1> HIDE DEF seen
  <1>5. empty \in Slot /\ Same(slot, empty)
    BY <1>4 DEF Slot, Same, StatusBit
  <1>6. Note(seen, f) \in Slot /\ Same(slot, Note(seen, f))
        /\ Note(seen, f).rx = slot.rx /\ Note(seen, f).err = slot.err
    BY <1>4, NoteKeeps DEF Same
  <1>7. slot.rx < MaxCount /\ slot.err < MaxCount =>
          Counted(Note(seen, f), f) \in Slot /\ Same(slot, Counted(Note(seen, f), f))
    BY <1>6, CountedKeeps DEF Same
  <1>8. UNCHANGED <<init, pcan>>
    BY <1>1 DEF ReadPass
  <1>9. CASE can' = [can EXCEPT ![h] = empty] /\ call' = NoCall
    BY <1>2, <1>5, <1>8, <1>9, CarriesIntro
  <1>10. CASE can' = [can EXCEPT ![h] = Note(seen, f)] /\ call' = [call EXCEPT !.buf = f]
    <2>1. call' \in [h : {h}, buf : SUBSET FrameBit]
      BY <1>2, <1>3, <1>10 DEF TypeOK, Reading, NoCall
    <2> QED
      BY <1>2, <1>6, <1>8, <1>10, <2>1, CarriesIntro
  <1>11. CASE /\ can' = [can EXCEPT ![h] = Counted(Note(seen, f), f)] /\ call' = NoCall
              /\ slot.rx < MaxCount /\ slot.err < MaxCount
    BY <1>2, <1>7, <1>8, <1>11, CarriesIntro
  <1> QED
    BY <1>1, <1>9, <1>10, <1>11 DEF ReadPass, seen

LEMMA FilterEffect ==
  ASSUME Idle, NEW h
  PROVE  /\ \A kind \in {"STD", "XTD"}, value \in FilterArgs :
              set_filter(h, kind, value) =>
                UNCHANGED state \/ \E f \in Filter : Filters(h, f, f)
         /\ reset_filter(h) =>
              UNCHANGED state \/ Filters(h, [can[h].filter EXCEPT !.mode = "OFF"], OpenFilter)
PROOF
  <1>1. \A kind \in {"STD", "XTD"}, value \in FilterArgs :
          [mode |-> kind, mask |-> Inverted(value, kind)] \in Filter
    BY CanApiAssumption, SMTT(60) DEF Filter, Inverted, XorMask, FilterBit
  <1>2. ASSUME NEW kind \in {"STD", "XTD"}, NEW value \in FilterArgs, set_filter(h, kind, value)
        PROVE  UNCHANGED state \/ \E f \in Filter : Filters(h, f, f)
    BY <1>1, <1>2, Refusals DEF set_filter, Filters, On, Board
  <1>3. ASSUME reset_filter(h)
        PROVE  UNCHANGED state \/ Filters(h, [can[h].filter EXCEPT !.mode = "OFF"], OpenFilter)
    BY <1>3, Refusals DEF reset_filter, Filters, On, Board
  <1> QED
    BY <1>2, <1>3

(* Every step is of one of these kinds.                                    *)
LEMMA Effects ==
  ASSUME TypeOK, [Next]_vars
  PROVE  \/ UNCHANGED state
         \/ Prepares
         \/ \E b \in Boards, mode \in Modes, param \in Params : Opens(b, mode, param)
         \/ \E hs \in SUBSET Handle : Closes(hs)
         \/ \E h \in Handle : Aborts(h) \/ Starts(h) \/ Stops(h)
         \/ \E h \in Handle, new \in Slot : Carries(h, new)
         \/ \E h \in Handle, f, g \in Filter : Filters(h, f, g)
PROOF
  <1>1. \A h : Aborts(h) \/ Starts(h) \/ Stops(h) => h \in Handle
    BY DEF Aborts, Starts, Stops, On, Opened
  <1>2. \A h, new : Carries(h, new) => h \in Handle
    BY DEF Carries, Opened
  <1>3. \A h, f, g : Filters(h, f, g) => h \in Handle
    BY DEF Filters, On, Opened
  <1>4. CASE UNCHANGED vars
    BY <1>4 DEF vars, state
  <1>5. ASSUME NEW b \in Channels, NEW mode \in Modes, Idle, can_test(b, mode)
        PROVE  UNCHANGED state \/ Prepares
    BY <1>5, TestEffect
  <1>6. ASSUME NEW b \in Channels, NEW mode \in Modes, NEW param \in Params,
               Idle, can_init(b, mode, param)
        PROVE  UNCHANGED state \/ Prepares \/ (b \in Boards /\ Opens(b, mode, param))
    BY <1>6, InitEffect
  <1>7. ASSUME NEW h, Idle, can_exit(h)
        PROVE  UNCHANGED state \/ \E hs \in SUBSET Handle : Closes(hs)
    BY <1>7, ExitEffect
  <1>8. ASSUME NEW h, Idle, NEW br, can_start(h, br)
        PROVE  UNCHANGED state \/ Aborts(h) \/ Starts(h)
    BY <1>8, StartEffect
  <1>9. ASSUME NEW h, Idle, can_reset(h)
        PROVE  UNCHANGED state \/ Stops(h)
    BY <1>9, ResetEffect
  <1>10. ASSUME NEW h, Idle, NEW msg, NEW op,
                can_write(h, msg) \/ can_read(h) \/ can_status(op, h)
         PROVE  UNCHANGED state \/ \E new \in Slot : Carries(h, new)
    BY <1>10, WriteEffect, ReadEffect, StatusEffect
  <1>11. ASSUME Reading
         PROVE  \E new \in Slot : Carries(call.h, new)
    BY <1>11, PassEffect
  <1>12. ASSUME NEW h, Idle, NEW kind \in {"STD", "XTD"}, NEW value \in FilterArgs,
                set_filter(h, kind, value)
         PROVE  UNCHANGED state \/ \E f \in Filter : Filters(h, f, f)
    BY <1>12, FilterEffect
  <1>13. ASSUME NEW h, Idle, reset_filter(h)
         PROVE  UNCHANGED state \/ \E f \in Filter : Filters(h, f, OpenFilter)
    <2>1. ASSUME Filters(h, [can[h].filter EXCEPT !.mode = "OFF"], OpenFilter)
          PROVE  can[h].filter \in Filter
      BY <2>1 DEF Filters, On, Opened, TypeOK, Slot
    <2>2. \A f \in Filter : [f EXCEPT !.mode = "OFF"] \in Filter
      BY DEF Filter
    <2> QED
      BY <1>13, <2>1, <2>2, FilterEffect
  <1>14. ASSUME NEW h, can_kill(h)
         PROVE  UNCHANGED state
    BY <1>14, KillEffect
  <1>15. ASSUME NEW h, NEW kind, can_bitrate(h) \/ can_property(h, kind) \/ get_filter(h, kind)
         PROVE  UNCHANGED state
    BY <1>15, QueryEffect
  <1> QED
    BY <1>1, <1>2, <1>3, <1>4, <1>5, <1>6, <1>7, <1>8, <1>9, <1>10, <1>11, <1>12, <1>13, <1>14,
       <1>15, Constants DEF Next
-------------------------------------------------------------------------------
(* Facts about the records the driver and the wrapper build.               *)
LEMMA ChannelRecords ==
  ASSUME NEW ch \in DriverChannel
  PROVE  /\ CAN_Initialize(ch) \in DriverChannel /\ CAN_Initialize(ch).up
         /\ CAN_Initialize(ch).listen = ch.listen
         /\ Deaf(ch) \in DriverChannel
         /\ Deaf(ch).up = ch.up /\ Deaf(ch).listen = ch.listen /\ Deaf(ch).filter = ch.filter
         /\ Mute(ch) \in DriverChannel
         /\ Mute(ch).up = ch.up /\ Mute(ch).listen
         /\ \A f \in Filter : LET new == [ch EXCEPT !.filter = f]
                              IN  /\ new \in DriverChannel /\ new.filter = f
                                  /\ new.up = ch.up /\ new.listen = ch.listen
PROOF
  BY Constants DEF CAN_Initialize, Deaf, Mute, DriverChannel

LEMMA QuietRecord ==
  ASSUME NEW h
  PROVE  /\ Quiet(h) \in DriverChannel /\ ~Quiet(h).up
         /\ Quiet(h).listen <=> "MON" \in can[h].mode
PROOF
  <1> DEFINE mon == "MON" \in can[h].mode
  <1>1. mon \in BOOLEAN
    OBVIOUS
  <1>2. Quiet(h) = [Down EXCEPT !.listen = mon]
    BY DEF Quiet
  <1> HIDE DEF mon
  <1>3. /\ Quiet(h) \in DriverChannel /\ ~Quiet(h).up
        /\ Quiet(h).listen = mon
    BY <1>1, <1>2, Constants DEF Down, DriverChannel
  <1> QED
    BY <1>3 DEF mon

LEMMA SlotRecords ==
  ASSUME NEW slot \in Slot
  PROVE  /\ CloseSlot(slot) \in Slot /\ CloseSlot(slot).board = NONEBUS
         /\ StartSlot(slot) \in Slot /\ "can_stopped" \notin StartSlot(slot).status
         /\ StartSlot(slot).board = slot.board /\ StartSlot(slot).mode = slot.mode
         /\ StartSlot(slot).fdes = slot.board /\ StartSlot(slot).filter = slot.filter
PROOF
  <1>1. CloseSlot(slot) \in Slot /\ CloseSlot(slot).board = NONEBUS
    BY DEF CloseSlot, Slot, StatusBit
  <1>2. 0 \in 0 .. MaxCount /\ {} \in SUBSET StatusBit
    BY CanApiAssumption
  <1> QED
    BY <1>1, <1>2, ZenonT(90) DEF StartSlot, Slot

LEMMA TakeRecord ==
  ASSUME NEW slot \in Slot, NEW b \in Boards, NEW mode \in Modes, NEW param \in Params
  PROVE  /\ Take(slot, b, mode, param) \in Slot
         /\ Take(slot, b, mode, param).board = b
         /\ "can_stopped" \in Take(slot, b, mode, param).status
PROOF
  <1> DEFINE brd == IF param = "none" THEN slot.brd ELSE param
             st == {"can_stopped"}
  <1>1. brd \in Params \cup {"none"} /\ mode \in SUBSET Flag
        /\ st \in SUBSET StatusBit /\ "can_stopped" \in st
    BY CanApiAssumption DEF Slot, StatusBit
  <1>2. Take(slot, b, mode, param)
          = [slot EXCEPT !.board = b, !.mode = mode, !.status = st, !.brd = brd]
    BY DEF Take
  <1> HIDE DEF brd, st
  <1>3. LET new == [slot EXCEPT !.board = b, !.mode = mode, !.status = st, !.brd = brd]
        IN  new \in Slot /\ new.board = b /\ "can_stopped" \in new.status
    BY <1>1 DEF Slot
  <1> QED
    BY <1>2, <1>3
-------------------------------------------------------------------------------
(* The inductive invariant.  Types alone do not survive can_exit and       *)
(* can_init: that no two handles share a channel, that a library that is   *)
(* not initialized has no open handle and that a channel that is up is     *)
(* owned each lean on the others.                                          *)
Inv == TypeOK /\ ClosedUnlessInit /\ BoardsDistinct /\ NoOrphanChannel /\ RunningOnBus

LEMMA InvStutter == Inv /\ UNCHANGED state => Inv'
PROOF
  BY DEF Inv, state, TypeOK, ClosedUnlessInit, BoardsDistinct, NoOrphanChannel, RunningOnBus,
         Running, Opened, Stopped

LEMMA InvInit == Init => Inv
PROOF
  <1> SUFFICES ASSUME Init PROVE Inv
    OBVIOUS
  <1>1. TypeOK
    BY Constants DEF Init, TypeOK, var_init
  <1>2. \A h \in Handle : ~Opened(h)
    BY DEF Init, var_init, Blank, Opened
  <1>3. \A b \in Boards : ~pcan[b].up
    BY DEF Init, Down
  <1> QED
    BY <1>1, <1>2, <1>3 DEF Inv, ClosedUnlessInit, BoardsDistinct, NoOrphanChannel,
       RunningOnBus, Running

(* Before any handle is open, the table a call begins with is as good as   *)
(* the one it finds.                                                       *)
LEMMA TableFacts ==
  ASSUME Inv
  PROVE  /\ Table \in [Handle -> Slot]
         /\ \A h \in Handle : Table[h].board = can[h].board
         /\ \A h \in Handle : Table[h].board # NONEBUS => Table[h] = can[h]
PROOF
  BY Constants DEF Inv, TypeOK, ClosedUnlessInit, Opened, Table, var_init, Blank

LEMMA InvPrepares ==
  ASSUME Inv, Prepares
  PROVE  Inv'
PROOF
  <1>1. can' \in [Handle -> Slot] /\ pcan' \in [Boards -> DriverChannel]
    BY TableFacts, ChannelRecords DEF Prepares, Inv, TypeOK, Driven
  <1>2. \A h \in Handle : /\ can'[h].board = can[h].board
                          /\ can'[h].board # NONEBUS => can'[h] = can[h]
    BY TableFacts DEF Prepares
  <1>3. \A b \in Boards : /\ pcan'[b].up = pcan[b].up
                          /\ (\E h \in Handle : can[h].board = b) => pcan'[b] = pcan[b]
    BY TableFacts, ChannelRecords DEF Prepares, Inv, TypeOK, Driven, InUse
  <1>4. TypeOK'
    BY <1>1 DEF Prepares, TypeOK, Idle
  <1>5. ClosedUnlessInit'
    BY <1>2 DEF Prepares, ClosedUnlessInit, Opened, all_closed, Inv
  <1>6. BoardsDistinct' /\ NoOrphanChannel'
    BY <1>2, <1>3 DEF Inv, BoardsDistinct, NoOrphanChannel, Opened
  <1>7. RunningOnBus'
    BY <1>2, <1>3 DEF Inv, TypeOK, RunningOnBus, Running, Opened, Stopped, Slot
  <1> QED
    BY <1>4, <1>5, <1>6, <1>7 DEF Inv

(* A set of handles has a least one, so the search for a free handle finds *)
(* one if there is one.                                                    *)
LEMMA LeastMember ==
  ASSUME NEW T \in SUBSET Nat, T # {}
  PROVE  \E m \in T : \A n \in T : m <= n
PROOF
  <1> DEFINE less == OpToRel(<, Nat)
  <1>1. IsWellFoundedOn(less, Nat)
    BY NatLessThanWellFounded
  <1>2. \A m, n \in Nat : m < n => <<m, n>> \in less
    BY DEF OpToRel
  <1> HIDE DEF less
  <1>3. PICK m \in T : \A n \in T : ~(<<n, m>> \in less)
    BY <1>1, WFMin
  <1>4. \A n \in T : ~(n < m)
    BY <1>2, <1>3
  <1> QED
    BY <1>3, <1>4

LEMMA FreeHandle ==
  ASSUME NEW tbl, InUse(tbl, NONEBUS)
  PROVE  FirstFree(tbl) \in Handle /\ tbl[FirstFree(tbl)].board = NONEBUS
PROOF
  <1> DEFINE T == {h \in Handle : tbl[h].board = NONEBUS}
  <1>1. T \in SUBSET Nat /\ T # {}
    BY CanApiAssumption DEF Handle, InUse
  <1>2. PICK h \in T : \A k \in T : h <= k
    BY <1>1, LeastMember
  <1>3. \A k \in 0 .. h - 1 : k \in Handle /\ k \notin T
    BY <1>1, <1>2, CanApiAssumption DEF Handle
  <1>4. h \in Handle /\ tbl[h].board = NONEBUS /\ \A k \in 0 .. h - 1 : tbl[k].board # NONEBUS
    BY <1>2, <1>3
  <1> QED
    BY <1>4 DEF FirstFree

LEMMA InvOpens ==
  ASSUME Inv, NEW b \in Boards, NEW mode \in Modes, NEW param \in Params, Opens(b, mode, param)
  PROVE  Inv'
PROOF
  <1> DEFINE h == FirstFree(Table)
             ch == CAN_Initialize(Mute(pcan[b]))
  <1>1. h \in Handle /\ Table[h].board = NONEBUS
    BY FreeHandle DEF Opens
  <1>2. /\ can' \in [Handle -> Slot]
        /\ can'[h].board = b /\ "can_stopped" \in can'[h].status
        /\ \A k \in Handle \ {h} : can'[k] = Table[k]
    BY <1>1, TableFacts, TakeRecord DEF Opens
  <1> HIDE DEF h
  <1>3. pcan' \in [Boards -> DriverChannel] /\ \A c \in Boards \ {b} : pcan'[c] = pcan[c]
    BY ChannelRecords DEF Opens, Driven, Inv, TypeOK
  <1>4. \A k \in Handle : Opened(k) => k # h /\ can[k].board # b /\ can'[k] = can[k]
    BY <1>1, <1>2, TableFacts DEF Opened, Opens, InUse
  <1>5. \A k \in Handle \ {h} : can'[k].board # NONEBUS => Opened(k)
    BY <1>2, TableFacts DEF Opened
  <1>6. TypeOK'
    BY <1>2, <1>3 DEF Opens, TypeOK, Idle
  <1>7. ClosedUnlessInit'
    BY DEF Opens, ClosedUnlessInit
  <1>8. BoardsDistinct'
    BY <1>1, <1>2, <1>4, <1>5 DEF Inv, BoardsDistinct, Opened
  <1>9. NoOrphanChannel'
    BY <1>1, <1>2, <1>3, <1>4, CanApiAssumption DEF Inv, NoOrphanChannel, Opened
  <1>10. RunningOnBus'
    BY <1>1, <1>2, <1>3, <1>4, <1>5 DEF Inv, TypeOK, RunningOnBus, Running, Opened, Stopped, Slot
  <1> QED
    BY <1>6, <1>7, <1>8, <1>9, <1>10 DEF Inv

LEMMA InvCloses ==
  ASSUME Inv, NEW hs \in SUBSET Handle, Closes(hs)
  PROVE  Inv'
PROOF
  <1>1. /\ can' \in [Handle -> Slot]
        /\ \A k \in hs : can'[k].board = NONEBUS
        /\ \A k \in Handle \ hs : can'[k] = can[k]
    BY SlotRecords DEF Closes, CloseAll, Inv, TypeOK
  <1>2. /\ pcan' \in [Boards -> DriverChannel]
        /\ \A b \in Boards : (\E h \in hs : can[h].board = b) => ~pcan'[b].up
        /\ \A b \in Boards : ~(\E h \in hs : can[h].board = b) => pcan'[b] = pcan[b]
    BY Constants DEF Closes, CloseAll, Inv, TypeOK, Down
  <1>3. TypeOK'
    BY <1>1, <1>2 DEF Closes, TypeOK, Idle, all_closed
  <1>4. ClosedUnlessInit'
    BY DEF Closes, ClosedUnlessInit, Opened, all_closed
  <1>5. BoardsDistinct'
    BY <1>1 DEF Inv, BoardsDistinct, Opened
  <1>6. NoOrphanChannel'
    BY <1>1, <1>2 DEF Inv, NoOrphanChannel
  <1>7. \A k \in Handle : can'[k].board # NONEBUS =>
          k \notin hs /\ can'[k] = can[k] /\ can[k].board \in Boards /\ pcan'[can[k].board] = pcan[can[k].board]
    BY <1>1, <1>2 DEF Inv, TypeOK, BoardsDistinct, Opened, Slot
  <1>8. RunningOnBus'
    BY <1>7 DEF Inv, RunningOnBus, Running, Opened, Stopped
  <1> QED
    BY <1>3, <1>4, <1>5, <1>6, <1>8 DEF Inv

(* A step that concerns one open handle and its channel only has to keep   *)
(* the promise of RunningOnBus for it: the others' channels are others.    *)
OnBus(slot, ch) ==
  /\ ch.up
  /\ ch.listen <=> "MON" \in slot.mode
  /\ ch.filter = AskedFilter(slot.filter)
  /\ slot.fdes = slot.board

LEMMA InvOne ==
  ASSUME Inv, NEW h \in Handle, init, Opened(h), UNCHANGED init,
         NEW new \in Slot, can' = [can EXCEPT ![h] = new], new.board = Board(h),
         NEW ch \in DriverChannel, Driven(Board(h), ch),
         "can_stopped" \notin new.status => OnBus(new, ch),
         \/ call' = NoCall
         \/ call' \in [h : {h}, buf : SUBSET FrameBit] /\ "can_stopped" \notin new.status
  PROVE  Inv'
PROOF
  <1>1. Board(h) \in Boards
    BY DEF Inv, TypeOK, Opened, Slot, Board
  <1>2. /\ can' \in [Handle -> Slot] /\ can'[h] = new
        /\ \A k \in Handle \ {h} : can'[k] = can[k]
        /\ \A k \in Handle : can'[k].board = can[k].board
    BY DEF Inv, TypeOK, Board
  <1>3. /\ pcan' \in [Boards -> DriverChannel] /\ pcan'[Board(h)] = ch
        /\ \A b \in Boards \ {Board(h)} : pcan'[b] = pcan[b]
    BY <1>1 DEF Inv, TypeOK, Driven
  <1>4. TypeOK'
    BY <1>2, <1>3 DEF Inv, TypeOK, Opened, Stopped, Board, NoCall
  <1>5. ClosedUnlessInit'
    BY DEF ClosedUnlessInit
  <1>6. BoardsDistinct'
    BY <1>2 DEF Inv, BoardsDistinct, Opened
  <1>7. NoOrphanChannel'
    BY <1>1, <1>2, <1>3 DEF Inv, NoOrphanChannel, Board
  <1>8. \A k \in Handle \ {h} : Opened(k) => can[k].board \in Boards \ {Board(h)}
    BY DEF Inv, BoardsDistinct, TypeOK, Slot, Opened, Board
  <1>9. RunningOnBus'
    BY <1>1, <1>2, <1>3, <1>8 DEF Inv, RunningOnBus, OnBus, Running, Opened, Stopped, Board
  <1> QED
    BY <1>4, <1>5, <1>6, <1>7, <1>9 DEF Inv

(* What the invariant says of one open handle.                             *)
LEMMA OpenFacts ==
  ASSUME Inv, NEW h, Opened(h)
  PROVE  /\ h \in Handle /\ can[h] \in Slot
         /\ Board(h) \in Boards /\ pcan[Board(h)] \in DriverChannel
         /\ ~Stopped(h) => OnBus(can[h], pcan[Board(h)])
         /\ can = [can EXCEPT ![h] = can[h]]
         /\ pcan = [pcan EXCEPT ![Board(h)] = pcan[Board(h)]]
PROOF
  BY DEF Inv, TypeOK, Opened, Slot, Board, RunningOnBus, OnBus, Running

LEMMA InvAborts ==
  ASSUME Inv, NEW h \in Handle, Aborts(h)
  PROVE  Inv'
PROOF
  <1> USE DEF On
  <1>1. PICK ch \in DriverChannel : Driven(Board(h), ch)
    BY OpenFacts, Constants, QuietRecord, ChannelRecords DEF Aborts
  <1>2. PICK new \in Slot : /\ can' = [can EXCEPT ![h] = new]
                            /\ new.board = Board(h) /\ "can_stopped" \in new.status
    <2>1. CASE UNCHANGED can
      BY <2>1, OpenFacts DEF Aborts, Stopped, Board
    <2>2. CASE can' = [can EXCEPT ![h].fdes = Board(h)]
      <3> DEFINE new == [can[h] EXCEPT !.fdes = Board(h)]
      <3>1. new \in Slot /\ new.board = Board(h) /\ "can_stopped" \in new.status
        BY OpenFacts DEF Aborts, Slot, Stopped, Board
      <3> QED
        BY <2>2, <3>1
    <2> QED
      BY <2>1, <2>2 DEF Aborts
  <1> QED
    BY <1>1, <1>2, InvOne DEF Aborts, Idle

LEMMA InvStarts ==
  ASSUME Inv, NEW h \in Handle, Starts(h)
  PROVE  Inv'
PROOF
  <1> DEFINE new == StartSlot(can[h])
             on == CAN_Initialize(Quiet(h))
             ch == [on EXCEPT !.filter = StartFilter(can[h].filter)]
  <1>1. Opened(h) /\ init /\ can[h] \in Slot
    BY OpenFacts DEF Starts, On
  <1>2. new \in Slot /\ new.board = Board(h) /\ new.mode = can[h].mode
        /\ new.filter = can[h].filter /\ new.fdes = new.board
    BY <1>1, SlotRecords DEF Board
  <1>3. StartFilter(can[h].filter) \in Filter
    BY <1>1, Constants DEF StartFilter, Slot
  <1>4. ch \in DriverChannel /\ ch.up /\ ch.filter = StartFilter(can[h].filter)
        /\ (ch.listen <=> "MON" \in can[h].mode)
    BY <1>3, QuietRecord, ChannelRecords
  <1>5. can' = [can EXCEPT ![h] = new] /\ Driven(Board(h), ch)
        /\ UNCHANGED init /\ call' = NoCall
    BY DEF Starts, On, Idle
  <1>6. OnBus(new, ch)
    BY <1>2, <1>4 DEF OnBus, StartFilter, AskedFilter
  <1> HIDE DEF new, ch
  <1> QED
    BY <1>1, <1>2, <1>4, <1>5, <1>6, InvOne

LEMMA InvStops ==
  ASSUME Inv, NEW h \in Handle, Stops(h)
  PROVE  Inv'
PROOF
  <1>1. Opened(h) /\ init /\ ~Stopped(h) /\ UNCHANGED init /\ call' = NoCall
    BY DEF Stops, On, Idle
  <1>2. CASE UNCHANGED can /\ Driven(Board(h), Deaf(pcan[Board(h)]))
    <2>1. OnBus(can[h], Deaf(pcan[Board(h)]))
      BY <1>1, OpenFacts, ChannelRecords DEF OnBus
    <2> QED
      BY <1>1, <1>2, <2>1, OpenFacts, ChannelRecords, InvOne DEF Board
  <1>3. CASE /\ can' = [can EXCEPT ![h].status = @ \cup {"can_stopped"}]
             /\ Driven(Board(h), Mute(pcan[Board(h)]))
    <2> DEFINE new == [can[h] EXCEPT !.status = @ \cup {"can_stopped"}]
    <2>1. new \in Slot /\ new.board = Board(h) /\ "can_stopped" \in new.status
      BY <1>1, OpenFacts DEF Slot, StatusBit, Board
    <2>2. can' = [can EXCEPT ![h] = new]
      BY <1>3
    <2> HIDE DEF new
    <2> QED
      BY <1>1, <1>3, <2>1, <2>2, OpenFacts, ChannelRecords, InvOne
  <1> QED
    BY <1>2, <1>3 DEF Stops

LEMMA InvCarries ==
  ASSUME Inv, NEW h \in Handle, NEW new \in Slot, Carries(h, new)
  PROVE  Inv'
PROOF
  <1>1. Opened(h) /\ init /\ ~Stopped(h) /\ UNCHANGED init
    BY DEF Carries
  <1>2. Driven(Board(h), pcan[Board(h)])
    BY <1>1, OpenFacts DEF Carries, Driven
  <1>3. OnBus(new, pcan[Board(h)])
    BY <1>1, OpenFacts DEF Carries, OnBus, Board
  <1> QED
    BY <1>1, <1>2, <1>3, OpenFacts, InvOne DEF Carries

LEMMA InvFilters ==
  ASSUME Inv, NEW h \in Handle, NEW f \in Filter, NEW g \in Filter, Filters(h, f, g)
  PROVE  Inv'
PROOF
  <1> DEFINE new == [can[h] EXCEPT !.filter = f]
             ch == [pcan[Board(h)] EXCEPT !.filter = g]
  <1>1. Opened(h) /\ init /\ Stopped(h) /\ UNCHANGED init /\ call' = NoCall
    BY DEF Filters, On, Idle
  <1>2. new \in Slot /\ new.board = Board(h) /\ "can_stopped" \in new.status
    BY <1>1, OpenFacts DEF Slot, Board, Stopped
  <1>3. ch \in DriverChannel
    BY <1>1, OpenFacts, ChannelRecords
  <1>4. can' = [can EXCEPT ![h] = new] /\ Driven(Board(h), ch)
    BY DEF Filters, Driven
  <1> HIDE DEF new, ch
  <1> QED
    BY <1>1, <1>2, <1>3, <1>4, InvOne

LEMMA InvNext == Inv /\ [Next]_vars => Inv'
PROOF
  <1> SUFFICES ASSUME Inv, [Next]_vars PROVE Inv'
    OBVIOUS
  <1> QED
    BY Effects, InvStutter, InvPrepares, InvOpens, InvCloses, InvAborts, InvStarts, InvStops,
       InvCarries, InvFilters DEF Inv
-------------------------------------------------------------------------------
(* Type correctness: a slot, a channel and a read in progress always have  *)
(* their types, and can_read only runs on an open, running handle.         *)
THEOREM TypeCorrect == Spec => []TypeOK
PROOF
  <1>1. Inv => TypeOK
    BY DEF Inv
  <1> QED
    BY <1>1, InvInit, InvNext, PTL DEF Spec

(* The handle table and the driver agree: no two open handles share a      *)
(* channel, a library that is not initialized has no open handle, and a    *)
(* channel that is up belongs to an open handle, for every number of       *)
(* handles and however the driver calls of can_init, can_start, can_exit   *)
(* fail.                                                                   *)
THEOREM TableMatchesDriver == Spec => []TableConsistent
PROOF
  <1>1. Inv => TableConsistent
    BY DEF Inv, TableConsistent
  <1> QED
    BY <1>1, InvInit, InvNext, PTL DEF Spec

(* A handle that counts as running is on the bus with its own mode and     *)
(* acceptance filter.                                                      *)
THEOREM RunningHandlesOnBus == Spec => []RunningOnBus
PROOF
  <1>1. Inv => RunningOnBus
    BY DEF Inv
  <1> QED
    BY <1>1, InvInit, InvNext, PTL DEF Spec
-------------------------------------------------------------------------------
(* A step on one handle keeps the others silent; what it does to its own   *)
(* channel is left to show.                                                *)
LEMMA SilentOne ==
  ASSUME Inv, StoppedIsSilent, NEW h, Opened(h),
         \A k \in Handle \ {h} : can'[k] = can[k],
         can'[h].board = Board(h),
         NEW ch, Driven(Board(h), ch),
         "can_stopped" \in can'[h].status /\ ch.up => ch.listen
  PROVE  StoppedIsSilent'
PROOF
  <1>1. /\ Board(h) \in Boards /\ pcan'[Board(h)] = ch
        /\ \A b \in Boards \ {Board(h)} : pcan'[b] = pcan[b]
    BY OpenFacts DEF Driven, Inv, TypeOK
  <1>2. \A k \in Handle \ {h} : Opened(k) => can[k].board \in Boards \ {Board(h)}
    BY DEF Inv, BoardsDistinct, TypeOK, Slot, Opened, Board
  <1> QED
    BY <1>1, <1>2 DEF StoppedIsSilent, Opened, Stopped, Board

LEMMA SilentNext ==
  ASSUME "uninitialize" \notin Faults, Inv, StoppedIsSilent, [Next]_vars
  PROVE  StoppedIsSilent'
PROOF
  <1>1. CASE UNCHANGED state
    BY <1>1 DEF state, StoppedIsSilent, Opened, Stopped
  <1>2. CASE Prepares
    <2>1. \A h \in Handle : can'[h].board # NONEBUS =>
            can'[h] = can[h] /\ Opened(h) /\ pcan'[can[h].board] = pcan[can[h].board]
      BY <1>2, TableFacts, OpenFacts DEF Prepares, Driven, InUse, Opened, Board, Inv, TypeOK
    <2> QED
      BY <2>1 DEF StoppedIsSilent, Opened, Stopped
  <1>3. ASSUME NEW b \in Boards, NEW mode \in Modes, NEW param \in Params, Opens(b, mode, param)
        PROVE  StoppedIsSilent'
    <2> DEFINE h == FirstFree(Table)
    <2>1. h \in Handle /\ can'[h].board = b /\ \A k \in Handle \ {h} : can'[k] = Table[k]
      BY <1>3, FreeHandle, TableFacts, TakeRecord DEF Opens
    <2> HIDE DEF h
    <2>2. pcan'[b].listen /\ \A c \in Boards \ {b} : pcan'[c] = pcan[c]
      BY <1>3, ChannelRecords DEF Opens, Driven, Inv, TypeOK
    <2>3. \A k \in Handle \ {h} : can'[k].board # NONEBUS =>
            can'[k] = can[k] /\ Opened(k) /\ can[k].board \in Boards \ {b}
      BY <1>3, <2>1, TableFacts, OpenFacts DEF Opens, InUse, Opened, Board
    <2> QED
      BY <2>1, <2>2, <2>3 DEF StoppedIsSilent, Opened, Stopped
  <1>4. ASSUME NEW hs \in SUBSET Handle, Closes(hs)
        PROVE  StoppedIsSilent'
    <2>1. \A k \in Handle : can'[k].board # NONEBUS => can'[k] = can[k] /\ Opened(k)
      BY <1>4, SlotRecords DEF Closes, CloseAll, Inv, TypeOK, Opened
    <2>2. \A b \in Boards : pcan'[b].up => pcan'[b] = pcan[b]
      BY <1>4 DEF Closes, CloseAll, Down
    <2> QED
      BY <2>1, <2>2, OpenFacts DEF StoppedIsSilent, Opened, Stopped, Board
  <1>5. ASSUME NEW h \in Handle, Aborts(h)
        PROVE  StoppedIsSilent'
    <2>1. PICK ch : Driven(Board(h), ch) /\ (ch = pcan[Board(h)] \/ ~ch.up)
      BY <1>5, QuietRecord DEF Aborts, Down
    <2>2. ch.up => ch.listen
      BY <1>5, <2>1 DEF Aborts, On, StoppedIsSilent, Board, Opened
    <2>3. Opened(h) /\ can'[h].board = Board(h) /\ \A k \in Handle \ {h} : can'[k] = can[k]
      BY <1>5, OpenFacts DEF Aborts, On, Board, Inv, TypeOK, Slot
    <2> QED
      BY <2>1, <2>2, <2>3, SilentOne
  <1>6. ASSUME NEW h \in Handle, Starts(h)
        PROVE  StoppedIsSilent'
    <2>1. /\ Opened(h) /\ can'[h].board = Board(h) /\ "can_stopped" \notin can'[h].status
          /\ \A k \in Handle \ {h} : can'[k] = can[k]
      BY <1>6, OpenFacts, SlotRecords DEF Starts, On, Board, Inv, TypeOK
    <2> QED
      BY <1>6, <2>1, SilentOne DEF Starts
  <1>7. ASSUME NEW h \in Handle, Stops(h)
        PROVE  StoppedIsSilent'
    <2>1. Opened(h) /\ ~Stopped(h) /\ pcan[Board(h)] \in DriverChannel
      BY <1>7, OpenFacts DEF Stops, On
    <2>2. can'[h].board = Board(h) /\ \A k \in Handle \ {h} : can'[k] = can[k]
      BY <1>7, <2>1, OpenFacts DEF Stops, Board, Inv, TypeOK, Slot
    <2>3. CASE UNCHANGED can /\ Driven(Board(h), Deaf(pcan[Board(h)]))
      BY <2>1, <2>2, <2>3, SilentOne DEF Stopped
    <2>4. CASE Driven(Board(h), Mute(pcan[Board(h)]))
      BY <2>1, <2>2, <2>4, ChannelRecords, SilentOne
    <2> QED
      BY <1>7, <2>3, <2>4 DEF Stops
  <1>8. ASSUME NEW h \in Handle, NEW new \in Slot, Carries(h, new)
        PROVE  StoppedIsSilent'
    <2>1. /\ Opened(h) /\ can'[h] = new /\ "can_stopped" \notin new.status /\ new.board = Board(h)
          /\ \A k \in Handle \ {h} : can'[k] = can[k]
          /\ Driven(Board(h), pcan[Board(h)])
      BY <1>8, OpenFacts DEF Carries, Driven, Inv, TypeOK
    <2> QED
      BY <2>1, SilentOne
  <1>9. ASSUME NEW h \in Handle, NEW f \in Filter, NEW g \in Filter, Filters(h, f, g)
        PROVE  StoppedIsSilent'
    <2> DEFINE ch == [pcan[Board(h)] EXCEPT !.filter = g]
    <2>1. Opened(h) /\ Stopped(h) /\ can'[h].board = Board(h) /\ \A k \in Handle \ {h} : can'[k] = can[k]
      BY <1>9, OpenFacts DEF Filters, On, Board, Inv, TypeOK, Slot
    <2>2. ch.up => ch.listen
      BY <2>1, OpenFacts, ChannelRecords DEF StoppedIsSilent, Board
    <2>3. Driven(Board(h), ch)
      BY <1>9 DEF Filters, Driven
    <2> HIDE DEF ch
    <2> QED
      BY <2>1, <2>2, <2>3, SilentOne
  <1> QED
    BY <1>1, <1>2, <1>3, <1>4, <1>5, <1>6, <1>7, <1>8, <1>9, Effects DEF Inv

(* 'No communication is possible in this state': a handle that counts as   *)
(* stopped is on a channel that is down or listens only, if                *)
(* CAN_Uninitialize does not fail on a channel that is up.                 *)
THEOREM StoppedHandlesSilent ==
  ASSUME "uninitialize" \notin Faults
  PROVE  Spec => []StoppedIsSilent
PROOF
  <1>1. Init => StoppedIsSilent
    BY DEF Init, StoppedIsSilent, Opened, var_init, Blank
  <1>2. Inv /\ StoppedIsSilent /\ [Next]_vars => (Inv /\ StoppedIsSilent)'
    BY InvNext, SilentNext
  <1> QED
    BY <1>1, <1>2, InvInit, PTL DEF Spec
-------------------------------------------------------------------------------
(* The refinement: what a table says of a channel depends only on who owns *)
(* it and on whether the owner is stopped.                                 *)
OneOwner(tbl) ==
  \A h, k \in Handle : tbl[h].board # NONEBUS /\ tbl[h].board = tbl[k].board => h = k

LEMMA ChanOwned ==
  ASSUME NEW tbl, OneOwner(tbl), NEW h \in Handle, tbl[h].board # NONEBUS
  PROVE  ChanState(tbl, tbl[h].board) =
           [owner |-> h, state |-> IF "can_stopped" \in tbl[h].status THEN "stopped" ELSE "running"]
PROOF
  <1>1. (CHOOSE k \in Handle : tbl[k].board = tbl[h].board) = h
    BY DEF OneOwner
  <1> QED
    BY <1>1, Zenon DEF ChanState, InUse

LEMMA ChanFree ==
  ASSUME NEW tbl, NEW b, ~InUse(tbl, b)
  PROVE  ChanState(tbl, b) = [owner |-> -1, state |-> "offline"]
PROOF
  BY DEF ChanState

(* Two tables that agree on the owner of a channel and on its being        *)
(* stopped agree on its state.                                             *)
LEMMA ChanSame ==
  ASSUME NEW old, NEW new, OneOwner(old), OneOwner(new), NEW b \in Boards,
         \A h \in Handle : /\ old[h].board = b <=> new[h].board = b
                           /\ new[h].board = b =>
                                ("can_stopped" \in old[h].status <=> "can_stopped" \in new[h].status)
  PROVE  ChanState(new, b) = ChanState(old, b)
PROOF
  <1>1. CASE InUse(old, b)
    <2>1. PICK h \in Handle : old[h].board = b /\ new[h].board = b
      BY <1>1 DEF InUse
    <2>2. b # NONEBUS
      BY CanApiAssumption
    <2> QED
      BY <2>1, <2>2, ChanOwned, ZenonT(90)
  <1>2. CASE ~InUse(old, b)
    BY <1>2, ChanFree DEF InUse
  <1> QED
    BY <1>1, <1>2

LEMMA InvOneOwner ==
  ASSUME Inv
  PROVE  OneOwner(can)
PROOF
  BY DEF Inv, BoardsDistinct, OneOwner, Opened

chan == [b \in Boards |-> ChanState(can, b)]

(* A step that moves one channel moves the function at one point.          *)
LEMMA ChanStutter ==
  ASSUME Inv, Inv',
         \A h \in Handle : /\ can'[h].board = can[h].board
                           /\ can[h].board # NONEBUS =>
                                ("can_stopped" \in can[h].status <=> "can_stopped" \in can'[h].status)
  PROVE  UNCHANGED chan
PROOF
  <1>1. OneOwner(can) /\ OneOwner(can')
    BY DEF Inv, BoardsDistinct, OneOwner, Opened
  <1>2. \A b \in Boards : ChanState(can', b) = ChanState(can, b)
    BY <1>1, ChanSame, CanApiAssumption
  <1> QED
    BY <1>2 DEF chan

LEMMA ChanMove ==
  ASSUME Inv, Inv', NEW h, Opened(h), can'[h].board = Board(h),
         \A k \in Handle \ {h} : can'[k] = can[k],
         ~Stopped(h) <=> "can_stopped" \in can'[h].status
  PROVE  IF Stopped(h) THEN CS!Start(Board(h)) ELSE CS!Stop(Board(h))
PROOF
  <1> DEFINE b == Board(h)
             was == IF Stopped(h) THEN "stopped" ELSE "running"
             is == IF Stopped(h) THEN "running" ELSE "stopped"
  <1>1. OneOwner(can) /\ OneOwner(can') /\ h \in Handle /\ b \in Boards /\ b # NONEBUS
    BY OpenFacts, CanApiAssumption DEF Inv, BoardsDistinct, OneOwner, Opened, Board
  <1>2. ChanState(can, b) = [owner |-> h, state |-> was]
    BY <1>1, ChanOwned DEF Board, Stopped
  <1>3. ChanState(can', b) = [owner |-> h, state |-> is]
    BY <1>1, ChanOwned DEF Board
  <1>4. \A c \in Boards \ {b} : ChanState(can', c) = ChanState(can, c)
    BY <1>1, ChanSame DEF Board
  <1>5. chan[b].state = was /\ chan' = [chan EXCEPT ![b].state = is]
    <2> HIDE DEF b, was, is
    <2>1. /\ chan = [c \in Boards |-> ChanState(can, c)]
          /\ chan' = [c \in Boards |-> ChanState(can', c)]
      BY DEF chan
    <2>2. chan' = [chan EXCEPT ![b] = [owner |-> h, state |-> is]]
      BY <1>1, <1>3, <1>4, <2>1
    <2>3. chan[b] = [owner |-> h, state |-> was]
      BY <1>1, <1>2, <2>1
    <2>4. [owner |-> h, state |-> is] = [chan[b] EXCEPT !.state = is]
      BY <2>3
    <2>5. chan' = [chan EXCEPT ![b] = [@ EXCEPT !.state = is]]
      BY <2>2, <2>4, Zenon
    <2> QED
      BY <2>3, <2>5
  <1> QED
    BY <1>5 DEF CS!Start, CS!Stop, CS!Move, chan

LEMMA RefineInit == Init => CS!ChanInit
PROOF
  <1> SUFFICES ASSUME Init PROVE CS!ChanInit
    OBVIOUS
  <1>1. \A b \in Boards : ~InUse(can, b)
    BY CanApiAssumption DEF Init, InUse, var_init, Blank
  <1> QED
    BY <1>1, ChanFree DEF CS!ChanInit, CS!Offline

LEMMA RefineOpens ==
  ASSUME Inv, Inv', NEW b \in Boards, NEW mode \in Modes, NEW param \in Params,
         Opens(b, mode, param)
  PROVE  \E h \in Handle : CS!Open(b, h)
PROOF
  <1> DEFINE h == FirstFree(Table)
  <1>1. /\ h \in Handle /\ Table[h].board = NONEBUS
        /\ can'[h].board = b /\ "can_stopped" \in can'[h].status
        /\ \A k \in Handle \ {h} : can'[k] = Table[k]
    BY FreeHandle, TableFacts, TakeRecord DEF Opens
  <1> HIDE DEF h
  <1>2. \A k \in Handle : can[k].board # b /\ Table[k].board = can[k].board
    BY TableFacts DEF Opens, InUse
  <1>3. OneOwner(can) /\ OneOwner(can') /\ b # NONEBUS
    BY CanApiAssumption DEF Inv, BoardsDistinct, OneOwner, Opened
  <1>4. ChanState(can, b) = [owner |-> -1, state |-> "offline"]
    BY <1>2, ChanFree DEF InUse
  <1>5. ChanState(can', b) = [owner |-> h, state |-> "stopped"]
    BY <1>1, <1>3, ChanOwned
  <1>6. \A c \in Boards \ {b} : ChanState(can', c) = ChanState(can, c)
    BY <1>1, <1>2, <1>3, TableFacts, ChanSame, CanApiAssumption
  <1>7. \A c \in Boards : ChanState(can, c).owner # h
    <2> TAKE c \in Boards
    <2>1. CASE InUse(can, c)
      <3>1. PICK k \in Handle : can[k].board = c
        BY <2>1 DEF InUse
      <3>2. k # h /\ c # NONEBUS
        BY <1>1, <1>2, <3>1, CanApiAssumption
      <3>3. PICK st : ChanState(can, c) = [owner |-> k, state |-> st]
        BY <1>3, <3>1, <3>2, ChanOwned
      <3> QED
        BY <3>2, <3>3
    <2>2. CASE ~InUse(can, c)
      <3>1. h # -1
        BY <1>1, CanApiAssumption DEF Handle
      <3> QED
        BY <2>2, <3>1, ChanFree
    <2> QED
      BY <2>1, <2>2
  <1>8. /\ chan = [c \in Boards |-> ChanState(can, c)]
        /\ chan' = [c \in Boards |-> ChanState(can', c)]
    BY DEF chan
  <1>9. chan' = [chan EXCEPT ![b] = [owner |-> h, state |-> "stopped"]]
    BY <1>5, <1>6, <1>8
  <1>10. CS!Open(b, h)
    BY <1>4, <1>7, <1>8, <1>9 DEF CS!Open, CS!Offline, CS!Owns, chan
  <1> QED
    BY <1>1, <1>10

LEMMA RefineCloses ==
  ASSUME Inv, Inv', NEW hs \in SUBSET Handle, Closes(hs)
  PROVE  \E bs \in SUBSET Boards : CS!Close(bs)
PROOF
  <1> DEFINE bs == {b \in Boards : \E h \in hs : can[h].board = b}
  <1>1. /\ \A k \in hs : can'[k].board = NONEBUS
        /\ \A k \in Handle \ hs : can'[k] = can[k]
    BY SlotRecords DEF Closes, CloseAll, Inv, TypeOK
  <1>2. OneOwner(can) /\ OneOwner(can')
    BY DEF Inv, BoardsDistinct, OneOwner, Opened
  <1>3. \A b \in bs : ChanState(can', b) = [owner |-> -1, state |-> "offline"]
    <2> TAKE b \in bs
    <2>1. b # NONEBUS
      BY CanApiAssumption
    <2>2. ~InUse(can', b)
      BY <1>1, <1>2, <2>1 DEF InUse, OneOwner
    <2> QED
      BY <2>2, ChanFree
  <1>4. \A b \in Boards \ bs : ChanState(can', b) = ChanState(can, b)
    <2> TAKE b \in Boards \ bs
    <2>1. b # NONEBUS
      BY CanApiAssumption
    <2> QED
      BY <1>1, <1>2, <2>1, ChanSame
  <1>5. /\ chan = [c \in Boards |-> ChanState(can, c)]
        /\ chan' = [c \in Boards |-> ChanState(can', c)]
    BY DEF chan
  <1>6. CS!Close(bs)
    BY <1>3, <1>4, <1>5 DEF CS!Close, CS!Offline, chan
  <1> QED
    BY <1>6

LEMMA RefineNext ==
  ASSUME Inv, Inv', [Next]_vars
  PROVE  CS!ChanNext \/ UNCHANGED chan
PROOF
  <1>1. CASE UNCHANGED state
    BY <1>1 DEF state, chan
  <1>2. CASE Prepares
    <2>1. \A h \in Handle : /\ can'[h].board = can[h].board
                            /\ can[h].board # NONEBUS => can'[h] = can[h]
      BY <1>2, TableFacts DEF Prepares
    <2> QED
      BY <2>1, ChanStutter
  <1>3. ASSUME NEW b \in Boards, NEW mode \in Modes, NEW param \in Params, Opens(b, mode, param)
        PROVE  CS!ChanNext
    BY <1>3, RefineOpens DEF CS!ChanNext
  <1>4. ASSUME NEW hs \in SUBSET Handle, Closes(hs)
        PROVE  CS!ChanNext
    BY <1>4, RefineCloses DEF CS!ChanNext
  <1>5. ASSUME NEW h \in Handle, Aborts(h)
        PROVE  UNCHANGED chan
    <2>1. /\ can'[h].board = can[h].board /\ can'[h].status = can[h].status
          /\ \A k \in Handle \ {h} : can'[k] = can[k]
      BY <1>5, OpenFacts DEF Aborts, On, Inv, TypeOK, Slot
    <2> QED
      BY <2>1, ChanStutter
  <1>6. ASSUME NEW h \in Handle, Starts(h)
        PROVE  CS!ChanNext
    <2>1. /\ Opened(h) /\ Stopped(h) /\ Board(h) \in Boards
          /\ can'[h].board = Board(h) /\ "can_stopped" \notin can'[h].status
          /\ \A k \in Handle \ {h} : can'[k] = can[k]
      BY <1>6, OpenFacts, SlotRecords DEF Starts, On, Board, Inv, TypeOK
    <2> QED
      BY <2>1, ChanMove DEF CS!ChanNext
  <1>7. ASSUME NEW h \in Handle, Stops(h)
        PROVE  CS!ChanNext \/ UNCHANGED chan
    <2>1. Opened(h) /\ ~Stopped(h) /\ Board(h) \in Boards
      BY <1>7, OpenFacts DEF Stops, On
    <2>2. CASE UNCHANGED can
      BY <2>2 DEF chan
    <2>3. CASE can' = [can EXCEPT ![h].status = @ \cup {"can_stopped"}]
      <3>1. /\ can'[h].board = Board(h) /\ "can_stopped" \in can'[h].status
            /\ \A k \in Handle \ {h} : can'[k] = can[k]
        BY <2>1, <2>3, OpenFacts DEF Board, Inv, TypeOK, Slot
      <3> QED
        BY <2>1, <3>1, ChanMove DEF CS!ChanNext
    <2> QED
      BY <1>7, <2>2, <2>3 DEF Stops
  <1>8. ASSUME NEW h \in Handle, NEW new \in Slot, Carries(h, new)
        PROVE  UNCHANGED chan
    <2>1. /\ can'[h] = new /\ new.board = can[h].board
          /\ "can_stopped" \notin new.status /\ "can_stopped" \notin can[h].status
          /\ \A k \in Handle \ {h} : can'[k] = can[k]
      BY <1>8 DEF Carries, Inv, TypeOK, Board, Stopped
    <2> QED
      BY <2>1, ChanStutter
  <1>9. ASSUME NEW h \in Handle, NEW f \in Filter, NEW g \in Filter, Filters(h, f, g)
        PROVE  UNCHANGED chan
    <2>1. /\ can'[h].board = can[h].board /\ can'[h].status = can[h].status
          /\ \A k \in Handle \ {h} : can'[k] = can[k]
      BY <1>9, OpenFacts DEF Filters, On, Inv, TypeOK, Slot
    <2> QED
      BY <2>1, ChanStutter
  <1> QED
    BY <1>1, <1>2, <1>3, <1>4, <1>5, <1>6, <1>7, <1>8, <1>9, Effects DEF Inv

(* The library implements the operation states of can_api.h: an open takes *)
(* an offline channel to 'stopped', a start to 'running', a reset back,    *)
(* an exit to 'offline', and no failure takes it anywhere else.            *)
THEOREM LibraryImplementsStates == Spec => ImplementsStates
PROOF
  <1>1. Inv /\ Inv' /\ [Next]_vars => [CS!ChanNext]_chan
    BY RefineNext
  <1> QED
    BY <1>1, InvInit, InvNext, RefineInit, PTL DEF Spec, ImplementsStates, CS!ChanSpec, chan
-------------------------------------------------------------------------------
(***************************************************************************)
(* The steps: what a call may never do to another handle, to the status    *)
(* register, to the counters and to the acceptance filter.                 *)
(*                                                                         *)
(* The kinds of step say what happens to the state.  Here they are joined  *)
(* with what the call returns, and the calls that change the status        *)
(* register of a running handle are looked at one by one.                  *)
(***************************************************************************)
Returns(op, h) == ret'.op = op /\ ret'.h = h

LEMMA ReturnFacts ==
  ASSUME NEW op, NEW h, NEW rc
  PROVE  /\ Return(op, h, rc) => Returns(op, h)
         /\ Reject(op, h, rc) => Returns(op, h)
         /\ RefuseHandle(op, h) => Returns(op, h)
PROOF
  BY DEF Returns, Return, Reject, RefuseHandle

(* Each call returns under its own name and for the handle it was given;   *)
(* can_read returns later, if it is not refused.                           *)
LEMMA Returned ==
  ASSUME NEW h, NEW b, NEW mode, NEW param, NEW br, NEW msg, NEW kind, NEW value, NEW op
  PROVE  /\ can_test(b, mode) => Returns("can_test", -1)
         /\ can_init(b, mode, param) => ret'.op = "can_init"
         /\ can_exit(h) => Returns("can_exit", h)
         /\ can_kill(h) => Returns("can_kill", h)
         /\ can_start(h, br) => Returns("can_start", h)
         /\ can_reset(h) => Returns("can_reset", h)
         /\ can_write(h, msg) => Returns("can_write", h)
         /\ can_read(h) => Returns("can_read", h) \/ ret' = NoRet
         /\ can_status(op, h) => Returns(op, h)
         /\ set_filter(h, kind, value) => Returns("set_filter", h)
         /\ reset_filter(h) => Returns("reset_filter", h)
         /\ can_bitrate(h) => Returns("can_bitrate", h)
         /\ can_property(h, kind) => Returns("can_property", h)
         /\ get_filter(h, kind) => Returns("get_filter", h)
PROOF
  <1> USE DEF Returns, Reject, Return, RefuseHandle
  <1>1. can_test(b, mode) => Returns("can_test", -1)
    BY DEF can_test
  <1>2. can_init(b, mode, param) => ret'.op = "can_init"
    BY DEF can_init
  <1>3. can_exit(h) => Returns("can_exit", h)
    <2> HIDE DEF Returns, Reject, Return, RefuseHandle
    <2> QED
      BY ReturnFacts DEF can_exit
  <1>4. can_kill(h) => Returns("can_kill", h)
    BY DEF can_kill
  <1>5. can_start(h, br) => Returns("can_start", h)
    <2> HIDE DEF Returns, Reject, Return, RefuseHandle
    <2> QED
      BY ReturnFacts, ZenonT(60) DEF can_start
  <1>6. can_reset(h) => Returns("can_reset", h)
    BY DEF can_reset
  <1>7. can_write(h, msg) => Returns("can_write", h)
    BY DEF can_write
  <1>8. can_read(h) => Returns("can_read", h) \/ ret' = NoRet
    BY DEF can_read
  <1>9. can_status(op, h) => Returns(op, h)
    BY DEF can_status
  <1>10. set_filter(h, kind, value) => Returns("set_filter", h)
    BY DEF set_filter
  <1>11. reset_filter(h) => Returns("reset_filter", h)
    BY DEF reset_filter
  <1>12. can_bitrate(h) => Returns("can_bitrate", h)
    BY DEF can_bitrate
  <1>13. can_property(h, kind) => Returns("can_property", h)
    BY DEF can_property, lib_parameter, drv_parameter
  <1>14. get_filter(h, kind) => Returns("get_filter", h)
    BY DEF get_filter
  <1> HIDE DEF Returns
  <1> QED
    BY <1>1, <1>2, <1>3, <1>4, <1>5, <1>6, <1>7, <1>8, <1>9, <1>10, <1>11, <1>12, <1>13, <1>14
-------------------------------------------------------------------------------
(* A handle and its channel as they were. *)
Untouched(k) == can'[k] = can[k] /\ pcan'[Board(k)] = pcan[Board(k)]

(* Steps that act on one handle keep off the others. *)
LEMMA ApartOne ==
  ASSUME Inv, NEW h, Opened(h),
         \A k \in Handle \ {h} : can'[k] = can[k],
         NEW ch, Driven(Board(h), ch)
  PROVE  \A k \in Handle : Opened(k) /\ k # h => Untouched(k)
PROOF
  <1>1. \A k \in Handle : Opened(k) /\ k # h => Board(k) \in Boards \ {Board(h)}
    BY OpenFacts DEF Inv, BoardsDistinct, Board, Opened
  <1>2. \A b \in Boards \ {Board(h)} : pcan'[b] = pcan[b]
    BY DEF Driven, Inv, TypeOK
  <1> QED
    BY <1>1, <1>2 DEF Untouched

LEMMA ApartKinds ==
  ASSUME Inv, NEW h,
         \/ Aborts(h) \/ Starts(h) \/ Stops(h)
         \/ \E new : Carries(h, new)
         \/ \E f, g : Filters(h, f, g)
  PROVE  \A k \in Handle : Opened(k) /\ k # h => Untouched(k)
PROOF
  <1>1. Opened(h)
    BY DEF Aborts, Starts, Stops, Carries, Filters, On
  <1>2. \A k \in Handle \ {h} : can'[k] = can[k]
    BY DEF Aborts, Starts, Stops, Carries, Filters, On, Inv, TypeOK
  <1>3. \E ch : Driven(Board(h), ch)
    <2>1. ASSUME NEW new, Carries(h, new) PROVE Driven(Board(h), pcan[Board(h)])
      BY <1>1, <2>1, OpenFacts DEF Carries, Driven
    <2>2. ASSUME NEW f, NEW g, Filters(h, f, g)
          PROVE  Driven(Board(h), [pcan[Board(h)] EXCEPT !.filter = g])
      BY <2>2 DEF Filters, Driven
    <2>3. Aborts(h) \/ Starts(h) \/ Stops(h) => \E ch : Driven(Board(h), ch)
      BY DEF Aborts, Starts, Stops
    <2> QED
      BY <2>1, <2>2, <2>3
  <1> QED
    BY <1>1, <1>2, <1>3, ApartOne

(* Steps before a handle is taken, and those that take an unused one. *)
LEMMA ApartNew ==
  ASSUME Inv, Prepares \/ \E b \in Boards, mode \in Modes, param \in Params : Opens(b, mode, param)
  PROVE  \A k \in Handle : Opened(k) => Untouched(k)
PROOF
  <1> SUFFICES ASSUME NEW k \in Handle, Opened(k) PROVE Untouched(k)
    OBVIOUS
  <1>1. Board(k) \in Boards /\ Table[k] = can[k] /\ ~(\E b : ~InUse(Table, b) /\ b = Board(k))
    BY TableFacts, OpenFacts DEF InUse, Board, Opened
  <1>2. CASE Prepares
    BY <1>1, <1>2 DEF Prepares, Driven, Untouched, Inv, TypeOK
  <1>3. ASSUME NEW b \in Boards, NEW mode \in Modes, NEW param \in Params,
               Opens(b, mode, param)
        PROVE  Untouched(k)
    <2>1. FirstFree(Table) \in Handle /\ FirstFree(Table) # k
      BY <1>1, <1>3, FreeHandle DEF Opens, Opened
    <2>2. can'[k] = Table[k]
      BY <1>3, <2>1, TableFacts DEF Opens
    <2> QED
      BY <1>1, <1>3, <2>2 DEF Opens, Driven, Untouched, Inv, TypeOK
  <1> QED
    BY <1>2, <1>3

(* can_exit of one handle closes no other. *)
LEMMA ExitOne ==
  ASSUME Inv, NEW h, h # CANEXIT_ALL, can_exit(h)
  PROVE  \A k \in Handle : Opened(k) /\ k # h => Untouched(k)
PROOF
  <1> SUFFICES ASSUME NEW k \in Handle, Opened(k), k # h PROVE Untouched(k)
    OBVIOUS
  <1>1. UNCHANGED state \/ (Opened(h) /\ CloseAll({h}))
    BY Refusals DEF can_exit
  <1>2. CASE UNCHANGED state
    BY <1>2 DEF state, Untouched
  <1>3. CASE Opened(h) /\ CloseAll({h})
    <2>1. Board(k) \in Boards /\ can[h].board # Board(k)
      BY <1>3, OpenFacts DEF Inv, BoardsDistinct, Board, Opened
    <2> QED
      BY <1>3, <2>1 DEF CloseAll, Untouched, Board
  <1> QED
    BY <1>1, <1>2, <1>3

AloneTouched ==
  \A h \in Handle :
    Opened(h) /\ (can'[h] # can[h] \/ pcan'[can[h].board] # pcan[can[h].board])
    => \/ ret'.h = h /\ ret'.op # "can_init"
       \/ call.h = h
       \/ ret'.op = "can_exit" /\ ret'.h = CANEXIT_ALL

LEMMA StutterUntouched ==
  ASSUME UNCHANGED state
  PROVE  AloneTouched
PROOF
  BY DEF state, AloneTouched

LEMMA UntouchedNext ==
  ASSUME Inv, Next
  PROVE  AloneTouched
PROOF
  <1> USE DEF AloneTouched, Untouched, Board
  <1>1. ASSUME NEW b, NEW mode, Idle, can_test(b, mode) PROVE AloneTouched
    BY <1>1, TestEffect, ApartNew, StutterUntouched
  <1>12. ASSUME NEW b, NEW mode \in Modes, NEW param \in Params, Idle, can_init(b, mode, param)
         PROVE  AloneTouched
    <2>1. \/ UNCHANGED state \/ Prepares
          \/ \E c \in Boards, m \in Modes, p \in Params : Opens(c, m, p)
      BY <1>12, InitEffect
    <2> QED
      BY <2>1, ApartNew, StutterUntouched
  <1>2. ASSUME NEW h, Idle, can_exit(h) PROVE AloneTouched
    BY <1>2, ExitOne, Returned, SMTT(60) DEF Returns
  <1>3. ASSUME NEW h, NEW br, Idle, can_start(h, br) PROVE AloneTouched
    BY <1>3, StartEffect, ApartKinds, StutterUntouched, Returned, ZenonT(90) DEF Returns
  <1>4. ASSUME NEW h, Idle, can_reset(h) PROVE AloneTouched
    BY <1>4, ResetEffect, ApartKinds, StutterUntouched, Returned DEF Returns
  <1>5. ASSUME NEW h, NEW msg, Idle, can_write(h, msg) PROVE AloneTouched
    BY <1>5, WriteEffect, ApartKinds, StutterUntouched, Returned, ZenonT(90) DEF Returns, Inv
  <1>6. ASSUME NEW op \in {"can_status", "can_busload"}, NEW h, Idle, can_status(op, h)
        PROVE  AloneTouched
    BY <1>6, StatusEffect, ApartKinds, StutterUntouched, Returned, ZenonT(90) DEF Returns, Inv
  <1>7. ASSUME NEW h, can_read(h) PROVE AloneTouched
    BY <1>7, Refusals DEF can_read, state
  <1>8. CASE Reading
    <2>1. PICK new : Carries(call.h, new)
      BY <1>8, PassEffect DEF Inv
    <2> QED
      BY <2>1, ApartKinds
  <1>9. ASSUME NEW h, NEW kind \in {"STD", "XTD"}, NEW value \in FilterArgs, Idle,
               set_filter(h, kind, value)
        PROVE  AloneTouched
    <2>1. UNCHANGED state \/ \E f, g : Filters(h, f, g)
      BY <1>9, FilterEffect
    <2>2. ret'.h = h /\ ret'.op # "can_init"
      BY <1>9, Returned DEF Returns
    <2> QED
      BY <2>1, <2>2, ApartKinds, StutterUntouched
  <1>10. ASSUME NEW h, Idle, reset_filter(h) PROVE AloneTouched
    BY <1>10, FilterEffect, ApartKinds, StutterUntouched, Returned, ZenonT(90) DEF Returns
  <1>11. ASSUME NEW h, NEW kind,
                can_kill(h) \/ can_bitrate(h) \/ can_property(h, kind) \/ get_filter(h, kind)
         PROVE  AloneTouched
    BY <1>11, KillEffect, QueryEffect, StutterUntouched
  <1> HIDE DEF AloneTouched
  <1> QED
    BY <1>1, <1>2, <1>3, <1>4, <1>5, <1>6, <1>7, <1>8, <1>9, <1>10, <1>11, <1>12
    DEF Next

(* A call on one handle never changes another open handle or its channel;  *)
(* only closing all handles touches more than one.                         *)
THEOREM CallsTouchOneHandle == Spec => OthersUntouched
PROOF
  <1>1. Inv /\ [Next]_vars => [AloneTouched]_vars
    BY UntouchedNext
  <1> QED
    BY <1>1, InvInit, InvNext, PTL DEF Spec, OthersUntouched, AloneTouched
-------------------------------------------------------------------------------
Frozen ==
  \A h \in Handle : Running(h) /\ Running(h)' =>
    /\ can'[h].filter = can[h].filter
    /\ pcan'[can[h].board].filter = pcan[can[h].board].filter

(* Closing a set of handles closes a handle or leaves it alone. *)
LEMMA CloseFacts ==
  ASSUME Inv, NEW hs \in SUBSET Handle, Closes(hs), NEW k \in Handle
  PROVE  \/ can'[k].board = NONEBUS
         \/ can'[k] = can[k] /\ (Opened(k) => Untouched(k))
PROOF
  <1>1. CASE k \in hs
    <2>1. can'[k] = CloseSlot(can[k])
      BY <1>1 DEF Closes, CloseAll
    <2> QED
      BY <2>1, SlotRecords DEF Inv, TypeOK
  <1>2. CASE k \notin hs
    <2>1. can'[k] = can[k]
      BY <1>2 DEF Closes, CloseAll
    <2>2. pcan' = [b \in Boards |-> IF \E h \in hs : can[h].board = b THEN Down ELSE pcan[b]]
      BY DEF Closes, CloseAll
    <2>3. ASSUME Opened(k) PROVE pcan'[can[k].board] = pcan[can[k].board]
      <3>1. can[k].board \in Boards
        BY <2>3, OpenFacts DEF Board
      <3>2. ~(\E h \in hs : can[h].board = can[k].board)
        BY <1>2, <2>3 DEF Inv, BoardsDistinct, Opened
      <3> QED
        BY <2>2, <3>1, <3>2
    <2> QED
      BY <2>1, <2>3 DEF Untouched, Board
  <1> QED
    BY <1>1, <1>2

(* The kinds of step a program makes of the library. *)
Kinds ==
  \/ UNCHANGED state
  \/ Prepares
  \/ \E b \in Boards, mode \in Modes, param \in Params : Opens(b, mode, param)
  \/ \E hs \in SUBSET Handle : Closes(hs)
  \/ \E h \in Handle : Aborts(h) \/ Starts(h) \/ Stops(h)
  \/ \E h \in Handle, new \in Slot : Carries(h, new)
  \/ \E h \in Handle, f, g \in Filter : Filters(h, f, g)

LEMMA InvKinds ==
  ASSUME Inv, Kinds
  PROVE  Inv'
PROOF
  BY InvStutter, InvPrepares, InvOpens, InvCloses, InvAborts, InvStarts, InvStops,
     InvCarries, InvFilters DEF Kinds

LEMMA FrozenKinds ==
  ASSUME Inv, Kinds
  PROVE  Frozen
PROOF
  <1> SUFFICES ASSUME NEW h \in Handle, Running(h), Running(h)'
               PROVE  /\ can'[h].filter = can[h].filter
                      /\ pcan'[can[h].board].filter = pcan[can[h].board].filter
    BY DEF Frozen
  <1> USE DEF Running
  <1>1. ASSUME Untouched(h)
        PROVE  /\ can'[h].filter = can[h].filter
               /\ pcan'[can[h].board].filter = pcan[can[h].board].filter
    BY <1>1 DEF Untouched, Board
  <1>2. CASE UNCHANGED state
    BY <1>2 DEF state
  <1>3. CASE Prepares \/ \E b \in Boards, mode \in Modes, param \in Params : Opens(b, mode, param)
    BY <1>1, <1>3, ApartNew
  <1>4. ASSUME NEW hs \in SUBSET Handle, Closes(hs) PROVE Untouched(h)
    <2>1. can'[h].board = NONEBUS \/ (can'[h] = can[h] /\ (Opened(h) => Untouched(h)))
      BY <1>4, CloseFacts
    <2>2. Opened(h) /\ Opened(h)'
      OBVIOUS
    <2> QED
      BY <2>1, <2>2 DEF Opened
  <1>5. ASSUME NEW k \in Handle, Aborts(k) \/ Starts(k) \/ \E f, g : Filters(k, f, g)
        PROVE  Untouched(h)
    <2>1. Stopped(k)
      BY <1>5 DEF Aborts, Starts, Filters
    <2> QED
      BY <1>5, <2>1, ApartKinds
  <1>6. ASSUME NEW k \in Handle, Stops(k)
        PROVE  /\ can'[h].filter = can[h].filter
               /\ pcan'[can[h].board].filter = pcan[can[h].board].filter
    <2>1. CASE k # h
      BY <1>1, <1>6, <2>1, ApartKinds
    <2>2. CASE k = h
      <3>1. can' # [can EXCEPT ![h].status = @ \cup {"can_stopped"}]
        BY OpenFacts DEF Inv, TypeOK, Slot, Stopped
      <3>2. UNCHANGED can /\ Driven(Board(h), Deaf(pcan[Board(h)]))
        BY <1>6, <2>2, <3>1 DEF Stops
      <3> QED
        BY <3>2, OpenFacts, ChannelRecords DEF Driven, Board, Inv, TypeOK
    <2> QED
      BY <2>1, <2>2
  <1>7. ASSUME NEW k \in Handle, NEW new \in Slot, Carries(k, new)
        PROVE  /\ can'[h].filter = can[h].filter
               /\ pcan'[can[h].board].filter = pcan[can[h].board].filter
    <2>1. can'[h].filter = can[h].filter /\ UNCHANGED pcan
      BY <1>7 DEF Carries, Inv, TypeOK
    <2> QED
      BY <2>1
  <1> QED
    BY <1>1, <1>2, <1>3, <1>4, <1>5, <1>6, <1>7 DEF Kinds

(* The acceptance filter changes only in the stopped state, in the wrapper *)
(* and in the driver.                                                      *)
THEOREM FilterOnlyWhenStopped == Spec => FilterFrozen
PROOF
  <1>1. Inv /\ [Next]_vars => [Frozen]_vars
    BY FrozenKinds, Effects DEF Kinds, Inv
  <1> QED
    BY <1>1, InvInit, InvNext, PTL DEF Spec, FilterFrozen, Frozen
-------------------------------------------------------------------------------
(* The calls that do not move frames or read the status register of a      *)
(* running handle.                                                         *)
Manages ==
  \/ UNCHANGED state
  \/ Prepares
  \/ \E b \in Boards, mode \in Modes, param \in Params : Opens(b, mode, param)
  \/ \E hs \in SUBSET Handle : Closes(hs)
  \/ \E h \in Handle : Aborts(h) \/ Starts(h) \/ Stops(h)
  \/ \E h \in Handle, f, g \in Filter : Filters(h, f, g)

ManagingCall ==
  /\ Manages /\ Idle /\ UNCHANGED call
  /\ ret'.op \notin {"can_write", "can_read"}

LEMMA Sorted ==
  ASSUME TypeOK, Next
  PROVE  \/ ManagingCall
         \/ \E h, msg : Idle /\ can_write(h, msg)
         \/ \E op \in {"can_status", "can_busload"} : \E h : Idle /\ can_status(op, h)
         \/ \E h : Idle /\ can_read(h)
         \/ Reading
PROOF
  <1> USE DEF ManagingCall
  <1>1. ASSUME NEW b, NEW mode, Idle, can_test(b, mode) PROVE ManagingCall
    <2>1. Manages /\ UNCHANGED call
      BY <1>1, TestEffect DEF Manages, Prepares, state
    <2> QED
      BY <1>1, <2>1, Returned DEF Returns
  <1>2. ASSUME NEW b, NEW mode \in Modes, NEW param \in Params, Idle, can_init(b, mode, param)
        PROVE  ManagingCall
    <2>1. Manages /\ UNCHANGED call
      BY <1>2, InitEffect, ZenonT(90) DEF Manages, Prepares, Opens, state
    <2> QED
      BY <1>2, <2>1, Returned
  <1>3. ASSUME NEW h, Idle, can_exit(h) PROVE ManagingCall
    <2>1. Manages /\ UNCHANGED call
      BY <1>3, ExitEffect DEF Manages, Closes, state
    <2> QED
      BY <1>3, <2>1, Returned DEF Returns
  <1>4. ASSUME NEW h, NEW br, Idle, can_start(h, br) PROVE ManagingCall
    <2>1. Manages /\ UNCHANGED call
      BY <1>4, StartEffect DEF Manages, Aborts, Starts, On, Opened, state
    <2> QED
      BY <1>4, <2>1, Returned DEF Returns
  <1>5. ASSUME NEW h, Idle, can_reset(h) PROVE ManagingCall
    <2>1. Manages /\ UNCHANGED call
      BY <1>5, ResetEffect DEF Manages, Stops, On, Opened, state
    <2> QED
      BY <1>5, <2>1, Returned DEF Returns
  <1>6. ASSUME NEW h, NEW kind \in {"STD", "XTD"}, NEW value \in FilterArgs, Idle,
               set_filter(h, kind, value)
        PROVE  ManagingCall
    <2>1. UNCHANGED state \/ \E f \in Filter : Filters(h, f, f)
      BY <1>6, FilterEffect
    <2>2. Manages /\ UNCHANGED call
      BY <2>1 DEF Manages, Filters, On, Opened, state
    <2> QED
      BY <1>6, <2>2, Returned DEF Returns
  <1>7. ASSUME NEW h, Idle, reset_filter(h) PROVE ManagingCall
    <2> DEFINE f == [can[h].filter EXCEPT !.mode = "OFF"]
    <2>1. UNCHANGED state \/ Filters(h, f, OpenFilter)
      BY <1>7, FilterEffect
    <2>2. Filters(h, f, OpenFilter) => h \in Handle /\ f \in Filter
      BY DEF Filters, On, Opened, TypeOK, Slot, Filter
    <2> HIDE DEF f
    <2>3. Manages /\ UNCHANGED call
      BY <2>1, <2>2, Constants DEF Manages, Filters, On, state
    <2> QED
      BY <1>7, <2>3, Returned DEF Returns
  <1>8. ASSUME NEW h, NEW kind, Idle,
               can_kill(h) \/ can_bitrate(h) \/ can_property(h, kind) \/ get_filter(h, kind)
        PROVE  ManagingCall
    <2>1. Manages /\ UNCHANGED call
      BY <1>8, KillEffect, QueryEffect DEF Manages, state
    <2> QED
      BY <1>8, <2>1, Returned DEF Returns
  <1> HIDE DEF ManagingCall
  <1> QED
    BY <1>1, <1>2, <1>3, <1>4, <1>5, <1>6, <1>7, <1>8 DEF Next
-------------------------------------------------------------------------------
Stays(h) ==
  /\ can'[h].tx = can[h].tx /\ can'[h].rx = can[h].rx /\ can'[h].err = can[h].err
  /\ can[h].status \subseteq can'[h].status

(* Managing a handle that goes on leaves its counters, and no bit of the   *)
(* status register is lost.                                                *)
LEMMA ManagesStays ==
  ASSUME Inv, Manages, NEW h \in Handle, Continues(h)
  PROVE  Stays(h)
PROOF
  <1> USE DEF Stays
  <1>1. Opened(h) /\ can[h] \in Slot /\ can'[h].board # NONEBUS
    BY DEF Continues, Opened, Inv, TypeOK
  <1>2. Untouched(h) => Stays(h)
    BY DEF Untouched
  <1>3. CASE UNCHANGED state
    BY <1>3 DEF state
  <1>4. CASE Prepares \/ \E b \in Boards, mode \in Modes, param \in Params : Opens(b, mode, param)
    BY <1>1, <1>2, <1>4, ApartNew
  <1>5. ASSUME NEW hs \in SUBSET Handle, Closes(hs) PROVE Stays(h)
    <2>1. can'[h].board = NONEBUS \/ (can'[h] = can[h] /\ (Opened(h) => Untouched(h)))
      BY <1>5, CloseFacts
    <2> QED
      BY <1>1, <2>1
  <1>6. ASSUME NEW k \in Handle, Aborts(k) \/ Starts(k) \/ Stops(k) \/ \E f, g : Filters(k, f, g),
               k # h
        PROVE  Stays(h)
    BY <1>1, <1>2, <1>6, ApartKinds
  <1>7. CASE Aborts(h) \/ \E f, g : Filters(h, f, g)
    BY <1>1, <1>7 DEF Aborts, Filters, Inv, TypeOK, Slot
  <1>8. CASE Starts(h)
    <2>1. can'[h] = StartSlot(can[h]) /\ Stopped(h)
      BY <1>1, <1>8 DEF Starts, Inv, TypeOK
    <2> QED
      BY <1>1, <2>1, SlotRecords DEF Continues, Running, Stopped
  <1>9. CASE Stops(h)
    BY <1>1, <1>9 DEF Stops, Inv, TypeOK, Slot
  <1> QED
    BY <1>3, <1>4, <1>5, <1>6, <1>7, <1>8, <1>9 DEF Manages

(* Only a start takes a handle from stopped to running, and it clears the  *)
(* counters.                                                               *)
LEMMA StartClears ==
  ASSUME Inv, Manages, NEW h \in Handle, Stopped(h), Running(h)'
  PROVE  can'[h].tx = 0 /\ can'[h].rx = 0 /\ can'[h].err = 0
PROOF
  <1> USE DEF Running
  <1>1. can[h] \in Slot /\ ~Stopped(h)' /\ Opened(h)' /\ can'[h] # can[h]
    BY DEF Inv, TypeOK, Stopped
  <1>2. ~Untouched(h)
    BY <1>1 DEF Untouched
  <1>3. CASE UNCHANGED state
    BY <1>1, <1>3 DEF state
  <1>4. CASE Prepares
    <2>1. can'[h] = Table[h] /\ Table[h].board # NONEBUS => Table[h] = can[h]
      BY <1>4, TableFacts DEF Prepares
    <2> QED
      BY <1>1, <1>4, <2>1, TableFacts DEF Opened, Prepares
  <1>5. ASSUME NEW b \in Boards, NEW mode \in Modes, NEW param \in Params, Opens(b, mode, param)
        PROVE  FALSE
    <2> DEFINE k == FirstFree(Table)
    <2>1. k \in Handle /\ Table \in [Handle -> Slot]
      BY <1>5, FreeHandle, TableFacts DEF Opens
    <2>2. can' = [Table EXCEPT ![k] = Take(Table[k], b, mode, param)]
      BY <1>5 DEF Opens
    <2>3. "can_stopped" \in Take(Table[k], b, mode, param).status
      BY <2>1, TakeRecord
    <2> HIDE DEF k
    <2>4. CASE k = h
      BY <1>1, <2>1, <2>2, <2>3, <2>4 DEF Stopped
    <2>5. CASE k # h
      BY <1>1, <2>1, <2>2, <2>5, TableFacts DEF Opened
    <2> QED
      BY <2>4, <2>5
  <1>6. ASSUME NEW hs \in SUBSET Handle, Closes(hs) PROVE FALSE
    <2>1. can'[h].board = NONEBUS \/ (can'[h] = can[h] /\ (Opened(h) => Untouched(h)))
      BY <1>6, CloseFacts
    <2> QED
      BY <1>1, <2>1 DEF Opened
  <1>7. ASSUME NEW k \in Handle, Aborts(k) \/ Stops(k) \/ \E f, g : Filters(k, f, g)
        PROVE  FALSE
    BY <1>1, <1>7 DEF Aborts, Stops, Filters, Inv, TypeOK, Slot, Stopped
  <1>8. ASSUME NEW k \in Handle, Starts(k)
        PROVE  can'[h].tx = 0 /\ can'[h].rx = 0 /\ can'[h].err = 0
    BY <1>1, <1>8 DEF Starts, StartSlot, Inv, TypeOK, Slot
  <1> QED
    BY <1>3, <1>4, <1>5, <1>6, <1>7, <1>8 DEF Manages
-------------------------------------------------------------------------------
(* No driver status is told as success. *)
LEMMA ErrorTold ==
  ASSUME NEW sts
  PROVE  pcan_error(sts) # "NOERROR"
PROOF
  <1> DEFINE first(i) == ErrorOrder[i] \in sts /\ \A j \in 1 .. i - 1 : ErrorOrder[j] \notin sts
             i0 == CHOOSE i \in DOMAIN ErrorOrder : first(i)
  <1>1. DOMAIN ErrorOrder = 1 .. 10
    BY DEF ErrorOrder
  <1>2. \A i \in 1 .. 10 : ErrorCode[i] # "NOERROR"
    BY DEF ErrorCode
  <1>3. pcan_error(sts) = IF \E i \in DOMAIN ErrorOrder : first(i) THEN ErrorCode[i0] ELSE "UNKNOWN"
    BY DEF pcan_error
  <1>4. (\E i \in DOMAIN ErrorOrder : first(i)) => i0 \in DOMAIN ErrorOrder
    OBVIOUS
  <1> HIDE DEF first, i0
  <1> QED
    BY <1>1, <1>2, <1>3, <1>4

Told(op, h) == ret'.op = op /\ ret'.h = h /\ ret'.rc = "NOERROR"

(* A frame is refused, or finds the transmitter busy, or is sent. *)
LEMMA WriteMoves ==
  ASSUME Inv, NEW h, NEW msg, Idle, can_write(h, msg)
  PROVE  LET slot == can[h]
         IN  /\ Returns("can_write", h)
             /\ \/ UNCHANGED can /\ ~Told("can_write", h)
                \/ /\ h \in Handle /\ ~Told("can_write", h)
                   /\ can' = [can EXCEPT ![h] = [slot EXCEPT !.status = @ \cup {"transmitter_busy"}]]
                \/ /\ h \in Handle /\ Told("can_write", h)
                   /\ can' = [can EXCEPT ![h] =
                                [slot EXCEPT !.status = @ \ {"transmitter_busy"}, !.tx = @ + 1]]
PROOF
  <1> DEFINE slot == can[h]
             busy == [slot EXCEPT !.status = @ \cup {"transmitter_busy"}]
             sent == [slot EXCEPT !.status = @ \ {"transmitter_busy"}, !.tx = @ + 1]
  <1>1. Returns("can_write", h)
    BY Returned
  <1>2. CASE RefuseHandle("can_write", h)
    BY <1>1, <1>2 DEF RefuseHandle, Reject, Return, Told
  <1>3. CASE \E rc : Reject("can_write", h, rc) /\ rc # "NOERROR"
    <2>1. UNCHANGED can /\ ~Told("can_write", h)
      BY <1>3 DEF Reject, Return, Told
    <2> QED
      BY <1>1, <2>1
  <1>4. ASSUME Opened(h), can' = [can EXCEPT ![h] = busy], Return("can_write", h, "TX_BUSY")
        PROVE  h \in Handle /\ ~Told("can_write", h)
    BY <1>4 DEF Opened, Return, Told
  <1>5. ASSUME Opened(h), can' = [can EXCEPT ![h] = sent], Return("can_write", h, "NOERROR")
        PROVE  h \in Handle /\ Told("can_write", h)
    BY <1>5 DEF Opened, Return, Told
  <1>6. \/ RefuseHandle("can_write", h)
        \/ \E rc : Reject("can_write", h, rc) /\ rc # "NOERROR"
        \/ Opened(h) /\ can' = [can EXCEPT ![h] = busy] /\ Return("can_write", h, "TX_BUSY")
        \/ Opened(h) /\ can' = [can EXCEPT ![h] = sent] /\ Return("can_write", h, "NOERROR")
    <2> HIDE DEF busy, sent
    <2> QED
      BY ErrorTold DEF can_write, busy, sent
  <1> HIDE DEF busy, sent
  <1> QED
    BY <1>1, <1>2, <1>3, <1>4, <1>5, <1>6 DEF busy, sent

(* Asking for the status moves no counter; it refreshes the register.      *)
LEMMA StatusMoves ==
  ASSUME Inv, NEW h, NEW op, op # "can_write", op # "can_read", Idle, can_status(op, h)
  PROVE  /\ ret'.op # "can_write" /\ ret'.op # "can_read"
         /\ \/ UNCHANGED can
            \/ h \in Handle /\ \E sts : can' = [can EXCEPT ![h] = Refresh(@, sts)]
PROOF
  <1>1. ret'.op = op
    BY Returned DEF Returns
  <1>2. UNCHANGED can \/ (Opened(h) /\ \E sts : can' = [can EXCEPT ![h] = Refresh(@, sts)])
    BY Refusals DEF can_status, state
  <1> QED
    BY <1>1, <1>2 DEF Opened

LEMMA RefreshLatches ==
  ASSUME NEW slot \in Slot, NEW sts
  PROVE  LET new == Refresh(slot, sts)
         IN  /\ new.tx = slot.tx /\ new.rx = slot.rx /\ new.err = slot.err
             /\ (slot.status \ new.status)
                  \cap {"message_lost", "queue_overrun", "transmitter_busy"} = {}
PROOF
  BY DEF Refresh, Slot, Bits

(* What a frame tells about the controller takes nothing else away. *)
LEMMA NoteLatches ==
  ASSUME NEW slot \in Slot, NEW f
  PROVE  LET new == Note(slot, f)
         IN  /\ new.tx = slot.tx /\ new.rx = slot.rx /\ new.err = slot.err
             /\ (slot.status \ new.status)
                  \cap {"message_lost", "queue_overrun", "transmitter_busy"} = {}
PROOF
  <1> DEFINE lec == "lec" \in f
             bus == (slot.status \ {"bus_off", "warning_level"})
                      \cup Bits("bus_off", "busoff" \in f)
                      \cup Bits("warning_level", "warning" \in f)
             err == (slot.status \ {"bus_error"}) \cup Bits("bus_error", "lec" \in f)
  <1>1. \/ Note(slot, f) = slot
        \/ Note(slot, f) = [slot EXCEPT !.status = bus]
        \/ Note(slot, f) = [slot EXCEPT !.lec = lec, !.status = err]
    BY DEF Note
  <1>2. /\ (slot.status \ bus) \cap {"message_lost", "queue_overrun", "transmitter_busy"} = {}
        /\ (slot.status \ err) \cap {"message_lost", "queue_overrun", "transmitter_busy"} = {}
    BY DEF Bits
  <1> HIDE DEF lec, bus, err
  <1> QED
    BY <1>1, <1>2 DEF Slot

(* A pass of can_read counts a frame exactly when it hands it over. *)
LEMMA PassMoves ==
  ASSUME Inv, Reading, ret = NoRet
  PROVE  \E new :
           LET h == call.h
               slot == can[h]
           IN  /\ h \in Handle /\ can' = [can EXCEPT ![h] = new]
               /\ new.tx = slot.tx
               /\ (slot.status \ new.status)
                    \cap {"message_lost", "queue_overrun", "transmitter_busy"} = {}
               /\ \/ new.rx = slot.rx /\ new.err = slot.err /\ \A k : ~Told("can_read", k)
                  \/ /\ \A k : Told("can_read", k) <=> k = h
                     /\ \/ new.rx = slot.rx + 1 /\ new.err = slot.err
                        \/ new.rx = slot.rx /\ new.err = slot.err + 1
               /\ ret'.op # "can_write"
PROOF
  <1> DEFINE h == call.h
             slot == can[h]
             kept == {"message_lost", "queue_overrun", "transmitter_busy"}
  <1>1. PICK r \in CAN_Read(pcan[slot.board], RxFrames, "read" \in Faults) : ReadPass(r)
    BY DEF Reading
  <1>2. h \in Handle /\ slot \in Slot
    BY DEF Reading, Inv, TypeOK, Opened
  <1> DEFINE f == IF r.got THEN r.frame ELSE call.buf
             seen == [slot EXCEPT !.status = @ \cup Bits("message_lost", "OVERRUN" \in r.sts)
                                               \cup Bits("queue_overrun", "QOVERRUN" \in r.sts)]
             none == [seen EXCEPT !.status = @ \cup {"receiver_empty"}]
  <1>3. /\ seen \in Slot /\ slot.status \subseteq seen.status
        /\ seen.tx = slot.tx /\ seen.rx = slot.rx /\ seen.err = slot.err
    BY <1>2 DEF Slot, Bits, StatusBit
  <1>4. /\ none.tx = slot.tx /\ none.rx = slot.rx /\ none.err = slot.err
        /\ slot.status \subseteq none.status
    BY <1>3 DEF Slot
  <1> HIDE DEF seen, f
  <1> DEFINE noted == Note(seen, f)
             counted == Counted(noted, f)
  <1>5. /\ noted \in Slot
        /\ noted.tx = slot.tx /\ noted.rx = slot.rx /\ noted.err = slot.err
        /\ (slot.status \ noted.status) \cap kept = {}
    <2>1. noted \in Slot
      BY <1>3, NoteKeeps
    <2>2. /\ noted.tx = seen.tx /\ noted.rx = seen.rx /\ noted.err = seen.err
          /\ (seen.status \ noted.status) \cap kept = {}
      BY <1>3, NoteLatches
    <2> QED
      BY <1>3, <2>1, <2>2
  <1> HIDE DEF noted
  <1>6. /\ counted.tx = slot.tx
        /\ \/ counted.rx = slot.rx + 1 /\ counted.err = slot.err
           \/ counted.rx = slot.rx /\ counted.err = slot.err + 1
        /\ (slot.status \ counted.status) \cap kept = {}
    BY <1>5 DEF Counted, Slot
  <1> HIDE DEF counted, none
  <1>7. \/ /\ can' = [can EXCEPT ![h] = none]
           /\ Return("can_read", h, IF r.sts \cap HighBits # {} THEN pcan_error(r.sts) ELSE "RX_EMPTY")
        \/ can' = [can EXCEPT ![h] = noted] /\ UNCHANGED ret
        \/ /\ can' = [can EXCEPT ![h] = counted]
           /\ ret' = [op |-> "can_read", h |-> h, rc |-> "NOERROR", real |-> r.got]
    BY <1>1 DEF ReadPass, seen, f, none, noted, counted
  <1>8. CASE /\ can' = [can EXCEPT ![h] = none]
             /\ Return("can_read", h, IF r.sts \cap HighBits # {} THEN pcan_error(r.sts) ELSE "RX_EMPTY")
    <2>1. ret'.op # "can_write" /\ \A k : ~Told("can_read", k)
      BY <1>8, ErrorTold DEF Return, Told
    <2> QED
      BY <1>2, <1>4, <1>8, <2>1
  <1>9. CASE can' = [can EXCEPT ![h] = noted] /\ UNCHANGED ret
    <2>1. ret'.op # "can_write" /\ \A k : ~Told("can_read", k)
      BY <1>9 DEF NoRet, Told
    <2> QED
      BY <1>2, <1>5, <1>9, <2>1
  <1>10. CASE /\ can' = [can EXCEPT ![h] = counted]
              /\ ret' = [op |-> "can_read", h |-> h, rc |-> "NOERROR", real |-> r.got]
    <2>1. ret'.op # "can_write" /\ \A k : Told("can_read", k) <=> k = h
      BY <1>10 DEF Told
    <2> QED
      BY <1>2, <1>6, <1>10, <2>1
  <1> QED
    BY <1>7, <1>8, <1>9, <1>10, Zenon

Latched ==
  \A h \in Handle : Continues(h) =>
    LET cleared == can[h].status \ can'[h].status
    IN  /\ cleared \cap {"message_lost", "queue_overrun"} = {}
        /\ "transmitter_busy" \in cleared => can'[h].tx = can[h].tx + 1

Counting ==
  \A h \in Handle :
    /\ Continues(h) =>
         LET told(op) == ret'.op = op /\ ret'.h = h /\ ret'.rc = "NOERROR"
             sent     == can'[h].tx - can[h].tx
             received == can'[h].rx + can'[h].err - can[h].rx - can[h].err
         IN  /\ sent = IF told("can_write") THEN 1 ELSE 0
             /\ received = IF told("can_read") THEN 1 ELSE 0
    /\ Stopped(h) /\ Running(h)' => can'[h].tx + can'[h].rx + can'[h].err = 0

(* What a step moves the counters of a handle by, and what it tells.       *)
Tallies(h, sent, received) ==
  /\ can'[h].tx = can[h].tx + sent
  /\ can'[h].rx + can'[h].err = can[h].rx + can[h].err + received
  /\ sent = IF Told("can_write", h) THEN 1 ELSE 0
  /\ received = IF Told("can_read", h) THEN 1 ELSE 0

LEMMA Tallied ==
  ASSUME NEW h \in Handle, NEW sent \in {0, 1}, NEW received \in {0, 1},
         can[h] \in Slot, can'[h] \in Slot, Tallies(h, sent, received)
  PROVE  LET told(op) == ret'.op = op /\ ret'.h = h /\ ret'.rc = "NOERROR"
         IN  /\ can'[h].tx - can[h].tx = IF told("can_write") THEN 1 ELSE 0
             /\ can'[h].rx + can'[h].err - can[h].rx - can[h].err
                  = IF told("can_read") THEN 1 ELSE 0
PROOF
  <1>1. /\ can[h].tx \in Int /\ can[h].rx \in Int /\ can[h].err \in Int
        /\ can'[h].tx \in Int /\ can'[h].rx \in Int /\ can'[h].err \in Int
    BY DEF Slot
  <1>2. \A x, y, u, v, n \in Int : x + y = u + v + n => x + y - u - v = n
    OBVIOUS
  <1>3. /\ can'[h].tx - can[h].tx = sent
        /\ can'[h].rx + can'[h].err - can[h].rx - can[h].err = received
    BY <1>1, <1>2 DEF Tallies
  <1> QED
    BY <1>3 DEF Tallies, Told

LEMMA Tally ==
  ASSUME NEW h \in Handle, can[h] \in Slot, can'[h] \in Slot,
         \E sent, received \in {0, 1} : Tallies(h, sent, received)
  PROVE  LET told(op) == ret'.op = op /\ ret'.h = h /\ ret'.rc = "NOERROR"
         IN  /\ can'[h].tx - can[h].tx = IF told("can_write") THEN 1 ELSE 0
             /\ can'[h].rx + can'[h].err - can[h].rx - can[h].err
                  = IF told("can_read") THEN 1 ELSE 0
PROOF
  BY Tallied

(* The calls that carry frames, as a handle that goes on sees them. *)
LEMMA Carried ==
  ASSUME Inv, Idle \/ ret = NoRet, NEW h \in Handle,
         \/ \E k, msg : Idle /\ can_write(k, msg)
         \/ \E op \in {"can_status", "can_busload"} : \E k : Idle /\ can_status(op, k)
         \/ \E k : Idle /\ can_read(k)
         \/ Reading
  PROVE  LET cleared == can[h].status \ can'[h].status
         IN  /\ cleared \cap {"message_lost", "queue_overrun"} = {}
             /\ "transmitter_busy" \in cleared => can'[h].tx = can[h].tx + 1
             /\ \E sent, received \in {0, 1} : Tallies(h, sent, received)
             /\ Stopped(h) => can'[h] = can[h]
PROOF
  <1> DEFINE Goal == LET cleared == can[h].status \ can'[h].status
                     IN  /\ cleared \cap {"message_lost", "queue_overrun"} = {}
                         /\ "transmitter_busy" \in cleared => can'[h].tx = can[h].tx + 1
                         /\ \E sent, received \in {0, 1} : Tallies(h, sent, received)
                         /\ Stopped(h) => can'[h] = can[h]
  <1>1. can[h] \in Slot /\ can \in [Handle -> Slot]
    BY DEF Inv, TypeOK
  <1>2. can[h].tx \in Int /\ can[h].rx \in Int /\ can[h].err \in Int
    BY <1>1 DEF Slot
  <1>3. ASSUME can'[h] = can[h], ~Told("can_write", h), ~Told("can_read", h)
        PROVE  Goal
    <2>1. Tallies(h, 0, 0)
      BY <1>2, <1>3 DEF Tallies
    <2> QED
      BY <1>3, <2>1
  <1>4. ASSUME NEW k, NEW msg, Idle, can_write(k, msg)
        PROVE  Goal
    <2> DEFINE slot == can[k]
               busy == [slot EXCEPT !.status = @ \cup {"transmitter_busy"}]
               sent == [slot EXCEPT !.status = @ \ {"transmitter_busy"}, !.tx = @ + 1]
    <2>1. /\ Returns("can_write", k)
          /\ \/ UNCHANGED can /\ ~Told("can_write", k)
             \/ k \in Handle /\ ~Told("can_write", k) /\ can' = [can EXCEPT ![k] = busy]
             \/ k \in Handle /\ Told("can_write", k) /\ can' = [can EXCEPT ![k] = sent]
      BY <1>4, WriteMoves
    <2>2. ~Told("can_read", h) /\ (k # h => ~Told("can_write", h))
      BY <2>1 DEF Told, Returns
    <2>3. CASE UNCHANGED can /\ ~Told("can_write", k)
      BY <1>3, <2>2, <2>3
    <2>4. k # h => can'[h] = can[h]
      BY <1>1, <2>1
    <2>5. CASE k # h
      BY <1>3, <2>2, <2>4, <2>5
    <2>6. Stopped(h) => can'[h] = can[h]
      <3>1. UNCHANGED state \/ \E new \in Slot : Carries(k, new)
        BY <1>4, WriteEffect DEF Inv
      <3> QED
        BY <1>1, <3>1 DEF Carries, state
    <2>7. CASE k = h /\ ~Told("can_write", h) /\ can' = [can EXCEPT ![h] = busy]
      <3>1. /\ can'[h].tx = can[h].tx /\ can'[h].rx = can[h].rx /\ can'[h].err = can[h].err
            /\ can[h].status \subseteq can'[h].status
        BY <1>1, <2>7 DEF Slot
      <3>2. Tallies(h, 0, 0)
        BY <1>2, <2>2, <2>7, <3>1 DEF Tallies
      <3> QED
        BY <2>6, <3>1, <3>2
    <2>8. CASE k = h /\ Told("can_write", h) /\ can' = [can EXCEPT ![h] = sent]
      <3>1. /\ can'[h].tx = can[h].tx + 1 /\ can'[h].rx = can[h].rx /\ can'[h].err = can[h].err
            /\ can[h].status \ can'[h].status \subseteq {"transmitter_busy"}
        BY <1>1, <2>8 DEF Slot
      <3>2. Tallies(h, 1, 0)
        BY <1>2, <2>2, <2>8, <3>1 DEF Tallies
      <3> QED
        BY <2>6, <3>1, <3>2
    <2> HIDE DEF Goal, busy, sent
    <2> QED
      BY <2>1, <2>3, <2>5, <2>7, <2>8
  <1>5. ASSUME NEW k, NEW op \in {"can_status", "can_busload"}, Idle, can_status(op, k)
        PROVE  Goal
    <2>1. /\ ret'.op # "can_write" /\ ret'.op # "can_read"
          /\ \/ UNCHANGED can
             \/ k \in Handle /\ \E sts : can' = [can EXCEPT ![k] = Refresh(@, sts)]
      BY <1>5, StatusMoves
    <2>2. ~Told("can_read", h) /\ ~Told("can_write", h)
      BY <2>1 DEF Told
    <2>3. CASE can'[h] = can[h]
      BY <1>3, <2>2, <2>3
    <2>4. ASSUME NEW sts, can'[h] = Refresh(can[h], sts), ~Stopped(h)
          PROVE  Goal
      <3>1. /\ can'[h].tx = can[h].tx /\ can'[h].rx = can[h].rx /\ can'[h].err = can[h].err
            /\ (can[h].status \ can'[h].status)
                 \cap {"message_lost", "queue_overrun", "transmitter_busy"} = {}
        BY <1>1, <2>4, RefreshLatches
      <3>2. Tallies(h, 0, 0)
        BY <1>2, <2>2, <3>1 DEF Tallies
      <3> QED
        BY <2>4, <3>1, <3>2
    <2>5. can'[h] = can[h] \/ (k = h /\ \E sts : can'[h] = Refresh(can[h], sts))
      BY <1>1, <2>1
    <2>6. Stopped(h) => k # h \/ can'[h] = can[h]
      <3>1. UNCHANGED state \/ \E new \in Slot : Carries(k, new)
        BY <1>5, StatusEffect DEF Inv
      <3> QED
        BY <3>1 DEF Carries, state
    <2> HIDE DEF Goal
    <2> QED
      BY <2>3, <2>4, <2>5, <2>6
  <1>6. ASSUME NEW k, Idle, can_read(k)
        PROVE  Goal
    <2>1. UNCHANGED can /\ ~Told("can_write", h) /\ ~Told("can_read", h)
      BY <1>6 DEF can_read, RefuseHandle, Reject, Return, NoRet, Told
    <2> QED
      BY <1>3, <2>1
  <1>7. ASSUME Reading PROVE Goal
    <2> DEFINE k == call.h
    <2>1. ret = NoRet
      BY <1>7 DEF Reading, Idle
    <2>2. k \in Handle /\ ~Stopped(k)
      BY <1>7 DEF Reading, Inv, TypeOK
    <2>3. PICK new :
            /\ can' = [can EXCEPT ![k] = new]
            /\ new.tx = can[k].tx
            /\ (can[k].status \ new.status)
                 \cap {"message_lost", "queue_overrun", "transmitter_busy"} = {}
            /\ \/ new.rx = can[k].rx /\ new.err = can[k].err /\ \A m : ~Told("can_read", m)
               \/ /\ \A m : Told("can_read", m) <=> m = k
                  /\ \/ new.rx = can[k].rx + 1 /\ new.err = can[k].err
                     \/ new.rx = can[k].rx /\ new.err = can[k].err + 1
            /\ ret'.op # "can_write"
      BY <1>7, <2>1, PassMoves
    <2>4. ~Told("can_write", h)
      BY <2>3 DEF Told
    <2> HIDE DEF k
    <2>5. CASE k # h
      <3>1. can'[h] = can[h] /\ ~Told("can_read", h)
        BY <1>1, <2>3, <2>5
      <3> QED
        BY <1>3, <2>4, <3>1
    <2>6. CASE k = h
      <3>1. can'[h] = new
        BY <1>1, <2>3, <2>6
      <3>2. /\ (can[h].status \ new.status)
                 \cap {"message_lost", "queue_overrun", "transmitter_busy"} = {}
            /\ new.tx = can[h].tx
            /\ \/ new.rx + new.err = can[h].rx + can[h].err + 0 /\ ~Told("can_read", h)
               \/ new.rx + new.err = can[h].rx + can[h].err + 1 /\ Told("can_read", h)
        BY <1>2, <2>3, <2>6
      <3>3. Tallies(h, 0, 0) \/ Tallies(h, 0, 1)
        BY <1>2, <2>4, <3>1, <3>2 DEF Tallies
      <3> QED
        BY <2>2, <2>6, <3>1, <3>2, <3>3
    <2> QED
      BY <2>5, <2>6
  <1> HIDE DEF Goal
  <1>8. Goal
    BY <1>4, <1>5, <1>6, <1>7
  <1> QED
    BY <1>8 DEF Goal

(* While a can_read is in progress nothing has been told. *)
Untold == call # NoCall => ret = NoRet

LEMMA UntoldNext ==
  ASSUME TypeOK, Untold, [Next]_vars
  PROVE  Untold'
PROOF
  <1>1. CASE UNCHANGED vars
    BY <1>1 DEF vars, Untold
  <1>2. CASE ManagingCall
    BY <1>2 DEF ManagingCall, Untold, Idle
  <1>3. ASSUME NEW h, NEW msg, Idle, can_write(h, msg) PROVE UNCHANGED call
    <2> DEFINE Stores(c) == can' = c /\ UNCHANGED <<init, pcan, call>>
    <2>1. UNCHANGED state \/ \E c : Stores(c)
      BY <1>3, Refusals DEF can_write
    <2> QED
      BY <2>1 DEF state
  <1>4. ASSUME NEW h, NEW op, Idle, can_status(op, h) PROVE UNCHANGED call
    BY <1>4, Refusals DEF can_status, state
  <1>5. ASSUME NEW h, Idle, can_read(h) PROVE UNCHANGED call \/ ret' = NoRet
    BY <1>5, Refusals DEF can_read, state
  <1>6. CASE Reading
    <2>1. call' = NoCall \/ UNCHANGED ret
      BY <1>6 DEF Reading, ReadPass
    <2> QED
      BY <1>6, <2>1 DEF Reading, Untold
  <1> QED
    BY <1>1, <1>2, <1>3, <1>4, <1>5, <1>6, Sorted DEF Untold, Idle

InvR == Inv /\ Untold

LEMMA InvRInit == Init => InvR
PROOF
  BY InvInit DEF InvR, Untold, Init

LEMMA InvRNext == InvR /\ [Next]_vars => InvR'
PROOF
  BY InvNext, UntoldNext DEF InvR, Inv

LEMMA MovesNext ==
  ASSUME InvR, Next
  PROVE  Latched /\ Counting
PROOF
  <1>1. TypeOK /\ TypeOK'
    BY InvNext DEF InvR, Inv
  <1>2. \A h \in Handle : can[h] \in Slot /\ can'[h] \in Slot
    BY <1>1 DEF TypeOK
  <1>3. CASE ManagingCall
    <2>1. ASSUME NEW h \in Handle, Continues(h)
          PROVE  Stays(h)
      BY <1>3, <2>1, ManagesStays DEF ManagingCall, InvR
    <2>2. ASSUME NEW h \in Handle, Stopped(h), Running(h)'
          PROVE  can'[h].tx + can'[h].rx + can'[h].err = 0
      BY <1>3, <2>2, StartClears DEF ManagingCall, InvR
    <2>3. ASSUME NEW h \in Handle, Continues(h)
          PROVE  \E sent, received \in {0, 1} : Tallies(h, sent, received)
      <3>1. ~Told("can_write", h) /\ ~Told("can_read", h)
        BY <1>3 DEF ManagingCall, Told
      <3>2. can[h].tx \in Int /\ can[h].rx \in Int /\ can[h].err \in Int
        BY <1>2 DEF Slot
      <3>3. Tallies(h, 0, 0)
        BY <2>1, <2>3, <3>1, <3>2 DEF Stays, Tallies
      <3> QED
        BY <3>3
    <2>4. Latched
      BY <2>1 DEF Latched, Stays
    <2>5. Counting
      BY <1>2, <2>2, <2>3, Tally DEF Counting
    <2> QED
      BY <2>4, <2>5
  <1>4. CASE ~ManagingCall
    <2> DEFINE Moved(h) == LET cleared == can[h].status \ can'[h].status
                           IN  /\ cleared \cap {"message_lost", "queue_overrun"} = {}
                               /\ "transmitter_busy" \in cleared => can'[h].tx = can[h].tx + 1
    <2>1. ASSUME NEW h \in Handle
          PROVE  /\ Moved(h)
                 /\ \E sent, received \in {0, 1} : Tallies(h, sent, received)
                 /\ Stopped(h) => can'[h] = can[h]
      <3>1. Idle \/ ret = NoRet
        BY DEF InvR, Untold, Idle
      <3>2. \/ \E k, msg : Idle /\ can_write(k, msg)
            \/ \E op \in {"can_status", "can_busload"} : \E k : Idle /\ can_status(op, k)
            \/ \E k : Idle /\ can_read(k)
            \/ Reading
        BY <1>1, <1>4, Sorted
      <3> QED
        BY <3>1, <3>2, Carried DEF InvR
    <2>2. Latched
      BY <2>1 DEF Latched
    <2>3. \A h \in Handle : ~(Stopped(h) /\ Running(h)')
      BY <2>1 DEF Stopped, Running
    <2> HIDE DEF Moved
    <2>4. Counting
      BY <1>2, <2>1, <2>3, Tally DEF Counting
    <2> QED
      BY <2>2, <2>4
  <1> QED
    BY <1>3, <1>4

(* Once set, the loss bits of the status register stay until can_start,    *)
(* and 'transmitter busy' goes only with a frame sent.                     *)
THEOREM LossNewsKept == Spec => LossIsLatched
PROOF
  <1>1. InvR /\ [Next]_vars => [Latched]_vars
    BY MovesNext
  <1> QED
    BY <1>1, InvRInit, InvRNext, PTL DEF Spec, LossIsLatched, Latched

(* Between two starts the frame counters move by one, exactly with a call  *)
(* that returned NOERROR, and a start sets them to zero.                   *)
THEOREM CountersTellClients == Spec => CountersTell
PROOF
  <1>1. InvR /\ [Next]_vars => [Counting]_vars
    BY MovesNext
  <1> QED
    BY <1>1, InvRInit, InvRNext, PTL DEF Spec, CountersTell, Counting
===============================================================================
