---------------------------- MODULE ConvertProofs -----------------------------
(***************************************************************************)
(* What the conversions keep, for every input.                             *)
(***************************************************************************)
EXTENDS CanBtr, MsgParse, MsgFormat, SequenceTheorems, WellFoundedInduction, TLAPS

(***************************************************************************)
(* Lines of can_send.                                                      *)
(***************************************************************************)
Bytes(dlc) == IF dlc <= 8 THEN dlc ELSE <<12, 16, 20, 24, 32, 48, 64>>[dlc - 8]

(* The length of n bytes is the shortest one that holds them. *)
LEMMA ShortestLength ==
  ASSUME NEW n \in 0..64
  PROVE  /\ LEN2DLC(n) \in 0..15 /\ n <= Bytes(LEN2DLC(n))
         /\ \A dlc \in 0 .. LEN2DLC(n) - 1 : Bytes(dlc) < n
         /\ n <= 8 => LEN2DLC(n) <= 8
PROOF
  <1>1. CASE n \in 0..8
    <2>1. LEN2DLC(n) = n
      BY <1>1 DEF LEN2DLC
    <2> QED
      BY <1>1, <2>1 DEF Bytes
  <1> DEFINE Longer == /\ Bytes(9) = 12 /\ Bytes(10) = 16 /\ Bytes(11) = 20 /\ Bytes(12) = 24
                       /\ Bytes(13) = 32 /\ Bytes(14) = 48 /\ Bytes(15) = 64
  <1>2. Longer /\ \A dlc \in 0..8 : Bytes(dlc) = dlc
    BY DEF Bytes
  <1>3. CASE n \in 9..64
    <2>1. LEN2DLC(n) = IF n > 48 THEN 15 ELSE IF n > 32 THEN 14 ELSE IF n > 24 THEN 13
                       ELSE IF n > 20 THEN 12 ELSE IF n > 16 THEN 11 ELSE IF n > 12 THEN 10 ELSE 9
      BY <1>3 DEF LEN2DLC
    <2>2. PICK k \in 9..15 : k = LEN2DLC(n)
      BY <1>3, <2>1
    <2>3. n <= Bytes(k)
      BY <1>2, <1>3, <2>1, <2>2
    <2>4. \A dlc \in 0 .. k - 1 : Bytes(dlc) < n
      <3>1. \A dlc \in 9 .. k - 1 : dlc = 9 \/ dlc = 10 \/ dlc = 11 \/ dlc = 12 \/ dlc = 13 \/ dlc = 14
        BY <2>2
      <3>2. \A dlc \in 9 .. k - 1 : Bytes(dlc) < n
        BY <1>2, <1>3, <2>1, <2>2, <3>1
      <3>3. \A dlc \in 0 .. k - 1 : dlc \in 0..8 \/ dlc \in 9 .. k - 1
        BY <2>2
      <3> QED
        BY <1>2, <1>3, <3>2, <3>3
    <2> QED
      BY <1>3, <2>2, <2>3, <2>4
  <1> QED
    BY <1>1, <1>3

(* What is read so far passes the checks that can_write makes of it, and    *)
(* once the length is there it fits the bytes.                              *)
Before == {"id", "type", "flags", "payload"}

Passes ==
  /\ at # "refused" => msg.bits <= (IF msg.xtd THEN 29 ELSE 11)
  /\ msg.brs \/ msg.esi => msg.fdf
  /\ msg.dlc > 8 /\ at # "refused" => msg.fdf
  /\ at \in Before => msg.dlc = 0 /\ ~msg.rtr
  /\ at # "refused" => len <= MaxLength
  /\ at \in Before \ {"payload"} => len = 0

Fits ==
  at \notin Before \cup {"refused"} /\ ~msg.rtr =>
    len <= Bytes(msg.dlc) /\ \A dlc \in 0 .. msg.dlc - 1 : Bytes(dlc) < len

ParseInv == ParseTypeOK /\ Passes /\ Fits

LEMMA Limits ==
  /\ CycleLimit("U") \in Nat /\ CycleLimit("C") \in Nat
  /\ \A unit \in {"C", "U"}, value \in Nat :
       value <= CycleLimit(unit) =>
         Microseconds(unit, value) \in Nat /\ Microseconds(unit, value) <= CycleLimit("U")
PROOF
  BY SMT DEF CycleLimit, Microseconds

LEMMA ParseInvInit == ParseInit => ParseInv
PROOF
  <1> QED
    BY Limits, ParseAssumption, SMTT(60) DEF ParseInit, ParseInv, ParseTypeOK, Passes, Fits, Before, MaxLength

LEMMA ParseInvNext == ParseInv /\ [ParseNext]_parseVars => ParseInv'
PROOF
  <1> SUFFICES ASSUME ParseInv, [ParseNext]_parseVars PROVE ParseInv'
    OBVIOUS
  <1> USE ParseAssumption DEF ParseInv, ParseTypeOK, Passes, Before
  <1>1. ASSUME NEW digits \in {2, 3, 8, 9}, NEW bits \in {11, 12, 29, 30}, ParseId(digits, bits)
        PROVE  ParseInv'
    <2> DEFINE fits == digits \in {3, 8} /\ bits <= (IF digits = 8 THEN 29 ELSE 11)
    <2>1. /\ at = "id" /\ UNCHANGED <<len, times>>
          /\ msg' = [msg EXCEPT !.xtd = (digits = 8), !.bits = IF fits THEN bits ELSE 0]
          /\ at' = IF fits THEN "type" ELSE "refused"
      BY <1>1 DEF ParseId
    <2>2. (IF fits THEN bits ELSE 0) \in 0..29 /\ (digits = 8) \in BOOLEAN
      OBVIOUS
    <2>3. /\ msg' \in [bits : 0..29, xtd : BOOLEAN, fdf : BOOLEAN, brs : BOOLEAN, esi : BOOLEAN,
                       rtr : BOOLEAN, dlc : 0..15]
          /\ msg'.bits = (IF fits THEN bits ELSE 0) /\ msg'.xtd = (digits = 8)
          /\ msg'.fdf = msg.fdf /\ msg'.brs = msg.brs /\ msg'.esi = msg.esi
          /\ msg'.rtr = msg.rtr /\ msg'.dlc = msg.dlc
      BY <2>1, <2>2, ZenonT(90)
    <2>4. fits => bits <= (IF msg'.xtd THEN 29 ELSE 11)
      BY <2>3
    <2> HIDE DEF fits
    <2> QED
      BY <2>1, <2>3, <2>4 DEF Fits, MaxLength
  <1>2. ASSUME NEW type \in {"#", "##", "other"}, ParseType(type) PROVE ParseInv'
    BY <1>2 DEF ParseType, Refuse, Fits, MaxLength
  <1>3. ASSUME NEW flags \in 0..15, ParseFlags(flags) PROVE ParseInv'
    <2>1. CASE LegalFlags(flags)
      <3>1. msg' = [msg EXCEPT !.fdf = flags >= 4, !.brs = flags % 2 = 1,
                                !.esi = (flags \div 2) % 2 = 1]
        BY <1>3, <2>1 DEF ParseFlags
      <3>2. (flags % 2 = 1) \in BOOLEAN /\ ((flags \div 2) % 2 = 1) \in BOOLEAN /\ flags >= 4
        BY <2>1 DEF LegalFlags
      <3>3. /\ msg' \in [bits : 0..29, xtd : BOOLEAN, fdf : BOOLEAN, brs : BOOLEAN, esi : BOOLEAN,
                         rtr : BOOLEAN, dlc : 0..15]
            /\ msg'.bits = msg.bits /\ msg'.xtd = msg.xtd /\ msg'.fdf
            /\ msg'.rtr = msg.rtr /\ msg'.dlc = msg.dlc
        BY <3>1, <3>2, ZenonT(90)
      <3>4. at = "flags" /\ at' = "payload" /\ UNCHANGED <<len, times>>
        BY <1>3, <2>1 DEF ParseFlags
      <3> QED
        BY <3>3, <3>4 DEF Fits, MaxLength
    <2>2. CASE ~LegalFlags(flags)
      BY <1>3, <2>2 DEF ParseFlags, Refuse, Fits, MaxLength
    <2> QED
      BY <2>1, <2>2
  <1>4. ASSUME NEW digits \in {{}} \cup {{d} : d \in 0..9}, ParseRemote(digits) PROVE ParseInv'
    <2>1. at = "payload" /\ len = 0 /\ UNCHANGED <<len, times>>
      BY <1>4 DEF ParseRemote
    <2>2. PICK k \in 0..9 : /\ msg' = [msg EXCEPT !.rtr = TRUE, !.dlc = k]
                            /\ at' = "refused" \/ (at' = "extra" /\ k <= 8)
      <3>1. CASE digits = {}
        <4>1. msg' = [msg EXCEPT !.rtr = TRUE, !.dlc = 0] /\ at' = "extra"
          BY <1>4, <3>1 DEF ParseRemote
        <4> QED
          BY <4>1
      <3>2. ASSUME NEW d \in 0..9, digits = {d}
            PROVE  /\ msg' = [msg EXCEPT !.rtr = TRUE, !.dlc = d]
                   /\ at' = "refused" \/ (at' = "extra" /\ d <= 8)
        <4>1. d = CHOOSE e \in digits : TRUE
          BY <3>2
        <4>2. digits # {}
          BY <3>2
        <4>3. msg' = [msg EXCEPT !.rtr = TRUE, !.dlc = d]
          BY <1>4, <4>1, <4>2, Zenon DEF ParseRemote
        <4>4. at' = IF \A e \in digits : e <= 8 THEN "extra" ELSE "refused"
          BY <1>4, Zenon DEF ParseRemote
        <4>5. (\A e \in digits : e <= 8) <=> d <= 8
          BY <3>2
        <4> QED
          BY <4>3, <4>4, <4>5
      <3> QED
        BY <3>1, <3>2
    <2>3. msg' \in [bits : 0..29, xtd : BOOLEAN, fdf : BOOLEAN, brs : BOOLEAN, esi : BOOLEAN,
                    rtr : BOOLEAN, dlc : 0..15]
      <3>1. k \in 0..15 /\ TRUE \in BOOLEAN
        OBVIOUS
      <3> QED
        BY <2>2, <3>1, Zenon
    <2>4. /\ msg'.bits = msg.bits /\ msg'.xtd = msg.xtd /\ msg'.fdf = msg.fdf
          /\ msg'.brs = msg.brs /\ msg'.esi = msg.esi /\ msg'.rtr = TRUE /\ msg'.dlc = k
      BY <2>2, Zenon
    <2> QED
      BY <2>1, <2>2, <2>3, <2>4 DEF Fits, MaxLength
  <1>5. ASSUME ParseByte PROVE ParseInv'
    BY <1>5 DEF ParseByte, Refuse, Fits, MaxLength
  <1>6. ASSUME ParseOdd \/ ParseRest PROVE ParseInv'
    BY <1>6 DEF ParseOdd, ParseRest, Refuse, Fits, MaxLength
  <1>7. ASSUME ParseData PROVE ParseInv'
    BY <1>7, ShortestLength, SMTT(60) DEF ParseData, Fits, MaxLength
  <1>8. ASSUME NEW dlc \in 0..15, ParseExtra(dlc) PROVE ParseInv'
    BY <1>8 DEF ParseExtra, Refuse, Fits, MaxLength
  <1>9. ASSUME NEW count \in Counts, ParseCount(count) PROVE ParseInv'
    BY <1>9 DEF ParseCount, Refuse, Fits, MaxLength
  <1>10. ASSUME NEW unit \in {"C", "U"}, NEW value \in Cycles, ParseCycle(unit, value)
         PROVE  ParseInv'
    <2>1. value <= CycleLimit(unit) => Microseconds(unit, value) \in 0 .. CycleLimit("U")
      BY Limits
    <2> QED
      BY <1>10, <2>1 DEF ParseCycle, Refuse, Fits, MaxLength
  <1>11. ASSUME NEW step \in {-1, 1}, ParseStep(step) PROVE ParseInv'
    BY <1>11 DEF ParseStep, Fits, MaxLength
  <1>12. ASSUME ParseEnd PROVE ParseInv'
    BY <1>12 DEF ParseEnd, Fits, MaxLength
  <1>13. ASSUME UNCHANGED parseVars PROVE ParseInv'
    BY <1>13 DEF parseVars, Fits, MaxLength
  <1> QED
    <2> HIDE DEF ParseInv
    <2> QED
      BY <1>1, <1>2, <1>3, <1>4, <1>5, <1>6, <1>7, <1>8, <1>9, <1>10, <1>11, <1>12, <1>13,
         ZenonT(60) DEF ParseNext

(* A line that is accepted becomes a message that can_write does not refuse *)
(* for its form, whatever the line says, in the shortest length that holds  *)
(* its data.  That it is a frame of the standard is more, and does not      *)
(* hold: an RTR frame of CAN FD passes both.                                *)
THEOREM LinesAreWritable == ParseSpec => []ParsedWritable
PROOF
  <1>1. ParseInv => ParsedWritable
    BY DEF ParseInv, ParsedWritable, DataFits, Passes, Fits, Before, Bytes
  <1> QED
    BY <1>1, ParseInvInit, ParseInvNext, PTL DEF ParseSpec
-------------------------------------------------------------------------------
(***************************************************************************)
(* Induction over the natural numbers, as a set that holds them all.       *)
(***************************************************************************)
LEMMA LeastMember ==
  ASSUME NEW T \in SUBSET Nat, T # {}
  PROVE  \E m \in T : \A n \in T : m <= n
PROOF
  <1> DEFINE less == {ss \in Nat \X Nat : ss[1] < ss[2]}
  <1>1. IsWellFoundedOn(less, Nat)
    BY NatLessThanWellFounded DEF OpToRel
  <1>2. \A m, n \in Nat : m < n => <<m, n>> \in less
    OBVIOUS
  <1> HIDE DEF less
  <1>3. PICK m \in T : \A n \in T : ~(<<n, m>> \in less)
    BY <1>1, WFMin
  <1>4. \A n \in T : ~(n < m)
    BY <1>2, <1>3
  <1> QED
    BY <1>3, <1>4

LEMMA Induction ==
  ASSUME NEW S, 0 \in S, \A n \in Nat : n \in S => n + 1 \in S
  PROVE  Nat \subseteq S
PROOF
  <1> SUFFICES ASSUME Nat \ S # {} PROVE FALSE
    OBVIOUS
  <1>1. PICK n \in Nat \ S : \A m \in Nat \ S : n <= m
    BY LeastMember
  <1>2. n # 0 /\ n - 1 \in Nat /\ n - 1 \notin Nat \ S
    BY <1>1
  <1> QED
    BY <1>2
-------------------------------------------------------------------------------
(***************************************************************************)
(* Bit-rate strings.                                                       *)
(***************************************************************************)
TimingKeys == NominalKeys \cup DataKeys \cup {"nom_sam"}

Rates == [frequency : Int, timing : [TimingKeys -> 0..UINT16_MAX]]

ScanType == [bitrate : Rates, count : SUBSET Keys, ok : BOOLEAN]

(* What a pair stores, and whether a bit-rate shows it. *)
Stored(b, key, number) ==
  CASE key = "f_clock"     -> [b EXCEPT !.frequency = number]
    [] key = "f_clock_mhz" -> [b EXCEPT !.frequency = number * MHz]
    [] OTHER               -> [b EXCEPT !.timing[key] = number]

Hz(key, number) == IF key = "f_clock_mhz" THEN number * MHz ELSE number

Shows(b, key, number) ==
  IF key \in TimingKeys THEN b.timing[key] = number ELSE b.frequency = Hz(key, number)

LEMMA KeysAre ==
  /\ Keys = TimingKeys \cup {"f_clock", "f_clock_mhz"} /\ DOMAIN NoTiming = TimingKeys
  /\ "f_clock" \notin TimingKeys /\ "f_clock_mhz" \notin TimingKeys
  /\ \A key \in TimingKeys : Counter(key) = key
  /\ Counter("f_clock") = "f_clock" /\ Counter("f_clock_mhz") = "f_clock"
PROOF
  BY DEF Keys, TimingKeys, NominalKeys, DataKeys, NoTiming, Counter

LEMMA LimitIs ==
  /\ UINT8_MAX \in Nat /\ UINT16_MAX \in Nat /\ INT32_MAX \in Nat /\ UINT8_MAX <= UINT16_MAX
  /\ Limit("f_clock") = INT32_MAX /\ Limit("f_clock_mhz") = INT32_MAX \div MHz
  /\ Limit("nom_sam") = UINT8_MAX /\ \A key \in NominalKeys \cup DataKeys : Limit(key) = UINT16_MAX
  /\ \A key \in Keys : Limit(key) \in Nat
PROOF
  <1>1. Limit("f_clock") = INT32_MAX
    BY SMT DEF Limit
  <1>2. Limit("f_clock_mhz") = INT32_MAX \div MHz
    BY SMT DEF Limit
  <1>3. Limit("nom_sam") = UINT8_MAX
    BY SMT DEF Limit
  <1>4. ASSUME NEW key \in NominalKeys \cup DataKeys PROVE Limit(key) = UINT16_MAX
    <2>1. key # "f_clock" /\ key # "f_clock_mhz" /\ key # "nom_sam"
      BY DEF NominalKeys, DataKeys
    <2> QED
      BY <2>1, SMT DEF Limit
  <1>5. UINT8_MAX \in Nat /\ UINT16_MAX \in Nat /\ INT32_MAX \in Nat /\ UINT8_MAX <= UINT16_MAX
    BY SMT DEF UINT8_MAX, UINT16_MAX, INT32_MAX
  <1>6. INT32_MAX \div MHz \in Nat
    BY SMT DEF INT32_MAX, MHz
  <1>7. \A key \in Keys : Limit(key) \in Nat
    BY <1>1, <1>2, <1>3, <1>4, <1>5, <1>6, KeysAre DEF TimingKeys
  <1> QED
    BY <1>1, <1>2, <1>3, <1>4, <1>5, <1>7

LEMMA LimitsAre ==
  ASSUME NEW key \in Keys, NEW number \in Nat, number <= Limit(key)
  PROVE  /\ key \in TimingKeys => number \in 0..UINT16_MAX
         /\ key = "nom_sam" => number \in 0..UINT8_MAX
         /\ key \notin TimingKeys => Hz(key, number) \in Nat /\ Hz(key, number) <= INT32_MAX
PROOF
  <1>1. CASE key = "f_clock"
    <2>1. number <= INT32_MAX /\ Hz(key, number) = number
      BY <1>1, LimitIs, SMT DEF Hz
    <2> QED
      BY <1>1, <2>1, KeysAre
  <1>2. CASE key = "f_clock_mhz"
    <2>1. number <= INT32_MAX \div MHz /\ Hz(key, number) = number * MHz
      BY <1>2, LimitIs, SMT DEF Hz
    <2>2. Hz(key, number) \in Nat /\ Hz(key, number) <= INT32_MAX
      BY <2>1, SMT DEF INT32_MAX, MHz
    <2> QED
      BY <1>2, <2>2, KeysAre
  <1>3. CASE key = "nom_sam"
    <2>1. number <= UINT8_MAX /\ key \in TimingKeys
      BY <1>3, LimitIs DEF TimingKeys
    <2> QED
      BY <2>1, LimitIs
  <1>4. CASE key \in NominalKeys \cup DataKeys
    <2>1. number <= UINT16_MAX /\ key \in TimingKeys /\ key # "nom_sam"
      BY <1>4, LimitIs DEF TimingKeys, NominalKeys, DataKeys
    <2> QED
      BY <2>1, LimitIs
  <1> QED
    BY <1>1, <1>2, <1>3, <1>4, KeysAre DEF TimingKeys

LEMMA StoredIs ==
  ASSUME NEW b \in Rates, NEW key \in Keys, NEW number \in Nat, number <= Limit(key)
  PROVE  /\ Stored(b, key, number) \in Rates
         /\ Shows(Stored(b, key, number), key, number)
         /\ key \in TimingKeys => Stored(b, key, number).frequency = b.frequency
         /\ key \notin TimingKeys => /\ Stored(b, key, number).frequency = Hz(key, number)
                                     /\ Stored(b, key, number).timing = b.timing
         /\ \A k \in TimingKeys : k # key =>
              Stored(b, key, number).timing[k] = b.timing[k]
PROOF
  <1>1. CASE key \in TimingKeys
    <2>1. number \in 0..UINT16_MAX
      BY <1>1, LimitsAre
    <2>2. Stored(b, key, number) = [b EXCEPT !.timing[key] = number]
      BY <1>1, KeysAre, SMT DEF Stored
    <2>3. PICK c : c = Stored(b, key, number)
      OBVIOUS
    <2>4. c = [b EXCEPT !.timing[key] = number]
      BY <2>2, <2>3
    <2>5. /\ c \in Rates /\ c.frequency = b.frequency /\ c.timing = [b.timing EXCEPT ![key] = number]
      BY <2>1, <2>4, <1>1 DEF Rates
    <2>6. c.timing[key] = number /\ \A k \in TimingKeys : k # key => c.timing[k] = b.timing[k]
      BY <2>1, <2>5, <1>1 DEF Rates
    <2> QED
      BY <1>1, <2>3, <2>5, <2>6 DEF Shows
  <1>2. CASE key \notin TimingKeys
    <2>1. Hz(key, number) \in Int
      BY <1>2, LimitsAre
    <2>2. Stored(b, key, number) = [b EXCEPT !.frequency = Hz(key, number)]
      BY <1>2, KeysAre, SMT DEF Stored, Hz
    <2>3. PICK c : c = Stored(b, key, number)
      OBVIOUS
    <2>4. c = [b EXCEPT !.frequency = Hz(key, number)]
      BY <2>2, <2>3
    <2>5. c \in Rates /\ c.frequency = Hz(key, number) /\ c.timing = b.timing
      BY <2>1, <2>4 DEF Rates
    <2> QED
      BY <1>2, <2>3, <2>5 DEF Shows
  <1> QED
    BY <1>1, <1>2

LEMMA PairIs ==
  ASSUME NEW s \in ScanType, NEW key \in Keys, NEW number \in Nat
  PROVE  /\ Pair(s, <<key, number>>) \in ScanType
         /\ ~s.ok \/ number > Limit(key) =>
              ~Pair(s, <<key, number>>).ok /\ Pair(s, <<key, number>>).bitrate = s.bitrate
         /\ s.ok /\ ~(number > Limit(key)) =>
              /\ Pair(s, <<key, number>>).ok <=> Counter(key) \notin s.count
              /\ Pair(s, <<key, number>>).count = s.count \cup {Counter(key)}
              /\ Pair(s, <<key, number>>).bitrate = Stored(s.bitrate, key, number)
PROOF
  <1>1. PICK p : p = Pair(s, <<key, number>>)
    OBVIOUS
  <1>2. CASE ~s.ok \/ number > Limit(key)
    <2>1. p = [s EXCEPT !.ok = FALSE]
      BY <1>1, <1>2 DEF Pair
    <2>2. p \in ScanType /\ ~p.ok /\ p.bitrate = s.bitrate
      BY <2>1, Zenon DEF ScanType
    <2> QED
      BY <1>1, <1>2, <2>2
  <1>3. CASE s.ok /\ ~(number > Limit(key))
    <2>1. PICK c, o, b : /\ c = s.count \cup {Counter(key)} /\ o = (Counter(key) \notin s.count)
                         /\ b = Stored(s.bitrate, key, number)
      OBVIOUS
    <2>2. p = [s EXCEPT !.ok = o, !.count = c, !.bitrate = b]
      BY <1>1, <1>3, <2>1 DEF Pair, Stored
    <2>3. c \in SUBSET Keys /\ o \in BOOLEAN /\ b \in Rates
      <3>1. number <= Limit(key)
        BY <1>3, LimitIs
      <3> QED
        BY <1>3, <2>1, <3>1, KeysAre, StoredIs DEF ScanType
    <2>4. p \in ScanType /\ p.ok = o /\ p.count = c /\ p.bitrate = b
      BY <2>2, <2>3, Zenon DEF ScanType
    <2> QED
      BY <1>1, <1>3, <2>1, <2>4
  <1> QED
    BY <1>2, <1>3

(* A scan has read a set of pairs: while nothing was wrong, the bit-rate    *)
(* shows each of them, and is zero where there is none.                     *)
InRange(s) ==
  /\ s \in ScanType /\ s.bitrate.frequency \in 0 .. INT32_MAX
  /\ s.bitrate.timing["nom_sam"] \in 0 .. UINT8_MAX

Reads(s, pairs) ==
  /\ InRange(s)
  /\ s.ok => /\ \A p \in pairs : Counter(p[1]) \in s.count /\ Shows(s.bitrate, p[1], p[2])
             /\ \A c \in s.count : \E p \in pairs : Counter(p[1]) = c
             /\ \A key \in TimingKeys : key \notin s.count => s.bitrate.timing[key] = 0
             /\ "f_clock" \notin s.count => s.bitrate.frequency = 0

LEMMA BlankReads == Reads(Blank, {})
PROOF
  <1>1. NoTiming \in [TimingKeys -> 0 .. UINT16_MAX] /\ \A key \in TimingKeys : NoTiming[key] = 0
    BY LimitIs DEF NoTiming, TimingKeys
  <1>2. Blank.bitrate.frequency = 0 /\ Blank.bitrate.timing = NoTiming /\ Blank.count = {} /\ Blank.ok
    BY DEF Blank, Index
  <1>3. Blank \in ScanType
    <2>1. [frequency |-> 0, timing |-> NoTiming] \in Rates
      BY <1>1 DEF Rates
    <2>2. {} \in SUBSET Keys /\ TRUE \in BOOLEAN
      OBVIOUS
    <2> QED
      BY <2>1, <2>2 DEF Blank, Index, ScanType
  <1>4. "nom_sam" \in TimingKeys
    BY DEF TimingKeys
  <1> QED
    BY <1>1, <1>2, <1>3, <1>4, LimitIs DEF Reads, InRange

LEMMA PairReads ==
  ASSUME NEW s, NEW pairs \in SUBSET (Keys \X Nat), Reads(s, pairs),
         NEW key \in Keys, NEW number \in Nat
  PROVE  Reads(Pair(s, <<key, number>>), pairs \cup {<<key, number>>})
PROOF
  <1> DEFINE q == Pair(s, <<key, number>>)
  <1>1. s \in ScanType
    BY DEF Reads, InRange
  <1>2. InRange(q)
    <2>1. q \in ScanType
      BY <1>1, PairIs
    <2>2. CASE ~s.ok \/ number > Limit(key)
      BY <1>1, <2>1, <2>2, PairIs DEF Reads, InRange
    <2>3. CASE s.ok /\ ~(number > Limit(key))
      <3>1. number <= Limit(key)
        BY <2>3, LimitIs
      <3>2. PICK b : b = s.bitrate /\ b \in Rates
        BY <1>1 DEF ScanType
      <3>3. q.bitrate = Stored(b, key, number)
        BY <1>1, <2>3, <3>2, PairIs
      <3>4. b.frequency \in 0 .. INT32_MAX /\ b.timing["nom_sam"] \in 0 .. UINT8_MAX
        BY <3>2 DEF Reads, InRange
      <3>5. q.bitrate.frequency \in 0 .. INT32_MAX
        BY <3>1, <3>2, <3>3, <3>4, StoredIs, LimitsAre, LimitIs
      <3>6. q.bitrate.timing["nom_sam"] \in 0 .. UINT8_MAX
        <4>1. "nom_sam" \in TimingKeys
          BY DEF TimingKeys
        <4>2. CASE key = "nom_sam"
          <5>1. Shows(q.bitrate, key, number)
            BY <3>1, <3>2, <3>3, StoredIs
          <5> QED
            BY <3>1, <4>1, <4>2, <5>1, LimitsAre DEF Shows
        <4>3. CASE key # "nom_sam"
          BY <3>1, <3>2, <3>3, <3>4, <4>1, <4>3, StoredIs
        <4> QED
          BY <4>2, <4>3
      <3> QED
        BY <2>1, <3>5, <3>6 DEF InRange
    <2> QED
      BY <2>2, <2>3
  <1> SUFFICES ASSUME q.ok
               PROVE  /\ \A p \in pairs \cup {<<key, number>>} :
                           Counter(p[1]) \in q.count /\ Shows(q.bitrate, p[1], p[2])
                      /\ \A c \in q.count : \E p \in pairs \cup {<<key, number>>} : Counter(p[1]) = c
                      /\ \A k \in TimingKeys : k \notin q.count => q.bitrate.timing[k] = 0
                      /\ "f_clock" \notin q.count => q.bitrate.frequency = 0
    BY <1>2 DEF Reads
  <1>3. s.ok /\ ~(number > Limit(key)) /\ Counter(key) \notin s.count
        /\ q.count = s.count \cup {Counter(key)} /\ q.bitrate = Stored(s.bitrate, key, number)
    BY <1>1, PairIs
  <1>4. number <= Limit(key)
    BY <1>3, LimitIs
  <1>5. PICK b, c : b = s.bitrate /\ b \in Rates /\ c = q.bitrate /\ c = Stored(b, key, number)
    BY <1>1, <1>3 DEF ScanType
  <1>6. /\ Shows(c, key, number)
        /\ key \in TimingKeys => c.frequency = b.frequency
        /\ \A k \in TimingKeys : k # key => c.timing[k] = b.timing[k]
    BY <1>4, <1>5, StoredIs
  <1>7. ASSUME NEW p \in pairs PROVE Counter(p[1]) \in q.count /\ Shows(c, p[1], p[2])
    <2>1. Counter(p[1]) \in s.count /\ Shows(b, p[1], p[2]) /\ p[1] \in Keys
      BY <1>3, <1>5 DEF Reads
    <2>2. Counter(p[1]) # Counter(key)
      BY <1>3, <2>1
    <2>3. CASE p[1] \in TimingKeys
      <3>1. p[1] # key
        BY <2>2
      <3> QED
        BY <1>3, <1>6, <2>1, <2>3, <3>1 DEF Shows
    <2>4. CASE p[1] \notin TimingKeys
      <3>1. key \in TimingKeys
        BY <2>1, <2>2, <2>4, KeysAre
      <3> QED
        BY <1>3, <1>6, <2>1, <2>4, <3>1 DEF Shows
    <2> QED
      BY <2>3, <2>4
  <1>8. \A x \in q.count : \E p \in pairs \cup {<<key, number>>} : Counter(p[1]) = x
    <2>1. ASSUME NEW x \in s.count PROVE \E p \in pairs : Counter(p[1]) = x
      BY <1>3 DEF Reads
    <2>2. <<key, number>>[1] = key
      OBVIOUS
    <2> QED
      BY <1>3, <2>1, <2>2
  <1>9. ASSUME NEW k \in TimingKeys, k \notin q.count PROVE c.timing[k] = 0
    <2>1. k # key /\ k \notin s.count
      BY <1>3, <1>9, KeysAre
    <2> QED
      BY <1>3, <1>5, <1>6, <2>1 DEF Reads
  <1>10. ASSUME "f_clock" \notin q.count PROVE c.frequency = 0
    <2>1. key \in TimingKeys /\ "f_clock" \notin s.count
      BY <1>3, <1>10, KeysAre
    <2> QED
      BY <1>3, <1>5, <1>6, <2>1 DEF Reads
  <1>11. Counter(key) \in q.count /\ <<key, number>>[1] = key /\ <<key, number>>[2] = number
    BY <1>3
  <1> HIDE DEF q
  <1> QED
    BY <1>5, <1>6, <1>7, <1>8, <1>9, <1>10, <1>11

(* The scan of a string is that of its beginnings. *)
ScanOf(f, string, n) == f[0] = Blank /\ \A i \in 1 .. n : f[i] = Pair(f[i - 1], string[i])

LEMMA ScanExists ==
  ASSUME NEW string, NEW n \in Nat
  PROVE  \E f : ScanOf(f, string, n)
PROOF
  <1> DEFINE S == {k \in Nat : \E f : ScanOf(f, string, k)}
  <1>1. 0 \in S
    <2>1. ScanOf([i \in {0} |-> Blank], string, 0)
      BY DEF ScanOf
    <2> QED
      BY <2>1
  <1>2. ASSUME NEW k \in Nat, k \in S PROVE k + 1 \in S
    <2>1. PICK f : ScanOf(f, string, k)
      BY <1>2
    <2> DEFINE g == [i \in 0 .. k + 1 |-> IF i = k + 1 THEN Pair(f[k], string[k + 1]) ELSE f[i]]
    <2>2. g[0] = Blank
      BY <2>1 DEF ScanOf
    <2>3. ASSUME NEW i \in 1 .. k + 1 PROVE g[i] = Pair(g[i - 1], string[i])
      <3>1. i - 1 \in 0 .. k + 1 /\ i - 1 # k + 1 /\ g[i - 1] = f[i - 1]
        OBVIOUS
      <3>2. CASE i = k + 1
        BY <3>1, <3>2
      <3>3. CASE i # k + 1
        BY <2>1, <3>1, <3>3 DEF ScanOf
      <3> QED
        BY <3>2, <3>3
    <2> HIDE DEF g
    <2> QED
      BY <2>2, <2>3 DEF ScanOf
  <1> HIDE DEF S
  <1>3. n \in S
    BY <1>1, <1>2, Induction
  <1> QED
    BY <1>3 DEF S

LEMMA ScanIs ==
  ASSUME NEW string \in Seq(Keys \X Nat)
  PROVE  \E f : ScanOf(f, string, Len(string)) /\ scan_bitrate(string) = f[Len(string)]
PROOF
  <1> DEFINE n == Len(string)
             Is(f) == f = [i \in 0 .. n |-> IF i = 0 THEN Blank ELSE Pair(f[i - 1], string[i])]
  <1>1. n \in Nat
    BY LenProperties
  <1>2. \E f : Is(f)
    <2>1. PICK f : ScanOf(f, string, n)
      BY <1>1, ScanExists
    <2> DEFINE g == [i \in 0 .. n |-> f[i]]
    <2>2. ASSUME NEW i \in 0 .. n
          PROVE  g[i] = IF i = 0 THEN Blank ELSE Pair(g[i - 1], string[i])
      BY <1>1, <2>1, <2>2 DEF ScanOf
    <2>3. Is(g)
      BY <2>2
    <2> QED
      BY <2>3
  <1>3. PICK f : f = (CHOOSE h : Is(h)) /\ Is(f)
    BY <1>2
  <1>4. scan_bitrate(string) = f[n]
    BY <1>3 DEF scan_bitrate
  <1>5. f = [i \in 0 .. n |-> IF i = 0 THEN Blank ELSE Pair(f[i - 1], string[i])]
    BY <1>3
  <1> HIDE DEF Is
  <1>6. f[0] = Blank
    BY <1>1, <1>5
  <1>7. \A i \in 1 .. n : i \in 0 .. n /\ i # 0
    BY <1>1
  <1>8. \A i \in 1 .. n : f[i] = Pair(f[i - 1], string[i])
    BY <1>5, <1>7
  <1> QED
    BY <1>4, <1>6, <1>8 DEF ScanOf

(* A string is read pair by pair. *)
LEMMA StringReads ==
  ASSUME NEW string \in Seq(Keys \X Nat)
  PROVE  Reads(scan_bitrate(string), {string[i] : i \in 1 .. Len(string)})
PROOF
  <1>1. PICK f : ScanOf(f, string, Len(string)) /\ scan_bitrate(string) = f[Len(string)]
    BY ScanIs
  <1> DEFINE n == Len(string)
             S == {k \in Nat : k <= n => Reads(f[k], {string[i] : i \in 1 .. k})}
  <1>2. n \in Nat
    BY LenProperties
  <1>3. 0 \in S
    <2>1. {string[i] : i \in 1 .. 0} = {}
      OBVIOUS
    <2> QED
      BY <1>1, <2>1, BlankReads DEF ScanOf
  <1>4. ASSUME NEW k \in Nat, k \in S PROVE k + 1 \in S
    <2> SUFFICES ASSUME k + 1 <= n PROVE Reads(f[k + 1], {string[i] : i \in 1 .. k + 1})
      OBVIOUS
    <2>1. k + 1 \in 1 .. n /\ (k + 1) - 1 = k /\ Reads(f[k], {string[i] : i \in 1 .. k})
      BY <1>2, <1>4
    <2>2. PICK key \in Keys, number \in Nat : string[k + 1] = <<key, number>>
      <3>1. string[k + 1] \in Keys \X Nat
        BY <2>1
      <3> QED
        BY <3>1, SMTT(60)
    <2>3. f[k + 1] = Pair(f[k], <<key, number>>)
      BY <1>1, <2>1, <2>2 DEF ScanOf
    <2>4. {string[i] : i \in 1 .. k} \in SUBSET (Keys \X Nat)
      BY <1>2, <2>1
    <2>5. {string[i] : i \in 1 .. k + 1} = {string[i] : i \in 1 .. k} \cup {<<key, number>>}
      <3>1. \A i \in 1 .. k + 1 : i \in 1 .. k \/ i = k + 1
        OBVIOUS
      <3>2. \A i \in 1 .. k : i \in 1 .. k + 1
        OBVIOUS
      <3> QED
        BY <2>2, <3>1, <3>2, SMTT(60)
    <2>6. PICK s, pairs : s = f[k] /\ pairs = {string[i] : i \in 1 .. k}
      OBVIOUS
    <2>7. Reads(Pair(s, <<key, number>>), pairs \cup {<<key, number>>})
      BY <2>1, <2>4, <2>6, PairReads
    <2> QED
      BY <2>3, <2>5, <2>6, <2>7
  <1> HIDE DEF S
  <1>5. n \in S
    BY <1>2, <1>3, <1>4, Induction
  <1> QED
    BY <1>1, <1>2, <1>5 DEF S

(* One that says nothing twice, and nothing too large, is accepted. *)
LEMMA StringGood ==
  ASSUME NEW string \in Seq(Keys \X Nat),
         \A i \in 1 .. Len(string) : string[i][2] <= Limit(string[i][1]),
         \A i, j \in 1 .. Len(string) : Counter(string[i][1]) = Counter(string[j][1]) => i = j
  PROVE  /\ scan_bitrate(string).ok
         /\ scan_bitrate(string).count = {Counter(string[i][1]) : i \in 1 .. Len(string)}
PROOF
  <1>1. PICK f : ScanOf(f, string, Len(string)) /\ scan_bitrate(string) = f[Len(string)]
    BY ScanIs
  <1> DEFINE n == Len(string)
             Counters(k) == {Counter(string[i][1]) : i \in 1 .. k}
             S == {k \in Nat : k <= n => /\ f[k] \in ScanType /\ f[k].ok
                                         /\ f[k].count = Counters(k)}
  <1>2. n \in Nat
    BY LenProperties
  <1>3. 0 \in S
    <2>1. {Counter(string[i][1]) : i \in 1 .. 0} = {}
      OBVIOUS
    <2>2. Blank \in ScanType /\ Blank.ok /\ Blank.count = {}
      BY BlankReads DEF Reads, InRange, Blank
    <2> QED
      BY <1>1, <2>1, <2>2 DEF ScanOf
  <1> HIDE DEF Counters
  <1>4. ASSUME NEW k \in Nat, k \in S PROVE k + 1 \in S
    <2> SUFFICES ASSUME k + 1 <= n
                 PROVE  /\ f[k + 1] \in ScanType /\ f[k + 1].ok
                        /\ f[k + 1].count = Counters(k + 1)
      OBVIOUS
    <2>1. k + 1 \in 1 .. n /\ (k + 1) - 1 = k
          /\ f[k] \in ScanType /\ f[k].ok /\ f[k].count = Counters(k)
      BY <1>2, <1>4
    <2>2. PICK key \in Keys, number \in Nat : string[k + 1] = <<key, number>>
      <3>1. string[k + 1] \in Keys \X Nat
        BY <2>1
      <3> QED
        BY <3>1, SMTT(60)
    <2>3. f[k + 1] = Pair(f[k], <<key, number>>)
      BY <1>1, <2>1, <2>2 DEF ScanOf
    <2>4. ~(number > Limit(key))
      <3>1. string[k + 1][2] = number /\ string[k + 1][1] = key
        BY <2>2
      <3> QED
        BY <2>1, <3>1, LimitIs, SMTT(60)
    <2>5. Counter(key) \notin Counters(k)
      <3>1. \A i \in 1 .. k : i \in 1 .. n /\ i # k + 1
        BY <1>2, <2>1
      <3>2. string[k + 1][1] = key
        BY <2>2
      <3> QED
        BY <2>1, <3>1, <3>2 DEF Counters
    <2>6. Counters(k + 1) = Counters(k) \cup {Counter(key)}
      <3>1. \A i \in 1 .. k + 1 : i \in 1 .. k \/ i = k + 1
        OBVIOUS
      <3>2. \A i \in 1 .. k : i \in 1 .. k + 1
        OBVIOUS
      <3>3. string[k + 1][1] = key /\ k + 1 \in 1 .. k + 1
        BY <2>2
      <3>4. \A i \in 1 .. k + 1 : Counter(string[i][1]) \in Counters(k) \cup {Counter(key)}
        BY <3>1, <3>3 DEF Counters
      <3>5. \A c \in Counters(k) \cup {Counter(key)} : \E i \in 1 .. k + 1 : c = Counter(string[i][1])
        BY <3>2, <3>3 DEF Counters
      <3>6. \A c \in Counters(k + 1) : c \in Counters(k) \cup {Counter(key)}
        BY <3>4 DEF Counters
      <3>7. \A c \in Counters(k) \cup {Counter(key)} : c \in Counters(k + 1)
        BY <3>5 DEF Counters
      <3> QED
        BY <3>6, <3>7, Zenon
    <2>7. PICK s \in ScanType : s = f[k] /\ s.ok /\ s.count = Counters(k)
      BY <2>1
    <2>8. f[k + 1] = Pair(s, <<key, number>>)
      BY <2>3, <2>7
    <2>9. f[k + 1] \in ScanType
      <3>1. Pair(s, <<key, number>>) \in ScanType
        BY PairIs
      <3> QED
        BY <2>8, <3>1
    <2>10. /\ Pair(s, <<key, number>>).ok
           /\ Pair(s, <<key, number>>).count = s.count \cup {Counter(key)}
      BY <2>4, <2>5, <2>7, PairIs, SMTT(60)
    <2>11. f[k + 1].ok /\ f[k + 1].count = Counters(k) \cup {Counter(key)}
      BY <2>7, <2>8, <2>10
    <2> QED
      BY <2>6, <2>9, <2>11
  <1> HIDE DEF S
  <1>5. n \in S
    BY <1>2, <1>3, <1>4, Induction
  <1> QED
    BY <1>1, <1>2, <1>5 DEF S, Counters

(***************************************************************************)
(* What is printed.                                                        *)
(***************************************************************************)
LEMMA Joined ==
  ASSUME NEW T, NEW a \in Seq(T), NEW b \in Seq(T), NEW c \in Seq(T), NEW s, s = a \o b \o c
  PROVE  /\ s \in Seq(T) /\ Len(s) = Len(a) + Len(b) + Len(c)
         /\ \A i \in 1 .. Len(a) : s[i] = a[i]
         /\ \A i \in 1 .. Len(b) : s[Len(a) + i] = b[i]
         /\ \A i \in 1 .. Len(c) : s[Len(a) + Len(b) + i] = c[i]
PROOF
  OBVIOUS

(* The keys that are printed, in their places. *)
PrintedKeys(data, sam) ==
  {"f_clock"} \cup NominalKeys \cup (IF sam THEN {"nom_sam"} ELSE {})
    \cup (IF data THEN DataKeys ELSE {})

ValueOf(b, key) == IF key = "f_clock" THEN b.frequency ELSE b.timing[key]

Place(key, sam) ==
  IF key = "f_clock" THEN 1 ELSE IF key = "nom_brp" THEN 2 ELSE IF key = "nom_tseg1" THEN 3
  ELSE IF key = "nom_tseg2" THEN 4 ELSE IF key = "nom_sjw" THEN 5
  ELSE IF key = "nom_sam" THEN 6
  ELSE (IF sam THEN 6 ELSE 5)
       + (IF key = "data_brp" THEN 1 ELSE IF key = "data_tseg1" THEN 2
          ELSE IF key = "data_tseg2" THEN 3 ELSE 4)

Printable(b) ==
  /\ b \in Rates /\ b.frequency \in 0 .. INT32_MAX /\ b.timing["nom_sam"] \in 0 .. UINT8_MAX

LEMMA PrintedIs ==
  ASSUME NEW b, Printable(b), NEW data \in BOOLEAN, NEW sam \in BOOLEAN
  PROVE  LET s == print_bitrate(b, data, sam) IN
         /\ s \in Seq(Keys \X Nat)
         /\ \A i \in 1 .. Len(s) : /\ s[i][1] \in PrintedKeys(data, sam)
                                  /\ s[i][2] = ValueOf(b, s[i][1]) /\ i = Place(s[i][1], sam)
         /\ \A key \in PrintedKeys(data, sam) :
              Place(key, sam) \in 1 .. Len(s) /\ s[Place(key, sam)] = <<key, ValueOf(b, key)>>
PROOF
  <1>1. /\ b.frequency \in Nat /\ \A key \in TimingKeys : key \in Keys /\ b.timing[key] \in Nat
    BY LimitIs, KeysAre DEF Printable, Rates
  <1> DEFINE a == << <<"f_clock", b.frequency>>, Value(b, "nom_brp"), Value(b, "nom_tseg1"),
                     Value(b, "nom_tseg2"), Value(b, "nom_sjw") >>
             m == IF sam THEN <<Value(b, "nom_sam")>> ELSE <<>>
             c == IF data THEN << Value(b, "data_brp"), Value(b, "data_tseg1"),
                                  Value(b, "data_tseg2"), Value(b, "data_sjw") >> ELSE <<>>
  <1>2. \A key \in TimingKeys :
          Value(b, key) = <<key, ValueOf(b, key)>> /\ Value(b, key) \in Keys \X Nat
    BY <1>1, KeysAre DEF Value, ValueOf
  <1>3. <<"f_clock", b.frequency>> = <<"f_clock", ValueOf(b, "f_clock")>>
        /\ <<"f_clock", b.frequency>> \in Keys \X Nat
    BY <1>1, KeysAre DEF ValueOf
  <1>4. {"nom_brp", "nom_tseg1", "nom_tseg2", "nom_sjw", "nom_sam", "data_brp", "data_tseg1",
         "data_tseg2", "data_sjw"} \subseteq TimingKeys
    BY DEF TimingKeys, NominalKeys, DataKeys
  <1>5. /\ a \in Seq(Keys \X Nat) /\ Len(a) = 5 /\ a[1] = <<"f_clock", ValueOf(b, "f_clock")>>
        /\ a[2] = <<"nom_brp", ValueOf(b, "nom_brp")>> /\ a[3] = <<"nom_tseg1", ValueOf(b, "nom_tseg1")>>
        /\ a[4] = <<"nom_tseg2", ValueOf(b, "nom_tseg2")>> /\ a[5] = <<"nom_sjw", ValueOf(b, "nom_sjw")>>
    <2>1. PICK v1 \in Keys \X Nat, v2 \in Keys \X Nat, v3 \in Keys \X Nat, v4 \in Keys \X Nat,
               v5 \in Keys \X Nat :
            /\ v1 = <<"f_clock", b.frequency>> /\ v2 = Value(b, "nom_brp")
            /\ v3 = Value(b, "nom_tseg1") /\ v4 = Value(b, "nom_tseg2") /\ v5 = Value(b, "nom_sjw")
      BY <1>2, <1>3, <1>4
    <2>2. PICK t : t = a
      OBVIOUS
    <2>3. t = <<v1, v2, v3, v4, v5>>
      BY <2>1, <2>2
    <2>4. /\ t \in Seq(Keys \X Nat) /\ Len(t) = 5
          /\ t[1] = v1 /\ t[2] = v2 /\ t[3] = v3 /\ t[4] = v4 /\ t[5] = v5
      BY <2>3
    <2> HIDE DEF a
    <2> QED
      BY <1>2, <1>3, <1>4, <2>1, <2>2, <2>4
  <1>6. /\ m \in Seq(Keys \X Nat) /\ Len(m) = (IF sam THEN 1 ELSE 0)
        /\ sam => m[1] = <<"nom_sam", ValueOf(b, "nom_sam")>>
    <2>1. PICK v \in Keys \X Nat : v = Value(b, "nom_sam")
      BY <1>2, <1>4
    <2>2. v = <<"nom_sam", ValueOf(b, "nom_sam")>>
      BY <1>2, <1>4, <2>1
    <2>3. CASE sam
      <3>1. m = <<v>>
        BY <2>1, <2>3
      <3>2. m \in Seq(Keys \X Nat) /\ Len(m) = 1 /\ m[1] = v
        BY <3>1, SMTT(60)
      <3> QED
        BY <2>2, <2>3, <3>2
    <2>4. CASE ~sam
      <3>1. m = <<>>
        BY <2>4
      <3>2. m \in Seq(Keys \X Nat) /\ Len(m) = 0
        BY <3>1
      <3> QED
        BY <2>4, <3>2
    <2> QED
      BY <2>3, <2>4
  <1>7. /\ c \in Seq(Keys \X Nat) /\ Len(c) = (IF data THEN 4 ELSE 0)
        /\ data => /\ c[1] = <<"data_brp", ValueOf(b, "data_brp")>>
                   /\ c[2] = <<"data_tseg1", ValueOf(b, "data_tseg1")>>
                   /\ c[3] = <<"data_tseg2", ValueOf(b, "data_tseg2")>>
                   /\ c[4] = <<"data_sjw", ValueOf(b, "data_sjw")>>
    <2>1. PICK v1 \in Keys \X Nat, v2 \in Keys \X Nat, v3 \in Keys \X Nat, v4 \in Keys \X Nat :
            /\ v1 = Value(b, "data_brp") /\ v2 = Value(b, "data_tseg1")
            /\ v3 = Value(b, "data_tseg2") /\ v4 = Value(b, "data_sjw")
      BY <1>2, <1>4
    <2>2. /\ v1 = <<"data_brp", ValueOf(b, "data_brp")>> /\ v2 = <<"data_tseg1", ValueOf(b, "data_tseg1")>>
          /\ v3 = <<"data_tseg2", ValueOf(b, "data_tseg2")>> /\ v4 = <<"data_sjw", ValueOf(b, "data_sjw")>>
      BY <1>2, <1>4, <2>1
    <2>3. CASE data
      <3>1. c = <<v1, v2, v3, v4>>
        BY <2>1, <2>3
      <3> HIDE DEF c
      <3>2. PICK t : t = <<v1, v2, v3, v4>>
        OBVIOUS
      <3>3. /\ t \in Seq(Keys \X Nat) /\ Len(t) = 4
            /\ t[1] = v1 /\ t[2] = v2 /\ t[3] = v3 /\ t[4] = v4
        BY <3>2
      <3>4. t = c
        BY <3>1, <3>2
      <3> QED
        BY <2>2, <2>3, <3>3, <3>4
    <2>4. CASE ~data
      <3>1. c = <<>>
        BY <2>4
      <3>2. c \in Seq(Keys \X Nat) /\ Len(c) = 0
        BY <3>1
      <3> QED
        BY <2>4, <3>2
    <2> QED
      BY <2>3, <2>4
  <1>8. print_bitrate(b, data, sam) = a \o m \o c
    BY DEF print_bitrate
  <1> HIDE DEF a, m, c
  <1>9. PICK s : s = print_bitrate(b, data, sam) /\ s = a \o m \o c
    BY <1>8
  <1>10. /\ s \in Seq(Keys \X Nat) /\ Len(s) = Len(a) + Len(m) + Len(c)
         /\ \A i \in 1 .. Len(a) : s[i] = a[i]
         /\ \A i \in 1 .. Len(m) : s[Len(a) + i] = m[i]
         /\ \A i \in 1 .. Len(c) : s[Len(a) + Len(m) + i] = c[i]
    <2>1. s = a \o m \o c
      BY <1>9
    <2>2. a \in Seq(Keys \X Nat) /\ m \in Seq(Keys \X Nat) /\ c \in Seq(Keys \X Nat)
      BY <1>5, <1>6, <1>7
    <2> QED
      BY <2>1, <2>2, Joined
  <1> DEFINE k == IF sam THEN 6 ELSE 5
  <1>11. /\ data => Len(s) = k + 4
         /\ ~data => Len(s) = k
         /\ k \in {5, 6}
         /\ s[1] = <<"f_clock", ValueOf(b, "f_clock")>>
         /\ s[2] = <<"nom_brp", ValueOf(b, "nom_brp")>> /\ s[3] = <<"nom_tseg1", ValueOf(b, "nom_tseg1")>>
         /\ s[4] = <<"nom_tseg2", ValueOf(b, "nom_tseg2")>> /\ s[5] = <<"nom_sjw", ValueOf(b, "nom_sjw")>>
         /\ sam => k = 6
         /\ sam => s[6] = <<"nom_sam", ValueOf(b, "nom_sam")>>
    <2>1. Len(a) = 5 /\ Len(m) = k - 5 /\ Len(c) = (IF data THEN 4 ELSE 0) /\ k \in {5, 6}
          /\ (sam => k = 6)
      BY <1>5, <1>6, <1>7
    <2>2. (data => Len(s) = k + 4) /\ (~data => Len(s) = k)
      BY <1>10, <2>1, SMTT(60)
    <2>3. s[1] = a[1] /\ s[2] = a[2] /\ s[3] = a[3] /\ s[4] = a[4] /\ s[5] = a[5]
      BY <1>10, <2>1
    <2>4. sam => s[6] = m[1]
      <3>1. sam => 1 \in 1 .. Len(m) /\ Len(a) + 1 = 6
        BY <2>1
      <3> QED
        BY <1>10, <3>1
    <2> HIDE DEF k
    <2> QED
      BY <1>5, <1>6, <2>1, <2>2, <2>3, <2>4
  <1>12. data => /\ s[k + 1] = <<"data_brp", ValueOf(b, "data_brp")>>
                 /\ s[k + 2] = <<"data_tseg1", ValueOf(b, "data_tseg1")>>
                 /\ s[k + 3] = <<"data_tseg2", ValueOf(b, "data_tseg2")>>
                 /\ s[k + 4] = <<"data_sjw", ValueOf(b, "data_sjw")>>
    <2> SUFFICES ASSUME data
                 PROVE  /\ s[k + 1] = c[1] /\ s[k + 2] = c[2] /\ s[k + 3] = c[3] /\ s[k + 4] = c[4]
      <3> HIDE DEF k
      <3> QED
        BY <1>7
    <2>1. Len(a) + Len(m) = k /\ Len(c) = 4
      BY <1>5, <1>6, <1>7
    <2> HIDE DEF k
    <2>2. \A i \in 1 .. 4 : s[k + i] = c[i]
      BY <1>10, <2>1
    <2> QED
      BY <2>2
  <1>13. /\ Place("f_clock", sam) = 1 /\ Place("nom_brp", sam) = 2 /\ Place("nom_tseg1", sam) = 3
         /\ Place("nom_tseg2", sam) = 4 /\ Place("nom_sjw", sam) = 5 /\ Place("nom_sam", sam) = 6
         /\ Place("data_brp", sam) = k + 1 /\ Place("data_tseg1", sam) = k + 2
         /\ Place("data_tseg2", sam) = k + 3 /\ Place("data_sjw", sam) = k + 4
    BY DEF Place
  <1> HIDE DEF k
  <1>14. \A key \in PrintedKeys(data, sam) :
           Place(key, sam) \in 1 .. Len(s) /\ s[Place(key, sam)] = <<key, ValueOf(b, key)>>
    <2> SUFFICES ASSUME NEW key \in PrintedKeys(data, sam)
                 PROVE  Place(key, sam) \in 1 .. Len(s)
                        /\ s[Place(key, sam)] = <<key, ValueOf(b, key)>>
      OBVIOUS
    <2>1. CASE key \in {"f_clock"} \cup NominalKeys
      <3>1. \A i \in 1 .. 5 : i \in 1 .. Len(s)
        <4>1. k = 5 \/ k = 6
          BY <1>11
        <4>2. Len(s) = k \/ Len(s) = k + 4
          BY <1>11
        <4> QED
          BY <4>1, <4>2
      <3>2. key \in {"f_clock", "nom_brp", "nom_tseg1", "nom_tseg2", "nom_sjw"}
        BY <2>1 DEF NominalKeys
      <3>3. CASE key = "f_clock"
        BY <1>11, <1>13, <3>1, <3>3, SMTT(60)
      <3>4. CASE key = "nom_brp"
        BY <1>11, <1>13, <3>1, <3>4, SMTT(60)
      <3>5. CASE key = "nom_tseg1"
        BY <1>11, <1>13, <3>1, <3>5, SMTT(60)
      <3>6. CASE key = "nom_tseg2"
        BY <1>11, <1>13, <3>1, <3>6, SMTT(60)
      <3>7. CASE key = "nom_sjw"
        BY <1>11, <1>13, <3>1, <3>7, SMTT(60)
      <3> QED
        BY <3>2, <3>3, <3>4, <3>5, <3>6, <3>7
    <2>2. CASE sam /\ key = "nom_sam"
      <3>1. Place(key, sam) = 6
        BY <1>13, <2>2
      <3>2. 6 \in 1 .. Len(s)
        <4>1. k = 6
          BY <1>11, <2>2
        <4>2. \E n \in {6, 10} : n = Len(s)
          <5>1. data => Len(s) = 10
            BY <1>11, <4>1
          <5>2. ~data => Len(s) = 6
            BY <1>11, <4>1
          <5> QED
            BY <5>1, <5>2
        <4>3. \A n \in {6, 10} : 6 \in 1 .. n
          OBVIOUS
        <4> QED
          BY <4>2, <4>3
      <3>3. s[6] = <<key, ValueOf(b, key)>>
        BY <1>11, <2>2
      <3> QED
        BY <3>1, <3>2, <3>3
    <2>3. CASE data /\ key \in DataKeys
      <3>1. /\ k + 1 \in 1 .. Len(s) /\ k + 2 \in 1 .. Len(s)
            /\ k + 3 \in 1 .. Len(s) /\ k + 4 \in 1 .. Len(s)
        <4>1. Len(s) = k + 4
          BY <1>11, <2>3
        <4>2. k = 5 \/ k = 6
          BY <1>11
        <4>3. Len(s) \in Nat /\ (Len(s) = 9 \/ Len(s) = 10)
          BY <4>1, <4>2
        <4>4. CASE k = 5
          BY <4>1, <4>4
        <4>5. CASE k = 6
          BY <4>1, <4>5
        <4> QED
          BY <4>2, <4>4, <4>5
      <3>2. CASE key = "data_brp"
        BY <1>12, <1>13, <2>3, <3>1, <3>2
      <3>3. CASE key = "data_tseg1"
        BY <1>12, <1>13, <2>3, <3>1, <3>3
      <3>4. CASE key = "data_tseg2"
        BY <1>12, <1>13, <2>3, <3>1, <3>4
      <3>5. CASE key = "data_sjw"
        BY <1>12, <1>13, <2>3, <3>1, <3>5
      <3> QED
        BY <2>3, <3>2, <3>3, <3>4, <3>5 DEF DataKeys
    <2> QED
      BY <2>1, <2>2, <2>3 DEF PrintedKeys
  <1>15. ASSUME NEW i \in 1 .. Len(s)
         PROVE  \E key \in PrintedKeys(data, sam) : i = Place(key, sam)
    <2>1. \/ i = 1 \/ i = 2 \/ i = 3 \/ i = 4 \/ i = 5 \/ (sam /\ i = 6)
          \/ (data /\ (i = k + 1 \/ i = k + 2 \/ i = k + 3 \/ i = k + 4))
      <3>1. (sam /\ k = 6) \/ (~sam /\ k = 5)
        BY DEF k
      <3>2. (data /\ Len(s) = k + 4) \/ (~data /\ Len(s) = k)
        BY <1>11
      <3>3. PICK n \in Nat : n = Len(s)
        BY <1>10
      <3>4. i \in 1 .. n /\ ((data /\ n = k + 4) \/ (~data /\ n = k))
        BY <3>2, <3>3
      <3>5. CASE sam /\ k = 6
        BY <3>4, <3>5
      <3>6. CASE ~sam /\ k = 5
        BY <3>4, <3>6
      <3> QED
        BY <3>1, <3>5, <3>6
    <2> QED
      <3>1. /\ {"f_clock", "nom_brp", "nom_tseg1", "nom_tseg2", "nom_sjw"} \subseteq PrintedKeys(data, sam)
            /\ sam => "nom_sam" \in PrintedKeys(data, sam)
            /\ data => {"data_brp", "data_tseg1", "data_tseg2", "data_sjw"} \subseteq PrintedKeys(data, sam)
        BY DEF PrintedKeys, NominalKeys, DataKeys
      <3>2. CASE data /\ (i = k + 1 \/ i = k + 2 \/ i = k + 3 \/ i = k + 4)
        BY <1>13, <3>1, <3>2
      <3>3. CASE i = 1 \/ i = 2 \/ i = 3 \/ i = 4 \/ i = 5 \/ (sam /\ i = 6)
        BY <1>13, <3>1, <3>3
      <3> QED
        BY <2>1, <3>2, <3>3
  <1>16. ASSUME NEW i \in 1 .. Len(s)
         PROVE  /\ s[i][1] \in PrintedKeys(data, sam)
                /\ s[i][2] = ValueOf(b, s[i][1]) /\ i = Place(s[i][1], sam)
    <2>1. PICK key \in PrintedKeys(data, sam) : i = Place(key, sam)
      BY <1>15
    <2>2. s[i] = <<key, ValueOf(b, key)>>
      BY <1>14, <2>1
    <2>3. s[i][1] = key /\ s[i][2] = ValueOf(b, key)
      BY <2>2
    <2> QED
      BY <2>1, <2>3
  <1> QED
    BY <1>9, <1>10, <1>14, <1>16

(* A bit-rate that is printed scans to itself, without the parts that are   *)
(* not printed.                                                             *)
LEMMA PrintScans ==
  ASSUME NEW b, Printable(b), NEW data \in BOOLEAN, NEW sam \in BOOLEAN
  PROVE  LET again == scan_bitrate(print_bitrate(b, data, sam)) IN
         /\ InRange(again) /\ again.ok /\ again.count = PrintedKeys(data, sam)
         /\ again.bitrate.frequency = b.frequency
         /\ \A key \in TimingKeys :
              again.bitrate.timing[key] = IF key \in PrintedKeys(data, sam) THEN b.timing[key] ELSE 0
PROOF
  <1>1. PICK s : s = print_bitrate(b, data, sam)
    OBVIOUS
  <1>2. /\ s \in Seq(Keys \X Nat)
        /\ \A i \in 1 .. Len(s) : /\ s[i][1] \in PrintedKeys(data, sam)
                                 /\ s[i][2] = ValueOf(b, s[i][1]) /\ i = Place(s[i][1], sam)
        /\ \A key \in PrintedKeys(data, sam) :
             Place(key, sam) \in 1 .. Len(s) /\ s[Place(key, sam)] = <<key, ValueOf(b, key)>>
    BY <1>1, PrintedIs, SMTT(60)
  <1>3. PrintedKeys(data, sam) \subseteq TimingKeys \cup {"f_clock"}
    BY DEF PrintedKeys, TimingKeys
  <1>4. \A key \in PrintedKeys(data, sam) : Counter(key) = key /\ key \in Keys
    BY <1>3, KeysAre
  <1>5. ASSUME NEW key \in PrintedKeys(data, sam) PROVE ValueOf(b, key) <= Limit(key)
    <2>1. CASE key = "f_clock"
      BY <2>1, LimitIs DEF ValueOf, Printable
    <2>2. CASE key = "nom_sam"
      BY <2>2, LimitIs DEF ValueOf, Printable
    <2>3. CASE key \in NominalKeys \cup DataKeys
      <3>1. b.timing[key] \in 0 .. UINT16_MAX /\ key # "f_clock"
        BY <2>3, KeysAre DEF Printable, Rates, TimingKeys
      <3> QED
        BY <2>3, <3>1, LimitIs DEF ValueOf
    <2> QED
      BY <1>3, <2>1, <2>2, <2>3 DEF TimingKeys
  <1>6. PICK again : again = scan_bitrate(s)
    OBVIOUS
  <1>7. again.ok /\ again.count = {Counter(s[i][1]) : i \in 1 .. Len(s)}
    <2>1. \A i \in 1 .. Len(s) : s[i][2] <= Limit(s[i][1])
      BY <1>2, <1>5
    <2>2. \A i, j \in 1 .. Len(s) : Counter(s[i][1]) = Counter(s[j][1]) => i = j
      BY <1>2, <1>4
    <2> QED
      BY <1>2, <1>6, <2>1, <2>2, StringGood
  <1>8. again.count = PrintedKeys(data, sam)
    <2>1. ASSUME NEW c \in again.count PROVE c \in PrintedKeys(data, sam)
      BY <1>2, <1>4, <1>7
    <2>2. ASSUME NEW key \in PrintedKeys(data, sam) PROVE key \in again.count
      <3>1. s[Place(key, sam)][1] = key /\ Counter(key) = key
        BY <1>2, <1>4
      <3> QED
        BY <1>2, <1>7, <3>1
    <2> QED
      BY <2>1, <2>2
  <1>9. Reads(again, {s[i] : i \in 1 .. Len(s)})
    BY <1>2, <1>6, StringReads
  <1>10. ASSUME NEW key \in PrintedKeys(data, sam) PROVE Shows(again.bitrate, key, ValueOf(b, key))
    <2>1. PICK p : p = <<key, ValueOf(b, key)>>
      OBVIOUS
    <2>2. p \in {s[i] : i \in 1 .. Len(s)} /\ p[1] = key /\ p[2] = ValueOf(b, key)
      BY <1>2, <2>1
    <2> QED
      BY <1>7, <1>9, <2>2 DEF Reads
  <1>11. again.bitrate.frequency = b.frequency
    <2>1. "f_clock" \in PrintedKeys(data, sam)
      BY DEF PrintedKeys
    <2> QED
      BY <1>10, <2>1, KeysAre DEF Shows, ValueOf, Hz
  <1>12. ASSUME NEW key \in TimingKeys
         PROVE  again.bitrate.timing[key] = IF key \in PrintedKeys(data, sam) THEN b.timing[key] ELSE 0
    <2>1. CASE key \in PrintedKeys(data, sam)
      BY <1>10, <2>1, KeysAre DEF Shows, ValueOf
    <2>2. CASE key \notin PrintedKeys(data, sam)
      BY <1>7, <1>8, <1>9, <2>2 DEF Reads
    <2> QED
      BY <2>1, <2>2
  <1>13. InRange(again)
    BY <1>9 DEF Reads
  <1> QED
    BY <1>1, <1>6, <1>7, <1>8, <1>11, <1>12, <1>13

(***************************************************************************)
(* The listed bit-rates.                                                   *)
(***************************************************************************)
Reading(b, clock, brp, tseg1, tseg2, sjw) ==
  /\ Printable(b) /\ b.frequency = clock
  /\ b.timing.nom_brp = brp /\ b.timing.nom_tseg1 = tseg1 /\ b.timing.nom_tseg2 = tseg2
  /\ b.timing.nom_sjw = sjw /\ b.timing.nom_sam = 0

DataReading(b, c, brp, tseg1, tseg2, sjw) ==
  /\ Printable(b) /\ b.frequency = c.frequency
  /\ b.timing.data_brp = brp /\ b.timing.data_tseg1 = tseg1 /\ b.timing.data_tseg2 = tseg2
  /\ b.timing.data_sjw = sjw
  /\ b.timing.nom_brp = c.timing.nom_brp /\ b.timing.nom_tseg1 = c.timing.nom_tseg1
  /\ b.timing.nom_tseg2 = c.timing.nom_tseg2 /\ b.timing.nom_sjw = c.timing.nom_sjw

LEMMA FourChanged ==
  ASSUME NEW S, NEW T, NEW f \in [S -> T], NEW a \in S, NEW b \in S, NEW c \in S, NEW d \in S,
         a # b, a # c, a # d, b # c, b # d, c # d,
         NEW w \in T, NEW x \in T, NEW y \in T, NEW z \in T, NEW g,
         g = [f EXCEPT ![a] = w, ![b] = x, ![c] = y, ![d] = z]
  PROVE  /\ g \in [S -> T]
         /\ g[a] = w /\ g[b] = x /\ g[c] = y /\ g[d] = z
         /\ \A k \in S : k \notin {a, b, c, d} => g[k] = f[k]
PROOF
  <1>1. PICK f1 \in [S -> T] : f1 = [f EXCEPT ![a] = w] /\ f1[a] = w
                               /\ \A k \in S : k # a => f1[k] = f[k]
    <2>1. [f EXCEPT ![a] = w] \in [S -> T]
      OBVIOUS
    <2> QED
      BY <2>1
  <1>2. PICK f2 \in [S -> T] : f2 = [f1 EXCEPT ![b] = x] /\ f2[b] = x
                               /\ \A k \in S : k # b => f2[k] = f1[k]
    <2>1. [f1 EXCEPT ![b] = x] \in [S -> T]
      OBVIOUS
    <2> QED
      BY <2>1
  <1>3. PICK f3 \in [S -> T] : f3 = [f2 EXCEPT ![c] = y] /\ f3[c] = y
                               /\ \A k \in S : k # c => f3[k] = f2[k]
    <2>1. [f2 EXCEPT ![c] = y] \in [S -> T]
      OBVIOUS
    <2> QED
      BY <2>1
  <1>4. PICK f4 \in [S -> T] : f4 = [f3 EXCEPT ![d] = z] /\ f4[d] = z
                               /\ \A k \in S : k # d => f4[k] = f3[k]
    <2>1. [f3 EXCEPT ![d] = z] \in [S -> T]
      OBVIOUS
    <2> QED
      BY <2>1
  <1>5. g = f4
    <2>1. [f EXCEPT ![a] = w, ![b] = x, ![c] = y, ![d] = z]
          = [[[[f EXCEPT ![a] = w] EXCEPT ![b] = x] EXCEPT ![c] = y] EXCEPT ![d] = z]
      BY Zenon
    <2> QED
      BY <1>1, <1>2, <1>3, <1>4, <2>1, Zenon
  <1> QED
    BY <1>1, <1>2, <1>3, <1>4, <1>5

LEMMA NominalIs ==
  ASSUME NEW clock \in 0 .. INT32_MAX, NEW brp \in 0 .. 256, NEW tseg1 \in 0 .. 256,
         NEW tseg2 \in 0 .. 256, NEW sjw \in 0 .. 256,
         NEW b, b = Nominal(clock, brp, tseg1, tseg2, sjw)
  PROVE  Reading(b, clock, brp, tseg1, tseg2, sjw)
PROOF
  <1>1. PICK t : t = [NoTiming EXCEPT !.nom_brp = brp, !.nom_tseg1 = tseg1, !.nom_tseg2 = tseg2,
                                      !.nom_sjw = sjw]
    OBVIOUS
  <1>2. NoTiming \in [TimingKeys -> 0 .. UINT16_MAX] /\ NoTiming["nom_sam"] = 0
    BY LimitIs DEF NoTiming, TimingKeys
  <1>3. {"nom_brp", "nom_tseg1", "nom_tseg2", "nom_sjw", "nom_sam"} \subseteq TimingKeys
    BY DEF TimingKeys, NominalKeys
  <1>4. 256 <= UINT16_MAX
    BY SMT DEF UINT16_MAX
  <1>5. \A n \in 0 .. 256 : n \in 0 .. UINT16_MAX
    BY <1>4, LimitIs
  <1>6. /\ t \in [TimingKeys -> 0 .. UINT16_MAX]
        /\ t.nom_brp = brp /\ t.nom_tseg1 = tseg1 /\ t.nom_tseg2 = tseg2
        /\ t.nom_sjw = sjw /\ t.nom_sam = 0
    <2>1. PICK none \in [TimingKeys -> 0 .. UINT16_MAX] : none = NoTiming /\ none["nom_sam"] = 0
      BY <1>2
    <2>2. t = [none EXCEPT !["nom_brp"] = brp, !["nom_tseg1"] = tseg1, !["nom_tseg2"] = tseg2,
                           !["nom_sjw"] = sjw]
      BY <1>1, <2>1
    <2>3. /\ t \in [TimingKeys -> 0 .. UINT16_MAX]
          /\ t["nom_brp"] = brp /\ t["nom_tseg1"] = tseg1 /\ t["nom_tseg2"] = tseg2
          /\ t["nom_sjw"] = sjw
          /\ \A key \in TimingKeys :
               key \notin {"nom_brp", "nom_tseg1", "nom_tseg2", "nom_sjw"} => t[key] = none[key]
      <3>1. /\ brp \in 0 .. UINT16_MAX /\ tseg1 \in 0 .. UINT16_MAX /\ tseg2 \in 0 .. UINT16_MAX
            /\ sjw \in 0 .. UINT16_MAX
        BY <1>5
      <3>2. /\ "nom_brp" \in TimingKeys /\ "nom_tseg1" \in TimingKeys /\ "nom_tseg2" \in TimingKeys
            /\ "nom_sjw" \in TimingKeys
        BY <1>3
      <3> QED
        BY <2>2, <3>1, <3>2, FourChanged, ZenonT(90)
    <2> QED
      BY <1>3, <2>1, <2>3
  <1>7. b = [frequency |-> clock, timing |-> t]
    BY <1>1 DEF Nominal
  <1>8. b \in Rates /\ b.frequency = clock /\ b.timing = t
    BY <1>6, <1>7 DEF Rates
  <1>9. 0 \in 0 .. UINT8_MAX
    BY LimitIs
  <1> QED
    BY <1>6, <1>7, <1>8, <1>9 DEF Printable, Reading

LEMMA WithDataIs ==
  ASSUME NEW c, Printable(c), NEW brp \in 0 .. 256, NEW tseg1 \in 0 .. 256,
         NEW tseg2 \in 0 .. 256, NEW sjw \in 0 .. 256,
         NEW b, b = WithData(c, brp, tseg1, tseg2, sjw)
  PROVE  DataReading(b, c, brp, tseg1, tseg2, sjw)
PROOF
  <1>1. PICK t : t = [c.timing EXCEPT !.data_brp = brp, !.data_tseg1 = tseg1, !.data_tseg2 = tseg2,
                                      !.data_sjw = sjw]
    OBVIOUS
  <1>2. c \in Rates /\ c.timing \in [TimingKeys -> 0 .. UINT16_MAX]
    BY DEF Printable, Rates
  <1>3. {"nom_brp", "nom_tseg1", "nom_tseg2", "nom_sjw", "nom_sam", "data_brp", "data_tseg1",
         "data_tseg2", "data_sjw"} \subseteq TimingKeys
    BY DEF TimingKeys, NominalKeys, DataKeys
  <1>4. 256 <= UINT16_MAX
    BY SMT DEF UINT16_MAX
  <1>5. \A n \in 0 .. 256 : n \in 0 .. UINT16_MAX
    BY <1>4, LimitIs
  <1>6. /\ t \in [TimingKeys -> 0 .. UINT16_MAX]
        /\ t["data_brp"] = brp /\ t["data_tseg1"] = tseg1 /\ t["data_tseg2"] = tseg2
        /\ t["data_sjw"] = sjw
        /\ \A key \in TimingKeys :
             key \notin {"data_brp", "data_tseg1", "data_tseg2", "data_sjw"} => t[key] = c.timing[key]
    <2>1. PICK old \in [TimingKeys -> 0 .. UINT16_MAX] : old = c.timing
      BY <1>2
    <2>2. t = [old EXCEPT !["data_brp"] = brp, !["data_tseg1"] = tseg1, !["data_tseg2"] = tseg2,
                          !["data_sjw"] = sjw]
      BY <1>1, <2>1
    <2>3. /\ brp \in 0 .. UINT16_MAX /\ tseg1 \in 0 .. UINT16_MAX /\ tseg2 \in 0 .. UINT16_MAX
          /\ sjw \in 0 .. UINT16_MAX
      BY <1>5
    <2>4. /\ "data_brp" \in TimingKeys /\ "data_tseg1" \in TimingKeys
          /\ "data_tseg2" \in TimingKeys /\ "data_sjw" \in TimingKeys
      BY <1>3
    <2>5. /\ t \in [TimingKeys -> 0 .. UINT16_MAX]
          /\ t["data_brp"] = brp /\ t["data_tseg1"] = tseg1 /\ t["data_tseg2"] = tseg2
          /\ t["data_sjw"] = sjw
          /\ \A key \in TimingKeys :
               key \notin {"data_brp", "data_tseg1", "data_tseg2", "data_sjw"} => t[key] = old[key]
      BY <2>2, <2>3, <2>4, FourChanged, ZenonT(90)
    <2> QED
      BY <2>1, <2>5
  <1>7. b = [c EXCEPT !.timing = t]
    BY <1>1, <1>2 DEF WithData, Rates
  <1>8. b \in Rates /\ b.frequency = c.frequency /\ b.timing = t
    BY <1>2, <1>6, <1>7 DEF Rates
  <1>9. /\ t.data_brp = brp /\ t.data_tseg1 = tseg1 /\ t.data_tseg2 = tseg2 /\ t.data_sjw = sjw
        /\ t.nom_brp = c.timing.nom_brp /\ t.nom_tseg1 = c.timing.nom_tseg1
        /\ t.nom_tseg2 = c.timing.nom_tseg2 /\ t.nom_sjw = c.timing.nom_sjw
        /\ t["nom_sam"] = c.timing["nom_sam"]
    BY <1>3, <1>6
  <1> QED
    BY <1>6, <1>7, <1>8, <1>9 DEF Printable, DataReading

(* One of CAN CC fits the register. *)
Fits16(b, brp, tseg1, tseg2, sjw) ==
  /\ Printable(b) /\ HasRegister(b)
  /\ btr_bitrate2sja1000(b)
       = (sjw - 1) * 16384 + (brp - 1) * 256 + (tseg2 - 1) * 16 + (tseg1 - 1)

LEMMA NominalFits ==
  ASSUME NEW brp \in 1 .. 64, NEW tseg1 \in 1 .. 16, NEW tseg2 \in 1 .. 8, NEW sjw \in 1 .. 4,
         NEW b, b = Nominal(FREQ_SJA1000, brp, tseg1, tseg2, sjw)
  PROVE  Fits16(b, brp, tseg1, tseg2, sjw)
PROOF
  <1>1. /\ brp \in 0 .. 256 /\ tseg1 \in 0 .. 256 /\ tseg2 \in 0 .. 256 /\ sjw \in 0 .. 256
    OBVIOUS
  <1>2. FREQ_SJA1000 \in 0 .. INT32_MAX
    <2>1. FREQ_SJA1000 \in Nat /\ INT32_MAX \in Nat /\ FREQ_SJA1000 <= INT32_MAX
      BY SMT DEF FREQ_SJA1000, INT32_MAX
    <2> QED
      BY <2>1
  <1>4. /\ Printable(b) /\ b.frequency = FREQ_SJA1000
        /\ b.timing.nom_brp = brp /\ b.timing.nom_tseg1 = tseg1 /\ b.timing.nom_tseg2 = tseg2
        /\ b.timing.nom_sjw = sjw /\ b.timing.nom_sam = 0
    <2>1. Reading(b, FREQ_SJA1000, brp, tseg1, tseg2, sjw)
      BY <1>1, <1>2, NominalIs, ZenonT(90)
    <2> QED
      BY <2>1, SMTT(60) DEF Reading
  <1>5. HasRegister(b)
    BY <1>4 DEF HasRegister
  <1>6. btr_bitrate2sja1000(b)
          = (sjw - 1) * 16384 + (brp - 1) * 256 + (tseg2 - 1) * 16 + (tseg1 - 1)
    BY <1>4, SMT DEF btr_bitrate2sja1000, BTR_BTR0BTR1
  <1> QED
    BY <1>4, <1>5, <1>6, SMT DEF Fits16

LEMMA TableIs ==
  /\ btr_index2sja1000(0) = 20 /\ btr_index2sja1000(-1) = 22 /\ btr_index2sja1000(-2) = 28
  /\ btr_index2sja1000(-3) = 284 /\ btr_index2sja1000(-4) = 796 /\ btr_index2sja1000(-5) = 17436
  /\ btr_index2sja1000(-6) = 18716 /\ btr_index2sja1000(-7) = 22556
  /\ btr_index2sja1000(-8) = 28956 /\ btr_index2sja1000(-9) = 32639
PROOF
  <1>1. PICK t : t = sja1000_btr0btr1
    OBVIOUS
  <1>2. /\ t[1] = 20 /\ t[2] = 22 /\ t[3] = 28 /\ t[4] = 284 /\ t[5] = 796 /\ t[6] = 17436
        /\ t[7] = 18716 /\ t[8] = 22556 /\ t[9] = 28956 /\ t[10] = 32639
    BY <1>1, SMT DEF sja1000_btr0btr1
  <1>3. \A i \in Int : btr_index2sja1000(i) = t[1 - i]
    BY <1>1 DEF btr_index2sja1000
  <1> QED
    BY <1>2, <1>3, SMT

(* The listed bit-rates of CAN CC are those of the first nine indexes. *)
LEMMA SjaIs ==
  ASSUME NEW b \in SJA1000_BR
  PROVE  /\ Printable(b) /\ HasRegister(b)
         /\ \E i \in -(Entries - 1) .. 0 : btr_bitrate2sja1000(b) = btr_index2sja1000(i)
PROOF
  <1> DEFINE Good(r) == \E i \in -(Entries - 1) .. 0 : r = btr_index2sja1000(i)
  <1>1. /\ Good(20) /\ Good(22) /\ Good(28) /\ Good(284) /\ Good(796) /\ Good(17436)
        /\ Good(18716) /\ Good(22556) /\ Good(28956)
    <2>1. /\ 0 \in -(Entries - 1) .. 0 /\ -1 \in -(Entries - 1) .. 0 /\ -2 \in -(Entries - 1) .. 0
          /\ -3 \in -(Entries - 1) .. 0 /\ -4 \in -(Entries - 1) .. 0 /\ -5 \in -(Entries - 1) .. 0
          /\ -6 \in -(Entries - 1) .. 0 /\ -7 \in -(Entries - 1) .. 0 /\ -8 \in -(Entries - 1) .. 0
      BY DEF Entries
    <2> QED
      BY <2>1, TableIs, SMT
  <1>2. PICK brp \in 1 .. 64, tseg1 \in 1 .. 16, sjw \in 1 .. 4 :
          /\ b = Nominal(FREQ_SJA1000, brp, tseg1, 2, sjw)
          /\ \/ brp = 1 /\ tseg1 \in {5, 7, 13} /\ sjw = 1
             \/ brp \in {2, 4} /\ tseg1 = 13 /\ sjw = 1
             \/ brp \in {5, 10, 25, 50} /\ tseg1 = 13 /\ sjw = 2
    <2>1. CASE b = Nominal(FREQ_SJA1000, 1, 5, 2, 1)
      BY <2>1
    <2>2. CASE b = Nominal(FREQ_SJA1000, 1, 7, 2, 1)
      BY <2>2
    <2>3. CASE \E brp \in {1, 2, 4} : b = Nominal(FREQ_SJA1000, brp, 13, 2, 1)
      BY <2>3
    <2>4. CASE \E brp \in {5, 10, 25, 50} : b = Nominal(FREQ_SJA1000, brp, 13, 2, 2)
      BY <2>4
    <2> QED
      BY <2>1, <2>2, <2>3, <2>4 DEF SJA1000_BR
  <1>3. /\ Printable(b) /\ HasRegister(b)
        /\ btr_bitrate2sja1000(b)
             = (sjw - 1) * 16384 + (brp - 1) * 256 + (2 - 1) * 16 + (tseg1 - 1)
    <2>1. 2 \in 1 .. 8
      OBVIOUS
    <2>2. Fits16(b, brp, tseg1, 2, sjw)
      BY <1>2, <2>1, NominalFits, ZenonT(90)
    <2> QED
      BY <2>2, SMT DEF Fits16
  <1> HIDE DEF Good
  <1>4. Good(btr_bitrate2sja1000(b))
    <2>1. CASE brp = 1 /\ tseg1 \in {5, 7, 13} /\ sjw = 1
      <3>1. btr_bitrate2sja1000(b) \in {20, 22, 28}
        BY <1>3, <2>1, SMT
      <3> QED
        BY <1>1, <3>1
    <2>2. CASE brp \in {2, 4} /\ tseg1 = 13 /\ sjw = 1
      <3>1. btr_bitrate2sja1000(b) \in {284, 796}
        BY <1>3, <2>2, SMT
      <3> QED
        BY <1>1, <3>1
    <2>3. CASE brp \in {5, 10, 25, 50} /\ tseg1 = 13 /\ sjw = 2
      <3>1. btr_bitrate2sja1000(b) \in {17436, 18716, 22556, 28956}
        BY <1>3, <2>3, SMT
      <3> QED
        BY <1>1, <3>1, SMT
    <2> QED
      BY <1>2, <2>1, <2>2, <2>3
  <1> QED
    BY <1>3, <1>4 DEF Good

(* Those of CAN FD are within the limits of the controller. *)
LEMMA FdIs ==
  ASSUME NEW n \in {1, 2, 4, 8}, NEW b, b = DEFAULT_CAN_FD_BR(n),
         NEW d, d = WithData(b, 2, 4 * n - 1, n, n)
  PROVE  /\ Printable(b) /\ b.frequency \in Frequencies /\ btr_check_bitrate(b, TRUE, FALSE)
         /\ Printable(d) /\ d.frequency \in Frequencies /\ btr_check_bitrate(d, TRUE, TRUE)
PROOF
  <1>1. PICK clock : clock = 80000000
    OBVIOUS
  <1>2. clock \in 0 .. INT32_MAX /\ clock \in Frequencies /\ ~(clock <= 0)
    <2>1. clock \in Nat /\ INT32_MAX \in Nat /\ clock <= INT32_MAX /\ ~(clock <= 0)
      BY <1>1, SMT DEF INT32_MAX
    <2>2. clock \in Frequencies
      BY <1>1, SMT DEF Frequencies
    <2> QED
      BY <2>1, <2>2
  <1>3. b = Nominal(clock, 2, 32 * n - 1, 8 * n, 8 * n)
    BY <1>1, SMT DEF DEFAULT_CAN_FD_BR
  <1>4. /\ 2 \in 0 .. 256 /\ 32 * n - 1 \in 0 .. 256 /\ 8 * n \in 0 .. 256
        /\ 32 * n - 1 \in 1 .. 256 /\ 8 * n \in 1 .. 128
        /\ 4 * n - 1 \in 0 .. 256 /\ n \in 0 .. 256 /\ 4 * n - 1 \in 1 .. 32 /\ n \in 1 .. 16
    OBVIOUS
  <1>5. /\ Printable(b) /\ b.frequency = clock
        /\ b.timing.nom_brp = 2 /\ b.timing.nom_tseg1 = 32 * n - 1 /\ b.timing.nom_tseg2 = 8 * n
        /\ b.timing.nom_sjw = 8 * n
    <2>1. Reading(b, clock, 2, 32 * n - 1, 8 * n, 8 * n)
      BY <1>2, <1>3, <1>4, NominalIs, ZenonT(90)
    <2> QED
      BY <2>1, ZenonT(90) DEF Reading
  <1>6. /\ Printable(d) /\ d.frequency = clock
        /\ d.timing.data_brp = 2 /\ d.timing.data_tseg1 = 4 * n - 1 /\ d.timing.data_tseg2 = n
        /\ d.timing.data_sjw = n
        /\ d.timing.nom_brp = 2 /\ d.timing.nom_tseg1 = 32 * n - 1 /\ d.timing.nom_tseg2 = 8 * n
        /\ d.timing.nom_sjw = 8 * n
    <2>1. DataReading(d, b, 2, 4 * n - 1, n, n)
      BY <1>4, <1>5, WithDataIs, ZenonT(90)
    <2> QED
      BY <1>5, <2>1 DEF DataReading
  <1>7. /\ b.timing.nom_brp \in 1 .. 1024 /\ b.timing.nom_tseg1 \in 1 .. 256
        /\ b.timing.nom_tseg2 \in 1 .. 128 /\ b.timing.nom_sjw \in 1 .. 128
        /\ ~(b.frequency <= 0)
    <2>1. b.timing.nom_brp \in 1 .. 1024
      BY <1>5, SMT
    <2>2. b.timing.nom_tseg1 \in 1 .. 256
      BY <1>5, SMT
    <2>3. b.timing.nom_tseg2 \in 1 .. 128
      BY <1>5, SMT
    <2>4. b.timing.nom_sjw \in 1 .. 128
      BY <1>5, SMT
    <2>5. ~(b.frequency <= 0)
      BY <1>2, <1>5, SMT
    <2> QED
      BY <2>1, <2>2, <2>3, <2>4, <2>5
  <1>8. /\ d.timing.nom_brp \in 1 .. 1024 /\ d.timing.nom_tseg1 \in 1 .. 256
        /\ d.timing.nom_tseg2 \in 1 .. 128 /\ d.timing.nom_sjw \in 1 .. 128
        /\ ~(d.frequency <= 0)
    <2>1. d.timing.nom_brp \in 1 .. 1024
      BY <1>6, SMT
    <2>2. d.timing.nom_tseg1 \in 1 .. 256
      BY <1>6, SMT
    <2>3. d.timing.nom_tseg2 \in 1 .. 128
      BY <1>6, SMT
    <2>4. d.timing.nom_sjw \in 1 .. 128
      BY <1>6, SMT
    <2>5. ~(d.frequency <= 0)
      BY <1>2, <1>6, SMT
    <2> QED
      BY <2>1, <2>2, <2>3, <2>4, <2>5, ZenonT(90)
  <1>9. /\ d.timing.data_brp \in 1 .. 1024 /\ d.timing.data_tseg1 \in 1 .. 32
        /\ d.timing.data_tseg2 \in 1 .. 16 /\ d.timing.data_sjw \in 1 .. 16
    <2>1. d.timing.data_brp \in 1 .. 1024
      BY <1>6, SMT
    <2>2. d.timing.data_tseg1 \in 1 .. 32
      BY <1>6, SMT
    <2>3. d.timing.data_tseg2 \in 1 .. 16
      BY <1>6, SMT
    <2>4. d.timing.data_sjw \in 1 .. 16
      BY <1>6, SMT
    <2> QED
      BY <2>1, <2>2, <2>3, <2>4, ZenonT(90)
  <1>10. btr_check_bitrate(b, TRUE, FALSE)
    BY <1>7, ZenonT(90) DEF btr_check_bitrate
  <1>11. btr_check_bitrate(d, TRUE, TRUE)
    BY <1>8, <1>9, ZenonT(90) DEF btr_check_bitrate
  <1> QED
    BY <1>2, <1>5, <1>6, <1>10, <1>11

(***************************************************************************)
(* A line of the list, scanned.                                            *)
(***************************************************************************)
LEMMA ListedIs ==
  ASSUME NEW m \in Modes, NEW l \in ListCanBitrates(m)
  PROVE  /\ Printable(l)
         /\ "fdoe" \notin m => l \in SJA1000_BR /\ "brse" \notin m
         /\ "fdoe" \in m => l.frequency \in Frequencies /\ btr_check_bitrate(l, TRUE, "brse" \in m)
PROOF
  <1>1. CASE "fdoe" \notin m
    <2>1. l \in SJA1000_BR
      BY <1>1 DEF ListCanBitrates
    <2>2. "brse" \notin m
      BY <1>1 DEF Modes
    <2> QED
      BY <1>1, <2>1, <2>2, SjaIs
  <1>2. CASE "fdoe" \in m /\ "brse" \notin m
    <2>1. PICK n \in {1, 2, 4, 8} : l = DEFAULT_CAN_FD_BR(n)
      BY <1>2 DEF ListCanBitrates
    <2>2. PICK d : d = WithData(l, 2, 4 * n - 1, n, n)
      OBVIOUS
    <2>3. Printable(l) /\ l.frequency \in Frequencies /\ btr_check_bitrate(l, TRUE, FALSE)
      BY <2>1, <2>2, FdIs
    <2>4. ("brse" \in m) = FALSE
      BY <1>2
    <2> QED
      BY <1>2, <2>3, <2>4
  <1>3. CASE "fdoe" \in m /\ "brse" \in m
    <2>1. PICK n \in {1, 2, 4, 8} : l = WithData(DEFAULT_CAN_FD_BR(n), 2, 4 * n - 1, n, n)
      BY <1>3 DEF ListCanBitrates
    <2>2. PICK b : b = DEFAULT_CAN_FD_BR(n)
      OBVIOUS
    <2>3. Printable(l) /\ l.frequency \in Frequencies /\ btr_check_bitrate(l, TRUE, TRUE)
      BY <2>1, <2>2, FdIs
    <2>4. ("brse" \in m) = TRUE
      BY <1>3
    <2> QED
      BY <1>3, <2>3, <2>4
  <1> QED
    BY <1>1, <1>2, <1>3

LEMMA ListedStarted ==
  ASSUME NEW m \in Modes, NEW l \in ListCanBitrates(m), NEW again,
         again = scan_bitrate(Listed(l, m))
  PROVE  /\ InRange(again) /\ Scanned(again) /\ Startable(again.bitrate, m)
         /\ m = {} => btr_bitrate2index(again.bitrate) # {}
PROOF
  <1> DEFINE data == "brse" \in m
             sam == "fdoe" \notin m
             b == again.bitrate
  <1>1. data \in BOOLEAN /\ sam \in BOOLEAN /\ again = scan_bitrate(print_bitrate(l, data, sam))
    BY DEF Listed
  <1>2. Printable(l)
    BY ListedIs
  <1>3. /\ InRange(again) /\ again.ok /\ b.frequency = l.frequency
        /\ \A key \in TimingKeys :
             b.timing[key] = IF key \in PrintedKeys(data, sam) THEN l.timing[key] ELSE 0
    <2> HIDE DEF data, sam
    <2> QED
      BY <1>1, <1>2, PrintScans
  <1>4. /\ NominalKeys \subseteq TimingKeys /\ NominalKeys \subseteq PrintedKeys(data, sam)
        /\ sam => "nom_sam" \in TimingKeys /\ "nom_sam" \in PrintedKeys(data, sam)
        /\ data => DataKeys \subseteq TimingKeys /\ DataKeys \subseteq PrintedKeys(data, sam)
    BY DEF TimingKeys, PrintedKeys
  <1>5. /\ b.timing.nom_brp = l.timing.nom_brp /\ b.timing.nom_tseg1 = l.timing.nom_tseg1
        /\ b.timing.nom_tseg2 = l.timing.nom_tseg2 /\ b.timing.nom_sjw = l.timing.nom_sjw
    BY <1>3, <1>4 DEF NominalKeys
  <1>6. sam => b.timing.nom_sam = l.timing.nom_sam
    BY <1>3, <1>4
  <1>7. data => /\ b.timing.data_brp = l.timing.data_brp /\ b.timing.data_tseg1 = l.timing.data_tseg1
                /\ b.timing.data_tseg2 = l.timing.data_tseg2 /\ b.timing.data_sjw = l.timing.data_sjw
    BY <1>3, <1>4 DEF DataKeys
  <1>8. CASE "fdoe" \notin m
    <2>1. l \in SJA1000_BR
      BY <1>8, ListedIs
    <2>2. /\ HasRegister(l)
          /\ \E i \in -(Entries - 1) .. 0 : btr_bitrate2sja1000(l) = btr_index2sja1000(i)
      BY <2>1, SjaIs
    <2>3. b.frequency >= 1 /\ ~(b.frequency <= 0)
      <3>1. b.frequency = FREQ_SJA1000
        BY <1>3, <2>2 DEF HasRegister
      <3> QED
        BY <3>1, SMT DEF FREQ_SJA1000
    <2>4. HasRegister(b)
      BY <1>3, <1>5, <1>6, <1>8, <2>2 DEF HasRegister
    <2>5. btr_bitrate2sja1000(b) = btr_bitrate2sja1000(l)
      BY <1>5, <1>6, <1>8 DEF btr_bitrate2sja1000
    <2>6. btr_bitrate2index(b) # {}
      <3>1. PICK i \in -(Entries - 1) .. 0 : btr_bitrate2sja1000(b) = btr_index2sja1000(i)
        BY <2>2, <2>5
      <3>2. i \in btr_bitrate2index(b)
        BY <2>3, <2>4, <3>1 DEF btr_bitrate2index
      <3> QED
        BY <3>2
    <2>7. Startable(b, m)
      BY <1>8, <2>3, <2>4 DEF Startable
    <2> QED
      BY <1>3, <2>3, <2>6, <2>7 DEF Scanned
  <1>9. CASE "fdoe" \in m
    <2>1. l.frequency \in Frequencies /\ btr_check_bitrate(l, TRUE, data)
      BY <1>9, ListedIs
    <2>2. b.frequency >= 1 /\ ~(b.frequency <= 0) /\ ~(l.frequency <= 0)
      <3>1. \A f \in Frequencies : f >= 1 /\ ~(f <= 0)
        BY SMT DEF Frequencies
      <3> QED
        BY <1>3, <2>1, <3>1
    <2>3. btr_check_bitrate(b, TRUE, data)
      <3>1. data \in BOOLEAN
        OBVIOUS
      <3> HIDE DEF data, b
      <3>2. /\ l.timing.nom_brp \in 1 .. 1024 /\ l.timing.nom_tseg1 \in 1 .. 256
            /\ l.timing.nom_tseg2 \in 1 .. 128 /\ l.timing.nom_sjw \in 1 .. 128
        <4>1. btr_check_bitrate(l, TRUE, data) /\ ~(l.frequency <= 0)
          BY <2>1, <2>2
        <4> QED
          BY <4>1, ZenonT(60) DEF btr_check_bitrate
      <3>3. data => /\ l.timing.data_brp \in 1 .. 1024 /\ l.timing.data_tseg1 \in 1 .. 32
                    /\ l.timing.data_tseg2 \in 1 .. 16 /\ l.timing.data_sjw \in 1 .. 16
        <4>1. btr_check_bitrate(l, TRUE, data) /\ ~(l.frequency <= 0)
          BY <2>1, <2>2
        <4> QED
          BY <4>1, ZenonT(60) DEF btr_check_bitrate
      <3>4. /\ b.timing.nom_brp \in 1 .. 1024 /\ b.timing.nom_tseg1 \in 1 .. 256
            /\ b.timing.nom_tseg2 \in 1 .. 128 /\ b.timing.nom_sjw \in 1 .. 128
        BY <1>5, <3>2
      <3>5. data => /\ b.timing.data_brp \in 1 .. 1024 /\ b.timing.data_tseg1 \in 1 .. 32
                    /\ b.timing.data_tseg2 \in 1 .. 16 /\ b.timing.data_sjw \in 1 .. 16
        BY <1>7, <3>3
      <3> QED
        BY <2>2, <3>4, <3>5, ZenonT(90) DEF btr_check_bitrate
    <2>4. Startable(b, m)
      BY <1>3, <1>9, <2>1, <2>2, <2>3 DEF Startable
    <2>5. m # {}
      BY <1>9
    <2> QED
      BY <1>3, <2>2, <2>4, <2>5 DEF Scanned
  <1> QED
    BY <1>8, <1>9

(* What was read says which bit-rate it is. *)
LEMMA ReadsAlike ==
  ASSUME NEW pairs \in SUBSET (Keys \X Nat), NEW s, NEW t,
         Reads(s, pairs), Reads(t, pairs), s.ok, t.ok
  PROVE  s.bitrate = t.bitrate
PROOF
  <1>1. /\ s.bitrate \in Rates /\ t.bitrate \in Rates
    BY DEF Reads, InRange, ScanType
  <1>2. s.count = t.count
    <2>1. \A c \in s.count : \E p \in pairs : Counter(p[1]) = c
      BY DEF Reads
    <2>2. \A c \in t.count : \E p \in pairs : Counter(p[1]) = c
      BY DEF Reads
    <2>3. \A p \in pairs : Counter(p[1]) \in s.count /\ Counter(p[1]) \in t.count
      BY DEF Reads
    <2>4. \A c \in s.count : c \in t.count
      BY <2>1, <2>3
    <2>5. \A c \in t.count : c \in s.count
      BY <2>2, <2>3
    <2>6. PICK c, d : c = s.count /\ d = t.count
      OBVIOUS
    <2>7. c = d
      BY <2>4, <2>5, <2>6
    <2> QED
      BY <2>6, <2>7
  <1>3. ASSUME NEW key \in TimingKeys PROVE s.bitrate.timing[key] = t.bitrate.timing[key]
    <2>1. CASE key \in s.count
      <3>1. PICK p \in pairs : Counter(p[1]) = key
        BY <2>1 DEF Reads
      <3>2. p[1] \in Keys
        OBVIOUS
      <3>3. p[1] = key
        BY <3>1, <3>2, KeysAre
      <3> QED
        BY <3>1, <3>3 DEF Reads, Shows
    <2>2. CASE key \notin s.count
      BY <1>2, <2>2 DEF Reads
    <2> QED
      BY <2>1, <2>2
  <1>4. s.bitrate.frequency = t.bitrate.frequency
    <2>1. CASE "f_clock" \in s.count
      <3>1. PICK p \in pairs : Counter(p[1]) = "f_clock"
        BY <2>1 DEF Reads
      <3>2. p[1] \notin TimingKeys
        BY <3>1, KeysAre
      <3> QED
        BY <3>1, <3>2 DEF Reads, Shows
    <2>2. CASE "f_clock" \notin s.count
      BY <1>2, <2>2 DEF Reads
    <2> QED
      BY <2>1, <2>2
  <1>5. s.bitrate.timing = t.bitrate.timing
    BY <1>1, <1>3 DEF Rates
  <1> QED
    BY <1>1, <1>4, <1>5 DEF Rates

(***************************************************************************)
(* What the scan holds agrees with the text so far, or is an index; what    *)
(* the driver was given is the setting of it.                               *)
(***************************************************************************)
Taken == {"known", "stopped", "running"}

ReadSoFar == Reads(scan, text) /\ (phase \in Taken => scan.bitrate.frequency >= 1)

IndexTaken ==
  /\ text = {} /\ phase # "scanning"
  /\ \E i \in -Entries .. 0 : scan = [Blank EXCEPT !.bitrate = Index(i)]

BtrInv ==
  /\ phase \in {"scanning", "refused", "known", "stopped", "running"}
  /\ mode \in Modes
  /\ text \in SUBSET (Keys \X Nat)
  /\ phase \in Taken \cup {"scanning"} => scan.ok
  /\ ReadSoFar \/ IndexTaken
  /\ phase = "running" => /\ Startable(scan.bitrate, mode)
                          /\ driver = Setting(scan.bitrate, mode)

LEMMA BtrInvInit == BtrInit => BtrInv
PROOF
  BY BlankReads DEF BtrInit, BtrInv, ReadSoFar, Taken, Modes, Blank

(* What is still being scanned was read. *)
LEMMA StillScanning ==
  ASSUME BtrInv, phase = "scanning"
  PROVE  Reads(scan, text) /\ scan.ok /\ phase \notin Taken
PROOF
  BY DEF BtrInv, ReadSoFar, IndexTaken, Taken

LEMMA ScanPairKeeps ==
  ASSUME BtrInv, NEW key \in Keys, NEW number \in Numbers[key], ScanPair(key, number)
  PROVE  BtrInv'
PROOF
  <1>1. number \in Nat
    BY NumbersAssumption
  <1>2. Reads(scan, text) /\ phase = "scanning" /\ text \in SUBSET (Keys \X Nat) /\ mode \in Modes
    BY StillScanning DEF ScanPair, BtrInv
  <1>3. PICK s, pairs : s = scan /\ pairs = text
    OBVIOUS
  <1>4. Reads(Pair(s, <<key, number>>), pairs \cup {<<key, number>>})
    BY <1>1, <1>2, <1>3, PairReads
  <1>5. Reads(scan', text')
    BY <1>3, <1>4 DEF ScanPair
  <1>6. text' \in SUBSET (Keys \X Nat) /\ mode' = mode /\ phase' = IF scan'.ok THEN phase ELSE "refused"
    BY <1>1, <1>2 DEF ScanPair
  <1>7. phase' \notin Taken /\ phase' \in {"scanning", "refused"} /\ (phase' = "scanning" => scan'.ok)
    BY <1>2, <1>6 DEF Taken
  <1>8. ReadSoFar'
    BY <1>5, <1>7 DEF ReadSoFar
  <1> QED
    BY <1>2, <1>6, <1>7, <1>8 DEF BtrInv

LEMMA ScanOtherKeeps ==
  ASSUME BtrInv, ScanOther
  PROVE  BtrInv'
PROOF
  <1>1. /\ Reads(scan, text) /\ phase' = "refused" /\ text' = text /\ scan' = scan /\ mode' = mode
        /\ phase' \notin Taken
    BY StillScanning DEF ScanOther, Taken
  <1>2. ReadSoFar'
    BY <1>1 DEF ReadSoFar
  <1> QED
    BY <1>1, <1>2 DEF BtrInv

LEMMA ScanEndKeeps ==
  ASSUME BtrInv, ScanEnd
  PROVE  BtrInv'
PROOF
  <1>1. /\ Reads(scan, text) /\ scan.ok /\ text' = text /\ scan' = scan /\ mode' = mode
        /\ phase' \in {"known", "refused"} /\ (phase' = "known" => Scanned(scan))
    BY StillScanning DEF ScanEnd
  <1>2. ReadSoFar'
    BY <1>1 DEF ReadSoFar, Taken, Scanned
  <1> QED
    BY <1>1, <1>2 DEF BtrInv

LEMMA TakeIndexKeeps ==
  ASSUME BtrInv, NEW i \in -Entries .. 0, TakeIndex(i)
  PROVE  BtrInv'
PROOF
  <1>1. /\ text' = {} /\ phase' = "known" /\ scan' = [Blank EXCEPT !.bitrate = Index(i)]
        /\ mode' = mode
    BY DEF TakeIndex
  <1>2. IndexTaken'
    BY <1>1 DEF IndexTaken
  <1>3. scan'.ok
    BY <1>1 DEF Blank
  <1> QED
    BY <1>1, <1>2, <1>3 DEF BtrInv

LEMMA ListedReads ==
  ASSUME NEW m \in Modes, NEW l \in ListCanBitrates(m), NEW pairs, pairs = ToSet(Listed(l, m))
  PROVE  /\ pairs \in SUBSET (Keys \X Nat) /\ pairs # {}
         /\ Reads(scan_bitrate(Listed(l, m)), pairs)
PROOF
  <1>1. PICK s : s = Listed(l, m)
    OBVIOUS
  <1>2. s \in Seq(Keys \X Nat) /\ Len(s) # 0
    <2> DEFINE data == "brse" \in m
               sam == "fdoe" \notin m
    <2>1. Printable(l)
      BY ListedIs
    <2>2. data \in BOOLEAN /\ sam \in BOOLEAN
      OBVIOUS
    <2>3. s = print_bitrate(l, data, sam)
      BY <1>1 DEF Listed
    <2> HIDE DEF data, sam
    <2>4. s \in Seq(Keys \X Nat) /\ \A key \in PrintedKeys(data, sam) : Place(key, sam) \in 1 .. Len(s)
      BY <2>1, <2>2, <2>3, PrintedIs
    <2>5. "f_clock" \in PrintedKeys(data, sam)
      BY DEF PrintedKeys
    <2> QED
      BY <2>4, <2>5
  <1>3. pairs = {s[i] : i \in 1 .. Len(s)}
    <2>1. DOMAIN s = 1 .. Len(s)
      BY <1>2
    <2>2. ToSet(s) = {s[i] : i \in DOMAIN s}
      BY Zenon DEF ToSet
    <2> QED
      BY <1>1, <2>1, <2>2
  <1>4. Reads(scan_bitrate(s), pairs)
    BY <1>2, <1>3, StringReads
  <1>5. \A i \in 1 .. Len(s) : s[i] \in Keys \X Nat
    BY <1>2
  <1>6. 1 \in 1 .. Len(s)
    BY <1>2
  <1> QED
    BY <1>1, <1>3, <1>4, <1>5, <1>6

LEMMA TakeListedKeeps ==
  ASSUME BtrInv, NEW m \in Modes, NEW l \in ListCanBitrates(m), TakeListed(l, m)
  PROVE  BtrInv'
PROOF
  <1>1. PICK pairs : pairs = ToSet(Listed(l, m))
    OBVIOUS
  <1>2. pairs \in SUBSET (Keys \X Nat) /\ Reads(scan_bitrate(Listed(l, m)), pairs)
    BY <1>1, ListedReads
  <1>3. PICK again : again = scan_bitrate(Listed(l, m)) /\ Scanned(again)
    BY ListedStarted
  <1>4. text' = pairs /\ scan' = again /\ phase' = "known" /\ mode' = mode
    BY <1>1, <1>3 DEF TakeListed
  <1>5. ReadSoFar' /\ scan'.ok
    BY <1>2, <1>3, <1>4 DEF ReadSoFar, Scanned
  <1> QED
    BY <1>2, <1>4, <1>5 DEF BtrInv

LEMMA CanStartKeeps ==
  ASSUME BtrInv, NEW m \in Modes, can_start(m)
  PROVE  BtrInv'
PROOF
  <1>1. /\ text' = text /\ scan' = scan /\ mode' = m /\ phase = "known"
        /\ phase' \in {"running", "stopped"}
        /\ phase' = "running" => Startable(scan.bitrate, m) /\ driver' = Setting(scan.bitrate, m)
    BY DEF can_start
  <1>2. ReadSoFar' \/ IndexTaken'
    BY <1>1 DEF BtrInv, ReadSoFar, IndexTaken, Taken
  <1>3. scan'.ok
    BY <1>1 DEF BtrInv, Taken
  <1> QED
    BY <1>1, <1>2, <1>3 DEF BtrInv

LEMMA BtrInvNext == BtrInv /\ [BtrNext]_btrVars => BtrInv'
PROOF
  <1> SUFFICES ASSUME BtrInv, [BtrNext]_btrVars PROVE BtrInv'
    OBVIOUS
  <1>1. CASE \E key \in Keys : \E number \in Numbers[key] : ScanPair(key, number)
    BY <1>1, ScanPairKeeps
  <1>2. CASE ScanOther
    BY <1>2, ScanOtherKeeps
  <1>3. CASE ScanEnd
    BY <1>3, ScanEndKeeps
  <1>4. CASE \E i \in -Entries .. 0 : TakeIndex(i)
    BY <1>4, TakeIndexKeeps
  <1>5. CASE \E m \in Modes : \E b \in ListCanBitrates(m) : TakeListed(b, m)
    BY <1>5, TakeListedKeeps
  <1>6. CASE \E m \in Modes : can_start(m)
    BY <1>6, CanStartKeeps
  <1>7. CASE UNCHANGED btrVars
    BY <1>7 DEF btrVars, BtrInv, ReadSoFar, IndexTaken
  <1> QED
    BY <1>1, <1>2, <1>3, <1>4, <1>5, <1>6, <1>7 DEF BtrNext

LEMMA BtrTypes == BtrInv => BtrTypeOK
PROOF
  <1> SUFFICES ASSUME BtrInv PROVE BtrTypeOK
    OBVIOUS
  <1> DEFINE b == scan.bitrate
  <1>1. "nom_sam" \in TimingKeys /\ DOMAIN NoTiming = TimingKeys /\ Entries \in Nat
    BY KeysAre DEF TimingKeys, Entries
  <1>2. /\ b.frequency \in -Entries .. INT32_MAX /\ b.timing \in [TimingKeys -> 0 .. UINT16_MAX]
        /\ b.timing["nom_sam"] \in 0 .. UINT8_MAX
    <2>1. CASE ReadSoFar
      <3>1. /\ b \in Rates /\ b.frequency \in 0 .. INT32_MAX
            /\ b.timing["nom_sam"] \in 0 .. UINT8_MAX
        BY <2>1 DEF ReadSoFar, Reads, InRange, ScanType
      <3> HIDE DEF b
      <3> QED
        BY <1>1, <3>1, LimitIs DEF Rates
    <2>2. CASE IndexTaken
      <3>1. PICK i \in -Entries .. 0 : scan = [Blank EXCEPT !.bitrate = Index(i)]
        BY <2>2 DEF IndexTaken
      <3>2. b.frequency = i /\ b.timing = NoTiming
        BY <3>1 DEF Blank, Index
      <3>3. NoTiming \in [TimingKeys -> 0 .. UINT16_MAX] /\ NoTiming["nom_sam"] = 0
        BY LimitIs DEF NoTiming, TimingKeys
      <3> HIDE DEF b
      <3> QED
        BY <1>1, <3>2, <3>3, LimitIs
    <2> QED
      BY <2>1, <2>2 DEF BtrInv
  <1> HIDE DEF b
  <1>3. /\ scan.bitrate.frequency \in -Entries .. INT32_MAX
        /\ DOMAIN scan.bitrate.timing = DOMAIN NoTiming
        /\ \A key \in DOMAIN NoTiming : scan.bitrate.timing[key] \in 0 .. UINT16_MAX
        /\ scan.bitrate.timing.nom_sam \in 0 .. UINT8_MAX
    BY <1>1, <1>2 DEF b
  <1> QED
    BY <1>3 DEF BtrTypeOK, BtrInv

(* A bit-rate that is known and no index was read from the text. *)
LEMMA KnownWasRead ==
  ASSUME BtrInv, phase \in Taken, scan.bitrate.frequency > 0
  PROVE  Reads(scan, text) /\ scan.ok /\ text \in SUBSET (Keys \X Nat)
PROOF
  <1>1. ~IndexTaken
    <2>1. SUFFICES ASSUME NEW i \in -Entries .. 0, scan = [Blank EXCEPT !.bitrate = Index(i)]
                   PROVE  FALSE
      BY DEF IndexTaken
    <2>2. scan.bitrate.frequency = i
      BY <2>1 DEF Blank, Index
    <2>3. i <= 0
      BY DEF Entries
    <2> QED
      BY <2>2, <2>3
  <1> QED
    BY <1>1 DEF BtrInv, ReadSoFar

LEMMA TextIsRead == BtrInv => StringRead
PROOF
  <1> SUFFICES ASSUME BtrInv, phase = "known", scan.bitrate.frequency > 0 PROVE StringRead
    BY DEF StringRead
  <1> DEFINE Says(key) == {pair[2] : pair \in {p \in text : p[1] = key}}
             Hertz == Says("f_clock") \cup {MHz * mhz : mhz \in Says("f_clock_mhz")}
             b == scan.bitrate
  <1>1. Reads(scan, text) /\ scan.ok /\ text \in SUBSET (Keys \X Nat)
    BY KnownWasRead DEF Taken
  <1>2. /\ \A p \in text : Counter(p[1]) \in scan.count /\ Shows(b, p[1], p[2])
        /\ \A c \in scan.count : \E p \in text : Counter(p[1]) = c
        /\ \A key \in TimingKeys : key \notin scan.count => b.timing[key] = 0
        /\ "f_clock" \notin scan.count => b.frequency = 0
    BY <1>1 DEF Reads
  <1>3. \A p \in text : p[1] \in Keys /\ p[2] \in Nat
    BY <1>1
  <1>4. MHz \in Nat
    BY SMT DEF MHz
  <1> HIDE DEF b
  <1>5. Hertz = {b.frequency}
    <2>1. ASSUME NEW p \in text, p[1] \in {"f_clock", "f_clock_mhz"}
          PROVE  b.frequency = Hz(p[1], p[2])
      BY <1>2, <2>1, KeysAre DEF Shows
    <2>2. \A h \in Hertz : h = b.frequency
      <3>1. ASSUME NEW h \in Says("f_clock") PROVE h = b.frequency
        BY <2>1 DEF Hz
      <3>2. ASSUME NEW mhz \in Says("f_clock_mhz") PROVE MHz * mhz = b.frequency
        <4>1. PICK p \in text : p[1] = "f_clock_mhz" /\ mhz = p[2]
          OBVIOUS
        <4>2. b.frequency = mhz * MHz /\ mhz \in Nat
          BY <1>3, <2>1, <4>1 DEF Hz
        <4> QED
          BY <1>4, <4>2
      <3> QED
        BY <3>1, <3>2
    <2>3. b.frequency \in Hertz
      <3>1. "f_clock" \in scan.count
        BY <1>2 DEF b
      <3>2. PICK p \in text : Counter(p[1]) = "f_clock"
        BY <1>2, <3>1
      <3>3. p[1] \in {"f_clock", "f_clock_mhz"}
        BY <1>3, <3>2, KeysAre
      <3>4. CASE p[1] = "f_clock"
        <4>1. p[2] \in Says("f_clock")
          BY <3>4
        <4>2. b.frequency = p[2]
          BY <2>1, <3>4 DEF Hz
        <4> QED
          BY <4>1, <4>2
      <3>5. CASE p[1] = "f_clock_mhz"
        <4>1. p[2] \in Says("f_clock_mhz")
          BY <3>5
        <4>2. b.frequency = MHz * p[2]
          <5>1. b.frequency = p[2] * MHz /\ p[2] \in Nat
            BY <1>3, <2>1, <3>5 DEF Hz
          <5> QED
            BY <1>4, <5>1
        <4> QED
          BY <4>1, <4>2
      <3> QED
        BY <3>3, <3>4, <3>5
    <2> HIDE DEF Hertz
    <2> QED
      BY <2>2, <2>3
  <1>6. ASSUME NEW key \in TimingKeys
        PROVE  Says(key) = {b.timing[key]} \/ (Says(key) = {} /\ b.timing[key] = 0)
    <2>1. \A n \in Says(key) : n = b.timing[key]
      <3>1. ASSUME NEW p \in text, p[1] = key PROVE p[2] = b.timing[key]
        BY <1>2, <3>1 DEF Shows
      <3> QED
        BY <3>1
    <2>2. CASE key \in scan.count
      <3>1. PICK p \in text : Counter(p[1]) = key
        BY <1>2, <2>2
      <3>2. p[1] = key
        BY <1>3, <3>1, KeysAre
      <3>3. p[2] \in Says(key)
        BY <3>2
      <3> HIDE DEF Says
      <3> QED
        BY <2>1, <3>3
    <2>3. CASE key \notin scan.count
      <3>1. ASSUME NEW p \in text, p[1] = key PROVE FALSE
        BY <1>2, <2>3, <3>1, KeysAre
      <3>2. Says(key) = {}
        BY <3>1
      <3> QED
        BY <1>2, <2>3, <3>2
    <2> QED
      BY <2>2, <2>3
  <1> QED
    BY <1>5, <1>6, KeysAre DEF StringRead, b

LEMMA PrintedAgain == BtrInv => StringKeeps
PROOF
  <1> SUFFICES ASSUME BtrInv, phase = "known", scan.bitrate.frequency > 0 PROVE StringKeeps
    BY DEF StringKeeps
  <1>1. Reads(scan, text) /\ scan.ok /\ text \in SUBSET (Keys \X Nat)
    BY KnownWasRead DEF Taken
  <1>2. PICK b : b = scan.bitrate
    OBVIOUS
  <1>3. Printable(b) /\ b \in Rates /\ b.frequency > 0
    BY <1>1, <1>2 DEF Reads, InRange, ScanType, Printable
  <1> DEFINE data == HasData(scan)
             sam == HasSam(scan)
  <1>4. data \in BOOLEAN /\ sam \in BOOLEAN
    BY DEF HasData, HasSam
  <1>5. PICK again : again = scan_bitrate(print_bitrate(b, HasData(scan), HasSam(scan)))
    OBVIOUS
  <1>6. again = scan_bitrate(print_bitrate(b, data, sam))
    BY <1>5
  <1> HIDE DEF data, sam
  <1>7. /\ InRange(again) /\ again.ok /\ again.count = PrintedKeys(data, sam)
        /\ again.bitrate.frequency = b.frequency
        /\ \A key \in TimingKeys :
             again.bitrate.timing[key] = IF key \in PrintedKeys(data, sam) THEN b.timing[key] ELSE 0
    BY <1>3, <1>4, <1>6, PrintScans
  <1>8. ASSUME NEW key \in TimingKeys, key \notin PrintedKeys(data, sam) PROVE b.timing[key] = 0
    <2>1. key \notin scan.count
      <3>1. CASE key = "nom_sam"
        <4>1. ~sam
          BY <1>8, <3>1 DEF PrintedKeys
        <4> QED
          BY <3>1, <4>1 DEF HasSam, sam
      <3>2. CASE key \in DataKeys
        <4>1. ~data
          BY <1>8, <3>2 DEF PrintedKeys
        <4> QED
          BY <3>2, <4>1 DEF HasData, data
      <3> QED
        BY <1>8, <3>1, <3>2 DEF TimingKeys, PrintedKeys
    <2> QED
      BY <1>1, <1>2, <2>1 DEF Reads
  <1>9. again.bitrate = b
    <2>1. again.bitrate \in Rates
      BY <1>7 DEF InRange, ScanType
    <2>2. \A key \in TimingKeys : again.bitrate.timing[key] = b.timing[key]
      BY <1>7, <1>8
    <2>3. again.bitrate.timing = b.timing
      BY <1>3, <2>1, <2>2 DEF Rates
    <2> QED
      BY <1>3, <1>7, <2>1, <2>3 DEF Rates
  <1>10. /\ HasSam(again) <=> sam
         /\ HasData(again) <=> data
    <2>1. "nom_sam" \in PrintedKeys(data, sam) <=> sam
      BY DEF PrintedKeys, NominalKeys, DataKeys
    <2>2. "data_brp" \in DataKeys /\ DataKeys \cap ({"f_clock", "nom_sam"} \cup NominalKeys) = {}
      BY DEF NominalKeys, DataKeys
    <2>3. data => "data_brp" \in PrintedKeys(data, sam)
      BY <2>2 DEF PrintedKeys
    <2>4. ~data => \A key \in PrintedKeys(data, sam) : key \notin DataKeys
      BY <2>2 DEF PrintedKeys
    <2> QED
      BY <1>7, <2>1, <2>2, <2>3, <2>4 DEF HasSam, HasData
  <1>11. HasData(again) = HasData(scan) /\ HasSam(again) = HasSam(scan)
    BY <1>10 DEF HasData, HasSam, data, sam
  <1>12. Scanned(again)
    BY <1>3, <1>7 DEF Scanned, Rates
  <1> QED
    BY <1>2, <1>5, <1>9, <1>11, <1>12 DEF StringKeeps

(* StringKept, for every set of numbers: a bit-rate that was scanned says   *)
(* what its string says, in whichever order, and scans to itself when it    *)
(* is printed.                                                              *)
THEOREM StringsAreKept == BtrSpec => []StringKept
PROOF
  <1>1. BtrInv => StringKept
    BY BtrTypes, TextIsRead, PrintedAgain DEF StringKept
  <1> QED
    BY <1>1, BtrInvInit, BtrInvNext, PTL DEF BtrSpec
-------------------------------------------------------------------------------
(***************************************************************************)
(* The register, there and back.                                           *)
(***************************************************************************)
Unpacked(r, sjw, brp, sam, tseg2, tseg1) ==
  /\ BTR_SJW(r) = sjw /\ BTR_BRP(r) = brp /\ BTR_SAM(r) = sam
  /\ BTR_TSEG2(r) = tseg2 /\ BTR_TSEG1(r) = tseg1

LEMMA RegisterReads ==
  ASSUME NEW sjw \in 0 .. 3, NEW brp \in 0 .. 63, NEW sam \in 0 .. 1, NEW tseg2 \in 0 .. 7,
         NEW tseg1 \in 0 .. 15, NEW r, r = BTR_BTR0BTR1(sjw, brp, sam, tseg2, tseg1)
  PROVE  Unpacked(r, sjw, brp, sam, tseg2, tseg1)
PROOF
  <1>1. r = sjw * 16384 + brp * 256 + sam * 128 + tseg2 * 16 + tseg1
    BY SMT DEF BTR_BTR0BTR1
  <1>2. BTR_SJW(r) = sjw
    BY <1>1, SMT DEF BTR_SJW
  <1>3. BTR_BRP(r) = brp
    BY <1>1, SMT DEF BTR_BRP
  <1>4. BTR_SAM(r) = sam
    <2>1. r \div 128 = (sjw * 64 + brp) * 2 + sam
      BY <1>1, SMT
    <2>2. ((sjw * 64 + brp) * 2 + sam) % 2 = sam
      BY SMT
    <2> QED
      BY <2>1, <2>2, SMT DEF BTR_SAM
  <1>5. BTR_TSEG2(r) = tseg2
    <2>1. r \div 16 = (sjw * 128 + brp * 2 + sam) * 8 + tseg2
      BY <1>1, SMT
    <2>2. ((sjw * 128 + brp * 2 + sam) * 8 + tseg2) % 8 = tseg2
      BY SMT
    <2> QED
      BY <2>1, <2>2, SMT DEF BTR_TSEG2
  <1>6. BTR_TSEG1(r) = tseg1
    BY <1>1, SMT DEF BTR_TSEG1
  <1> QED
    BY <1>2, <1>3, <1>4, <1>5, <1>6 DEF Unpacked

(* The bit-rate that a register of the controller stands for. *)
LEMMA RegisterRate ==
  ASSUME NEW r, BTR_SJW(r) + 1 \in 0 .. 256, BTR_BRP(r) + 1 \in 0 .. 256, BTR_SAM(r) \in 0 .. 256,
         BTR_TSEG2(r) + 1 \in 0 .. 256, BTR_TSEG1(r) + 1 \in 0 .. 256,
         NEW b, b = btr_sja10002bitrate(r)
  PROVE  /\ b \in Rates /\ b.frequency = FREQ_SJA1000
         /\ b.timing["nom_sjw"] = BTR_SJW(r) + 1 /\ b.timing["nom_brp"] = BTR_BRP(r) + 1
         /\ b.timing["nom_sam"] = BTR_SAM(r) /\ b.timing["nom_tseg2"] = BTR_TSEG2(r) + 1
         /\ b.timing["nom_tseg1"] = BTR_TSEG1(r) + 1
PROOF
  <1>1. PICK t : t = [NoTiming EXCEPT !.nom_sjw = BTR_SJW(r) + 1, !.nom_brp = BTR_BRP(r) + 1,
                                      !.nom_sam = BTR_SAM(r), !.nom_tseg2 = BTR_TSEG2(r) + 1,
                                      !.nom_tseg1 = BTR_TSEG1(r) + 1]
    OBVIOUS
  <1>2. NoTiming \in [TimingKeys -> 0 .. UINT16_MAX]
    BY LimitIs DEF NoTiming, TimingKeys
  <1>3. /\ "nom_brp" \in TimingKeys /\ "nom_tseg1" \in TimingKeys /\ "nom_tseg2" \in TimingKeys
        /\ "nom_sjw" \in TimingKeys /\ "nom_sam" \in TimingKeys
    BY DEF TimingKeys, NominalKeys
  <1>4. 256 <= UINT16_MAX
    BY SMT DEF UINT16_MAX
  <1>5. \A n \in 0 .. 256 : n \in 0 .. UINT16_MAX
    BY <1>4, LimitIs
  <1>6. PICK v1, v2, v3, v4, v5 : /\ v1 = BTR_SJW(r) + 1 /\ v2 = BTR_BRP(r) + 1 /\ v3 = BTR_SAM(r)
                                  /\ v4 = BTR_TSEG2(r) + 1 /\ v5 = BTR_TSEG1(r) + 1
    OBVIOUS
  <1>7. /\ v1 \in 0 .. UINT16_MAX /\ v2 \in 0 .. UINT16_MAX /\ v3 \in 0 .. UINT16_MAX
        /\ v4 \in 0 .. UINT16_MAX /\ v5 \in 0 .. UINT16_MAX
    BY <1>5, <1>6, ZenonT(90)
  <1>8. PICK none \in [TimingKeys -> 0 .. UINT16_MAX] : none = NoTiming
    BY <1>2
  <1>9. PICK u : u = [none EXCEPT !["nom_sjw"] = v1, !["nom_brp"] = v2, !["nom_sam"] = v3,
                                  !["nom_tseg2"] = v4]
    OBVIOUS
  <1>10. /\ u \in [TimingKeys -> 0 .. UINT16_MAX]
         /\ u["nom_sjw"] = v1 /\ u["nom_brp"] = v2 /\ u["nom_sam"] = v3 /\ u["nom_tseg2"] = v4
    BY <1>3, <1>7, <1>9, FourChanged
  <1>11. t = [u EXCEPT !["nom_tseg1"] = v5]
    BY <1>1, <1>6, <1>8, <1>9, Zenon
  <1>12. /\ t \in [TimingKeys -> 0 .. UINT16_MAX]
         /\ t["nom_sjw"] = v1 /\ t["nom_brp"] = v2 /\ t["nom_sam"] = v3 /\ t["nom_tseg2"] = v4
         /\ t["nom_tseg1"] = v5
    BY <1>3, <1>7, <1>10, <1>11
  <1>13. b = [frequency |-> FREQ_SJA1000, timing |-> t]
    BY <1>1, Zenon DEF btr_sja10002bitrate
  <1>14. FREQ_SJA1000 \in Int
    BY SMT DEF FREQ_SJA1000
  <1> QED
    BY <1>6, <1>12, <1>13, <1>14 DEF Rates

(* A bit-rate with a register is what its register stands for. *)
LEMMA RegisterKeeps ==
  ASSUME NEW b, HasRegister(b), NEW again,
         again = btr_sja10002bitrate(btr_bitrate2sja1000(b))
  PROVE  /\ again.frequency = b.frequency
         /\ \A key \in NominalKeys \cup {"nom_sam"} : again.timing[key] = b.timing[key]
PROOF
  <1>1. PICK sjw, brp, sam, tseg2, tseg1 :
          /\ sjw = b.timing.nom_sjw - 1 /\ brp = b.timing.nom_brp - 1 /\ sam = b.timing.nom_sam
          /\ tseg2 = b.timing.nom_tseg2 - 1 /\ tseg1 = b.timing.nom_tseg1 - 1
    OBVIOUS
  <1>2. /\ b.timing.nom_sjw \in 1 .. 4 /\ b.timing.nom_brp \in 1 .. 64 /\ b.timing.nom_sam \in 0 .. 1
        /\ b.timing.nom_tseg2 \in 1 .. 8 /\ b.timing.nom_tseg1 \in 1 .. 16
        /\ b.frequency = FREQ_SJA1000
    BY DEF HasRegister
  <1>3. /\ sjw \in 0 .. 3 /\ brp \in 0 .. 63 /\ sam \in 0 .. 1 /\ tseg2 \in 0 .. 7
        /\ tseg1 \in 0 .. 15
    BY <1>1, <1>2
  <1>4. PICK r : r = BTR_BTR0BTR1(sjw, brp, sam, tseg2, tseg1)
    OBVIOUS
  <1>5. again = btr_sja10002bitrate(r)
    BY <1>1, <1>4 DEF btr_bitrate2sja1000
  <1>6. /\ BTR_SJW(r) = sjw /\ BTR_BRP(r) = brp /\ BTR_SAM(r) = sam
        /\ BTR_TSEG2(r) = tseg2 /\ BTR_TSEG1(r) = tseg1
    <2>1. Unpacked(r, sjw, brp, sam, tseg2, tseg1)
      BY <1>3, <1>4, RegisterReads
    <2> QED
      BY <2>1, SMTT(60) DEF Unpacked
  <1>7. /\ BTR_SJW(r) + 1 \in 0 .. 256 /\ BTR_BRP(r) + 1 \in 0 .. 256 /\ BTR_SAM(r) \in 0 .. 256
        /\ BTR_TSEG2(r) + 1 \in 0 .. 256 /\ BTR_TSEG1(r) + 1 \in 0 .. 256
    BY <1>3, <1>6
  <1>8. /\ again.frequency = FREQ_SJA1000
        /\ again.timing["nom_sjw"] = sjw + 1 /\ again.timing["nom_brp"] = brp + 1
        /\ again.timing["nom_sam"] = sam /\ again.timing["nom_tseg2"] = tseg2 + 1
        /\ again.timing["nom_tseg1"] = tseg1 + 1
    BY <1>5, <1>6, <1>7, RegisterRate
  <1>9. /\ sjw + 1 = b.timing["nom_sjw"] /\ brp + 1 = b.timing["nom_brp"]
        /\ sam = b.timing["nom_sam"] /\ tseg2 + 1 = b.timing["nom_tseg2"]
        /\ tseg1 + 1 = b.timing["nom_tseg1"]
    BY <1>1, <1>2
  <1> QED
    BY <1>2, <1>8, <1>9 DEF NominalKeys

(* The two tables agree. *)
LEMMA TablesAgree ==
  ASSUME NEW i \in -8 .. 0
  PROVE  PCAN_BAUD[1 - i] = btr_index2sja1000(i)
PROOF
  <1>1. PICK p, t : p = PCAN_BAUD /\ t = sja1000_btr0btr1
    OBVIOUS
  <1>2. /\ p[1] = 20 /\ p[2] = 22 /\ p[3] = 28 /\ p[4] = 284 /\ p[5] = 796 /\ p[6] = 17436
        /\ p[7] = 18716 /\ p[8] = 22556 /\ p[9] = 28956
    BY <1>1, SMT DEF PCAN_BAUD
  <1>3. /\ t[1] = 20 /\ t[2] = 22 /\ t[3] = 28 /\ t[4] = 284 /\ t[5] = 796 /\ t[6] = 17436
        /\ t[7] = 18716 /\ t[8] = 22556 /\ t[9] = 28956
    BY <1>1, SMT DEF sja1000_btr0btr1
  <1>4. PICK k \in 1 .. 9 : k = 1 - i
    OBVIOUS
  <1>5. p[k] = t[k]
    BY <1>2, <1>3, SMT
  <1> QED
    BY <1>1, <1>4, <1>5, SMT DEF btr_index2sja1000

LEMMA RunningIsReported == BtrInv => RunsAsAsked
PROOF
  <1> SUFFICES ASSUME BtrInv, phase = "running" PROVE RunsAsAsked
    BY DEF RunsAsAsked
  <1> DEFINE Kept == NominalKeys \cup (IF "fdoe" \notin mode THEN {"nom_sam"}
                                       ELSE IF "brse" \in mode THEN DataKeys ELSE {})
  <1>1. PICK b : b = scan.bitrate
    OBVIOUS
  <1>2. Startable(b, mode) /\ driver = Setting(b, mode) /\ mode \in Modes
    BY <1>1 DEF BtrInv
  <1>3. CASE b.frequency <= 0
    <2>1. b.frequency \in -8 .. 0 /\ "fdoe" \notin mode
      BY <1>2, <1>3 DEF Startable
    <2>2. driver = <<PCAN_BAUD[1 - b.frequency]>>
      BY <1>2, <1>3 DEF Setting
    <2>3. driver[1] = PCAN_BAUD[1 - b.frequency]
      BY <2>2
    <2>4. Reported = btr_index2bitrate(b.frequency)
      BY <2>1, <2>3, TablesAgree DEF Reported, btr_index2bitrate
    <2>5. ~(b.frequency > 0)
      BY <2>1
    <2> QED
      BY <1>1, <2>4, <2>5 DEF RunsAsAsked
  <1>4. CASE ~(b.frequency <= 0) /\ "fdoe" \notin mode
    <2>1. HasRegister(b)
      BY <1>2, <1>4 DEF Startable
    <2>2. driver = <<btr_bitrate2sja1000(b)>>
      BY <1>2, <1>4 DEF Setting
    <2>3. Reported = btr_sja10002bitrate(btr_bitrate2sja1000(b))
      BY <1>4, <2>2 DEF Reported
    <2>4. PICK again : again = Reported
      OBVIOUS
    <2>5. /\ again.frequency = b.frequency
          /\ \A key \in NominalKeys \cup {"nom_sam"} : again.timing[key] = b.timing[key]
      BY <2>1, <2>3, <2>4, RegisterKeeps
    <2>6. b.frequency > 0
      <3>1. b.frequency = FREQ_SJA1000
        BY <2>1 DEF HasRegister
      <3> QED
        BY <3>1, SMT DEF FREQ_SJA1000
    <2>7. \A key \in Kept : key \in NominalKeys \cup {"nom_sam"}
      BY <1>4
    <2> HIDE DEF Kept
    <2>8. \A key \in Kept : Reported.timing[key] = b.timing[key]
      BY <2>4, <2>5, <2>7
    <2> QED
      BY <1>1, <2>4, <2>5, <2>6, <2>8 DEF RunsAsAsked, Kept
  <1>5. CASE ~(b.frequency <= 0) /\ "fdoe" \in mode
    <2>1. b.frequency > 0
      <3>1. b.frequency \in Frequencies
        BY <1>2, <1>5 DEF Startable
      <3>2. \A f \in Frequencies : f > 0
        BY SMT DEF Frequencies
      <3> QED
        BY <3>1, <3>2
    <2>2. Printable(b)
      <3>1. Reads(scan, text)
        BY <1>1, <2>1, KnownWasRead DEF Taken
      <3> QED
        BY <1>1, <3>1 DEF Reads, InRange, ScanType, Printable
    <2> DEFINE data == "brse" \in mode
               sam == FALSE
    <2>3. driver = print_bitrate(b, data, sam) /\ data \in BOOLEAN /\ sam \in BOOLEAN
      BY <1>2, <1>5 DEF Setting
    <2>4. PICK again : again = scan_bitrate(driver)
      OBVIOUS
    <2>5. Reported = again.bitrate
      BY <1>5, <2>4 DEF Reported
    <2>6. \A key \in Kept : key \in TimingKeys /\ key \in PrintedKeys(data, sam)
      BY <1>5 DEF TimingKeys, PrintedKeys
    <2> HIDE DEF Kept, data, sam
    <2>7. /\ again.bitrate.frequency = b.frequency
          /\ \A key \in TimingKeys :
               again.bitrate.timing[key] = IF key \in PrintedKeys(data, sam) THEN b.timing[key] ELSE 0
      <3>1. again = scan_bitrate(print_bitrate(b, data, sam))
        BY <2>3, <2>4
      <3> QED
        BY <2>2, <2>3, <3>1, PrintScans
    <2>8. \A key \in Kept : Reported.timing[key] = b.timing[key]
      BY <2>5, <2>6, <2>7
    <2> QED
      BY <1>1, <2>1, <2>5, <2>7, <2>8 DEF RunsAsAsked, Kept
  <1> QED
    BY <1>3, <1>4, <1>5

LEMMA ListIsStarted == BtrInv => ListedStarts
PROOF
  <1> SUFFICES ASSUME BtrInv, NEW m \in Modes, NEW l \in ListCanBitrates(m),
                      text = ToSet(Listed(l, m))
               PROVE  /\ Scanned(scan_bitrate(Listed(l, m)))
                      /\ phase \in Taken =>
                           /\ Startable(scan.bitrate, m)
                           /\ m = {} => btr_bitrate2index(scan.bitrate) # {}
    BY Zenon DEF ListedStarts, Taken
  <1>1. PICK again : again = scan_bitrate(Listed(l, m))
    OBVIOUS
  <1>2. /\ Scanned(again) /\ Startable(again.bitrate, m)
        /\ m = {} => btr_bitrate2index(again.bitrate) # {}
    BY <1>1, ListedStarted
  <1>3. ASSUME phase \in Taken PROVE scan.bitrate = again.bitrate
    <2>1. Reads(again, text) /\ text # {} /\ text \in SUBSET (Keys \X Nat)
      BY <1>1, ListedReads
    <2>2. Reads(scan, text)
      BY <2>1 DEF BtrInv, ReadSoFar, IndexTaken
    <2>3. scan.ok /\ again.ok
      BY <1>2, <1>3 DEF BtrInv, Scanned
    <2> QED
      BY <2>1, <2>2, <2>3, ReadsAlike
  <1> QED
    BY <1>1, <1>2, <1>3

(* ReportedAsStarted, for every set of numbers: can_bitrate reports of a    *)
(* running controller what can_start was asked for, and every bit-rate that *)
(* is listed for a mode can be started in it.                               *)
THEOREM StartedIsReported == BtrSpec => []ReportedAsStarted
PROOF
  <1>1. BtrInv => ReportedAsStarted
    BY RunningIsReported, ListIsStarted DEF ReportedAsStarted
  <1> QED
    BY <1>1, BtrInvInit, BtrInvNext, PTL DEF BtrSpec
-------------------------------------------------------------------------------
(***************************************************************************)
(* The comparison of bit-rates.                                            *)
(***************************************************************************)

(* Two lists of values that are compared one by one. *)
Alike(c, d) ==
  /\ c \in Seq(Int \X Int) /\ d \in Seq(Int \X Int) /\ Len(c) = Len(d)
  /\ \A k \in 1 .. Len(c) : c[k][1] = d[k][1]

Appended(T, s, a, c) ==
  /\ s \in Seq(T) /\ Len(s) = Len(a) + Len(c)
  /\ \A i \in 1 .. Len(a) : s[i] = a[i]
  /\ \A i \in 1 .. Len(c) : s[Len(a) + i] = c[i]

LEMMA JoinedTwo ==
  ASSUME NEW T, NEW a \in Seq(T), NEW c \in Seq(T)
  PROVE  Appended(T, a \o c, a, c)
PROOF
  <1>1. PICK s : s = a \o c
    OBVIOUS
  <1>2. /\ s \in Seq(T) /\ Len(s) = Len(a) + Len(c)
        /\ \A i \in 1 .. Len(a) : s[i] = a[i]
        /\ \A i \in 1 .. Len(c) : s[Len(a) + i] = c[i]
    BY <1>1
  <1> QED
    BY <1>1, <1>2 DEF Appended

LEMMA AlikeJoined ==
  ASSUME NEW a, NEW b, NEW c, NEW d, Alike(a, b), Alike(c, d)
  PROVE  Alike(a \o c, b \o d)
PROOF
  <1>1. PICK T : T = Int \X Int
    OBVIOUS
  <1>2. /\ a \in Seq(T) /\ b \in Seq(T) /\ c \in Seq(T) /\ d \in Seq(T)
        /\ Len(a) = Len(b) /\ Len(c) = Len(d)
    BY <1>1 DEF Alike
  <1>3. PICK n \in Nat, m \in Nat : n = Len(a) /\ n = Len(b) /\ m = Len(c) /\ m = Len(d)
    BY <1>2
  <1>4. PICK s, t : s = a \o c /\ t = b \o d
    OBVIOUS
  <1>5. /\ s \in Seq(T) /\ Len(s) = n + m
        /\ \A i \in 1 .. n : s[i] = a[i]
        /\ \A i \in 1 .. m : s[n + i] = c[i]
    <2>1. Appended(T, s, a, c)
      BY <1>2, <1>4, JoinedTwo
    <2> QED
      BY <1>3, <2>1 DEF Appended
  <1>6. /\ t \in Seq(T) /\ Len(t) = n + m
        /\ \A i \in 1 .. n : t[i] = b[i]
        /\ \A i \in 1 .. m : t[n + i] = d[i]
    <2>1. Appended(T, t, b, d)
      BY <1>2, <1>4, JoinedTwo
    <2> QED
      BY <1>3, <2>1 DEF Appended
  <1>7. ASSUME NEW k \in 1 .. n + m PROVE s[k][1] = t[k][1]
    <2>1. CASE k <= n
      <3>1. s[k] = a[k] /\ t[k] = b[k] /\ k \in 1 .. n
        BY <1>5, <1>6, <2>1
      <3> QED
        BY <1>3, <3>1 DEF Alike
    <2>2. CASE ~(k <= n)
      <3>1. PICK j \in 1 .. m : k = n + j
        <4>1. k - n \in 1 .. m /\ k = n + (k - n)
          BY <1>3, <2>2
        <4> QED
          BY <4>1
      <3>2. s[k] = c[j] /\ t[k] = d[j]
        BY <1>5, <1>6, <3>1
      <3> QED
        BY <1>3, <3>2 DEF Alike
    <2> QED
      BY <2>1, <2>2
  <1> QED
    BY <1>1, <1>4, <1>5, <1>6, <1>7 DEF Alike

LEMMA AlikeOne ==
  ASSUME NEW code \in Int, NEW v \in Int, NEW w \in Int
  PROVE  Alike(<<<<code, v>>>>, <<<<code, w>>>>)
PROOF
  <1>1. PICK x \in Int \X Int, y \in Int \X Int : x = <<code, v>> /\ y = <<code, w>>
    OBVIOUS
  <1>2. PICK s, t : s = <<x>> /\ t = <<y>>
    OBVIOUS
  <1>3. /\ s \in Seq(Int \X Int) /\ t \in Seq(Int \X Int) /\ Len(s) = 1 /\ Len(t) = 1
        /\ s[1] = x /\ t[1] = y
    BY <1>2
  <1>4. x[1] = y[1]
    BY <1>1
  <1>5. Alike(s, t)
    BY <1>3, <1>4 DEF Alike
  <1> QED
    BY <1>1, <1>2, <1>5

LEMMA AlikeParts ==
  ASSUME NEW code \in Int, NEW v \in Int, NEW w \in Int, NEW on \in BOOLEAN
  PROVE  Alike(IF on THEN <<<<code, v>>>> ELSE <<>>, IF on THEN <<<<code, w>>>> ELSE <<>>)
PROOF
  <1>1. CASE on
    BY <1>1, AlikeOne
  <1>2. CASE ~on
    <2>1. PICK s : s = <<>>
      OBVIOUS
    <2>2. s \in Seq(Int \X Int) /\ Len(s) = 0
      BY <2>1
    <2>3. Alike(s, s)
      BY <2>2 DEF Alike
    <2> QED
      BY <1>2, <2>1, <2>3
  <1> QED
    BY <1>1, <1>2

(* The first value that differs decides. *)
Differ(c, d) == {k \in DOMAIN c : c[k] # d[k]}

First(S) == CHOOSE k \in S : \A l \in S : k <= l

Decided(c, d) ==
  IF Differ(c, d) = {} THEN 0
  ELSE IF c[First(Differ(c, d))][2] < d[First(Differ(c, d))][2]
       THEN -c[First(Differ(c, d))][1] ELSE c[First(Differ(c, d))][1]

LEMMA DecidedSwaps ==
  ASSUME NEW c, NEW d, Alike(c, d)
  PROVE  Decided(c, d) = -Decided(d, c)
PROOF
  <1>1. PICK differ : differ = Differ(c, d)
    OBVIOUS
  <1>2. differ = Differ(d, c) /\ differ = {k \in 1 .. Len(c) : c[k] # d[k]}
    <2>1. DOMAIN c = 1 .. Len(c) /\ DOMAIN d = 1 .. Len(c)
      BY DEF Alike
    <2> QED
      BY <1>1, <2>1 DEF Differ
  <1>3. CASE differ = {}
    <2>1. PICK z \in Int : z = 0
      OBVIOUS
    <2>2. Decided(c, d) = z /\ Decided(d, c) = z
      BY <1>1, <1>2, <1>3, <2>1, Zenon DEF Decided
    <2>3. z = -z
      <3>1. z + z = 0
        BY <2>1
      <3> QED
        BY <3>1
    <2> QED
      BY <2>2, <2>3, Zenon
  <1>4. CASE differ # {}
    <2>1. differ \in SUBSET Nat
      BY <1>2 DEF Alike
    <2>2. \E k \in differ : \A l \in differ : k <= l
      BY <1>4, <2>1, LeastMember
    <2>3. PICK k : k = First(differ)
      OBVIOUS
    <2>4. k \in differ
      BY <2>2, <2>3, Zenon DEF First
    <2>5. /\ Decided(c, d) = IF c[k][2] < d[k][2] THEN -c[k][1] ELSE c[k][1]
          /\ Decided(d, c) = IF d[k][2] < c[k][2] THEN -d[k][1] ELSE d[k][1]
      BY <1>1, <1>2, <1>4, <2>3, Zenon DEF Decided
    <2>6. k \in 1 .. Len(c) /\ c[k] # d[k]
      BY <1>2, <2>4
    <2>7. c[k] \in Int \X Int /\ d[k] \in Int \X Int /\ c[k][1] = d[k][1]
      BY <2>6, SMTT(60) DEF Alike
    <2>8. PICK u \in Int, v \in Int, w \in Int :
            u = c[k][1] /\ u = d[k][1] /\ v = c[k][2] /\ w = d[k][2] /\ v # w
      <3>1. \A x, y \in Int \X Int : x[1] = y[1] /\ x # y => x[2] # y[2]
        OBVIOUS
      <3> QED
        BY <2>6, <2>7, <3>1
    <2>9. \/ Decided(c, d) = -u /\ Decided(d, c) = u
          \/ Decided(c, d) = u /\ Decided(d, c) = -u
      BY <2>5, <2>8
    <2>10. -(-u) = u
      OBVIOUS
    <2> QED
      BY <2>9, <2>10
  <1> QED
    BY <1>3, <1>4

(* The timing values of an index of the table. *)
LEMMA RegisterRange ==
  ASSUME NEW r \in Nat, r < 65536
  PROVE  /\ BTR_SJW(r) + 1 \in 0 .. 256 /\ BTR_BRP(r) + 1 \in 1 .. 256 /\ BTR_SAM(r) \in 0 .. 256
         /\ BTR_TSEG2(r) + 1 \in 0 .. 256 /\ BTR_TSEG1(r) + 1 \in 0 .. 256
PROOF
  <1>1. BTR_SJW(r) + 1 \in 0 .. 256
    BY SMT DEF BTR_SJW
  <1>2. BTR_BRP(r) + 1 \in 1 .. 256
    BY SMT DEF BTR_BRP
  <1>3. BTR_SAM(r) \in 0 .. 256
    BY SMT DEF BTR_SAM
  <1>4. BTR_TSEG2(r) + 1 \in 0 .. 256
    BY SMT DEF BTR_TSEG2
  <1>5. BTR_TSEG1(r) + 1 \in 0 .. 256
    BY SMT DEF BTR_TSEG1
  <1> QED
    BY <1>1, <1>2, <1>3, <1>4, <1>5

LEMMA IndexRate ==
  ASSUME NEW i, HasIndex(i), i \in Int, NEW b, b = btr_index2bitrate(i)
  PROVE  b \in Rates /\ b.frequency = FREQ_SJA1000 /\ b.timing["nom_brp"] > 0
PROOF
  <1>1. i \in {0, -1, -2, -3, -4, -5, -6, -7, -8, -9}
    BY DEF HasIndex, Entries
  <1>2. PICK r : r = btr_index2sja1000(i)
    OBVIOUS
  <1>3. r \in Nat /\ r < 65536
    BY <1>1, <1>2, TableIs, SMT
  <1>4. b = btr_sja10002bitrate(r)
    BY <1>2 DEF btr_index2bitrate
  <1>5. /\ BTR_SJW(r) + 1 \in 0 .. 256 /\ BTR_BRP(r) + 1 \in 1 .. 256 /\ BTR_SAM(r) \in 0 .. 256
        /\ BTR_TSEG2(r) + 1 \in 0 .. 256 /\ BTR_TSEG1(r) + 1 \in 0 .. 256
    BY <1>3, RegisterRange, SMT
  <1>6. BTR_BRP(r) + 1 \in 0 .. 256 /\ BTR_BRP(r) + 1 > 0
    BY <1>5
  <1>7. b \in Rates /\ b.frequency = FREQ_SJA1000 /\ b.timing["nom_brp"] = BTR_BRP(r) + 1
    BY <1>4, <1>5, <1>6, RegisterRate
  <1> QED
    BY <1>6, <1>7

LEMMA SettingsAre ==
  ASSUME NEW x \in Rates, Known(x), NEW b, b = Settings(x)
  PROVE  b \in Rates /\ b.frequency > 0
PROOF
  <1>1. x.frequency \in Int
    BY DEF Rates
  <1>2. CASE x.frequency <= 0
    <2>1. HasIndex(x.frequency)
      BY <1>1, <1>2 DEF Known
    <2>2. b = btr_index2bitrate(x.frequency)
      BY <1>2 DEF Settings
    <2>3. b \in Rates /\ b.frequency = FREQ_SJA1000
      BY <1>1, <2>1, <2>2, IndexRate
    <2>4. FREQ_SJA1000 > 0
      BY SMT DEF FREQ_SJA1000
    <2> QED
      BY <2>3, <2>4
  <1>3. CASE ~(x.frequency <= 0)
    <2>1. b = x
      BY <1>3 DEF Settings
    <2> QED
      BY <1>1, <1>3, <2>1
  <1> QED
    BY <1>2, <1>3

(* The values compared are numbers. *)
LEMMA TimingsAre ==
  ASSUME NEW b \in Rates, NEW phase_ \in {"nom", "data"}
  PROVE  /\ b.frequency \in Int
         /\ Prescaler(b, phase_) \in Nat /\ Segment1(b, phase_) \in Nat
         /\ Quanta(b, phase_) \in Nat /\ Quanta(b, phase_) > 0
PROOF
  <1>1. \A key \in TimingKeys : b.timing[key] \in Nat
    BY LimitIs DEF Rates
  <1>2. {"nom_brp", "nom_tseg1", "nom_tseg2", "data_brp", "data_tseg1", "data_tseg2"} \subseteq TimingKeys
    BY DEF TimingKeys, NominalKeys, DataKeys
  <1>3. /\ b.timing.nom_brp \in Nat /\ b.timing.nom_tseg1 \in Nat /\ b.timing.nom_tseg2 \in Nat
        /\ b.timing.data_brp \in Nat /\ b.timing.data_tseg1 \in Nat /\ b.timing.data_tseg2 \in Nat
    BY <1>1, <1>2
  <1>4. b.frequency \in Int
    BY DEF Rates
  <1> QED
    BY <1>3, <1>4 DEF Prescaler, Segment1, Quanta

LEMMA RoundedIs ==
  ASSUME NEW b \in Rates, NEW phase_ \in {"nom", "data"}
  PROVE  Rounded(b, phase_) \in Int /\ SamplePoint(b, phase_) \in Int
PROOF
  <1>1. PICK f \in Int, p \in Nat, g \in Nat, q \in Nat :
          /\ f = b.frequency /\ p = Prescaler(b, phase_) /\ g = Segment1(b, phase_)
          /\ q = Quanta(b, phase_) /\ q > 0
    BY TimingsAre
  <1>2. Rounded(b, phase_) = IF p = 0 THEN 0 ELSE ((f * 10) \div (p * q) + 5) \div 10
    BY <1>1, ZenonT(60) DEF Rounded
  <1>3. SamplePoint(b, phase_) = (((1 + g) * 1000) \div q + 5) \div 10
    BY <1>1, SMT DEF SamplePoint
  <1>4. ((1 + g) * 1000) \div q \in Int
    <2>1. PICK n \in Int : n = (1 + g) * 1000
      OBVIOUS
    <2>2. n \div q \in Int
      BY <1>1
    <2> QED
      BY <2>1, <2>2
  <1>5. \A n \in Int : (n + 5) \div 10 \in Int
    OBVIOUS
  <1>6. ASSUME p # 0 PROVE (f * 10) \div (p * q) \in Int
    <2>1. PICK n \in Int, s \in Int : n = f * 10 /\ s = p * q
      OBVIOUS
    <2>2. s > 0
      BY <1>1, <1>6, <2>1, SMT
    <2>3. n \div s \in Int
      BY <2>2
    <2> QED
      BY <2>1, <2>3
  <1>7. Rounded(b, phase_) \in Int
    <2>1. CASE p = 0
      BY <1>2, <2>1
    <2>2. CASE p # 0
      BY <1>2, <1>5, <1>6, <2>2
    <2> QED
      BY <2>1, <2>2
  <1>8. SamplePoint(b, phase_) \in Int
    BY <1>3, <1>4, <1>5
  <1> QED
    BY <1>7, <1>8

LEMMA CriteriaAlike ==
  ASSUME NEW b \in Rates, NEW d \in Rates, NEW fd \in BOOLEAN, NEW sp \in BOOLEAN
  PROVE  Alike(Criteria(b, fd, sp), Criteria(d, fd, sp))
PROOF
  <1>1. PICK v1 \in Int, v2 \in Int, v3 \in Int, v4 \in Int :
          /\ v1 = Rounded(b, "nom") /\ v2 = SamplePoint(b, "nom")
          /\ v3 = Rounded(b, "data") /\ v4 = SamplePoint(b, "data")
    BY RoundedIs
  <1>2. PICK w1 \in Int, w2 \in Int, w3 \in Int, w4 \in Int :
          /\ w1 = Rounded(d, "nom") /\ w2 = SamplePoint(d, "nom")
          /\ w3 = Rounded(d, "data") /\ w4 = SamplePoint(d, "data")
    BY RoundedIs
  <1> DEFINE Part(on, code, v) == IF on THEN <<<<code, v>>>> ELSE <<>>
  <1>3. PICK both \in BOOLEAN : both <=> fd /\ sp
    OBVIOUS
  <1>4. /\ Criteria(b, fd, sp)
             = <<<<1, v1>>>> \o Part(sp, 3, v2) \o Part(fd, 2, v3) \o Part(both, 4, v4)
        /\ Criteria(d, fd, sp)
             = <<<<1, w1>>>> \o Part(sp, 3, w2) \o Part(fd, 2, w3) \o Part(both, 4, w4)
    <2>1. Part(both, 4, v4) = IF fd /\ sp THEN <<<<4, v4>>>> ELSE <<>>
      BY <1>3, Zenon
    <2>2. Part(both, 4, w4) = IF fd /\ sp THEN <<<<4, w4>>>> ELSE <<>>
      BY <1>3, Zenon
    <2> QED
      BY <1>1, <1>2, <2>1, <2>2, Zenon DEF Criteria
  <1>5. Alike(<<<<1, v1>>>>, <<<<1, w1>>>>)
    BY AlikeOne
  <1>6. Alike(Part(sp, 3, v2), Part(sp, 3, w2))
    BY AlikeParts
  <1>7. Alike(Part(fd, 2, v3), Part(fd, 2, w3))
    BY AlikeParts
  <1>8. Alike(Part(both, 4, v4), Part(both, 4, w4))
    BY AlikeParts
  <1> HIDE DEF Part
  <1>9. Alike(<<<<1, v1>>>> \o Part(sp, 3, v2), <<<<1, w1>>>> \o Part(sp, 3, w2))
    BY <1>5, <1>6, AlikeJoined, Zenon
  <1>10. Alike(<<<<1, v1>>>> \o Part(sp, 3, v2) \o Part(fd, 2, v3),
               <<<<1, w1>>>> \o Part(sp, 3, w2) \o Part(fd, 2, w3))
    BY <1>7, <1>9, AlikeJoined, Zenon
  <1>11. Alike(<<<<1, v1>>>> \o Part(sp, 3, v2) \o Part(fd, 2, v3) \o Part(both, 4, v4),
               <<<<1, w1>>>> \o Part(sp, 3, w2) \o Part(fd, 2, w3) \o Part(both, 4, w4))
    BY <1>8, <1>10, AlikeJoined, Zenon
  <1> QED
    BY <1>4, <1>11, Zenon

LEMMA ComparedIs ==
  ASSUME NEW x, NEW y, NEW fd, NEW sp, Known(x), Known(y)
  PROVE  btr_compare_bitrates(x, y, fd, sp)
           = Decided(Criteria(Settings(x), fd, sp), Criteria(Settings(y), fd, sp))
PROOF
  BY Zenon DEF btr_compare_bitrates, Decided, Differ, First

(* Swapping the sides swaps the sign. *)
LEMMA CompareSwaps ==
  ASSUME NEW x \in Rates, NEW y \in Rates, NEW fd \in BOOLEAN, NEW sp \in BOOLEAN
  PROVE  btr_compare_bitrates(x, y, fd, sp) = -btr_compare_bitrates(y, x, fd, sp)
PROOF
  <1>1. CASE Known(x) /\ Known(y)
    <2>1. PICK c, d : c = Criteria(Settings(x), fd, sp) /\ d = Criteria(Settings(y), fd, sp)
      OBVIOUS
    <2>2. Settings(x) \in Rates /\ Settings(y) \in Rates
      BY <1>1, SettingsAre
    <2>3. Alike(c, d)
      BY <2>1, <2>2, CriteriaAlike
    <2>4. btr_compare_bitrates(x, y, fd, sp) = Decided(c, d)
      BY <1>1, <2>1, ComparedIs
    <2>5. btr_compare_bitrates(y, x, fd, sp) = Decided(d, c)
      BY <1>1, <2>1, ComparedIs
    <2> QED
      BY <2>3, <2>4, <2>5, DecidedSwaps
  <1>2. CASE ~Known(x) /\ ~Known(y)
    <2>1. PICK z \in Int : z = 0
      OBVIOUS
    <2>2. btr_compare_bitrates(x, y, fd, sp) = z /\ btr_compare_bitrates(y, x, fd, sp) = z
      BY <1>2, <2>1, Zenon DEF btr_compare_bitrates, Unknown
    <2>3. z = -z
      <3>1. z + z = 0
        BY <2>1
      <3> QED
        BY <3>1
    <2> QED
      BY <2>2, <2>3, Zenon
  <1>3. CASE ~Known(x) /\ Known(y)
    <2>1. btr_compare_bitrates(x, y, fd, sp) = -8 /\ btr_compare_bitrates(y, x, fd, sp) = 8
      BY <1>3, Zenon DEF btr_compare_bitrates, Unknown
    <2> QED
      BY <2>1
  <1>4. CASE Known(x) /\ ~Known(y)
    <2>1. btr_compare_bitrates(x, y, fd, sp) = 8 /\ btr_compare_bitrates(y, x, fd, sp) = -8
      BY <1>4, Zenon DEF btr_compare_bitrates, Unknown
    <2>2. PICK n \in Int, z \in Int : n = 8 /\ z = -8 /\ n + z = 0
      OBVIOUS
    <2>3. n = -z
      <3>1. n + z = 0
        BY <2>2
      <3> QED
        BY <3>1
    <2>4. btr_compare_bitrates(x, y, fd, sp) = n /\ btr_compare_bitrates(y, x, fd, sp) = z
      BY <2>1, <2>2
    <2> QED
      BY <2>3, <2>4, Zenon
  <1> QED
    BY <1>1, <1>2, <1>3, <1>4

(* Rounding does not turn the order of two speeds around. *)
LEMMA QuotientIs ==
  ASSUME NEW a \in Int, NEW s \in Int, s > 0
  PROVE  /\ a \div s \in Int /\ (a \div s) * s <= a /\ a < (a \div s + 1) * s
PROOF
  <1>1. a = s * (a \div s) + (a % s) /\ a % s \in 0 .. s - 1 /\ a \div s \in Int
    OBVIOUS
  <1>2. PICK q \in Int, r \in Int : q = a \div s /\ r = a % s
    BY <1>1
  <1>3. a = s * q + r /\ 0 <= r /\ r < s
    BY <1>1, <1>2
  <1>4. q * s = s * q /\ (q + 1) * s = s * q + s
    BY SMT
  <1> QED
    BY <1>1, <1>2, <1>3, <1>4

LEMMA ProductLess ==
  ASSUME NEW a \in Int, NEW b \in Int, NEW c \in Int, c > 0
  PROVE  /\ a < b => a * c < b * c
         /\ a <= b => a * c <= b * c
         /\ a * c < b * c => a < b
PROOF
  BY SMT

LEMMA RoundingOrders ==
  ASSUME NEW a \in Int, NEW b \in Int, NEW s \in Int, NEW t \in Int, s > 0, t > 0,
         ((a * 10) \div s + 5) \div 10 < ((b * 10) \div t + 5) \div 10
  PROVE  a * t < b * s
PROOF
  <1>1. PICK x \in Int, y \in Int : x = a * 10 /\ y = b * 10
    OBVIOUS
  <1>2. PICK q \in Int, p \in Int : q = x \div s /\ p = y \div t
    OBVIOUS
  <1>3. (q + 5) \div 10 < (p + 5) \div 10
    BY <1>1, <1>2
  <1>4. q + 1 <= p
    BY <1>3
  <1>5. x < (q + 1) * s
    BY <1>2, QuotientIs
  <1>6. p * t <= y
    BY <1>2, QuotientIs
  <1>7. (q + 1) * s <= p * s
    BY <1>4, ProductLess
  <1>8. x < p * s
    <2>1. PICK u \in Int, v \in Int : u = (q + 1) * s /\ v = p * s
      OBVIOUS
    <2> QED
      BY <1>5, <1>7, <2>1
  <1>9. x * t < (p * s) * t
    <2>1. PICK v \in Int : v = p * s
      OBVIOUS
    <2> QED
      BY <1>8, <2>1, ProductLess
  <1>10. (p * t) * s <= y * s
    <2>1. PICK v \in Int : v = p * t
      OBVIOUS
    <2> QED
      BY <1>6, <2>1, ProductLess
  <1>11. (p * s) * t = (p * t) * s
    BY SMT
  <1>12. x * t < y * s
    <2>1. PICK u \in Int, v \in Int, w \in Int :
            u = x * t /\ v = (p * s) * t /\ w = y * s
      OBVIOUS
    <2> QED
      BY <1>9, <1>10, <1>11, <2>1
  <1>13. x * t = (a * t) * 10 /\ y * s = (b * s) * 10
    BY <1>1, SMT
  <1>14. PICK u \in Int, v \in Int : u = a * t /\ v = b * s
    OBVIOUS
  <1>15. u * 10 < v * 10
    BY <1>12, <1>13, <1>14
  <1>16. u < v
    BY <1>15
  <1> QED
    BY <1>14, <1>16

(* In frequencies of whole MHz, so that the products stay small. *)
LEMMA WholeMHz ==
  ASSUME NEW a \in Int, NEW b \in Int, NEW s \in Int, NEW t \in Int,
         a % MHz = 0, b % MHz = 0, a * t < b * s
  PROVE  (a \div MHz) * t < (b \div MHz) * s
PROOF
  <1>1. MHz \in Int /\ MHz > 0
    BY SMT DEF MHz
  <1>2. PICK m \in Int, n \in Int : m = a \div MHz /\ n = b \div MHz
    BY <1>1
  <1>3. a = m * MHz /\ b = n * MHz
    BY <1>2, SMT DEF MHz
  <1>4. PICK z \in Int : z = MHz /\ z > 0
    BY <1>1
  <1>5. a = m * z /\ b = n * z
    BY <1>3, <1>4
  <1>6. (m * t) * z < (n * s) * z
    <2>1. a * t = (m * t) * z
      BY <1>5, SMT
    <2>2. b * s = (n * s) * z
      BY <1>5, SMT
    <2> QED
      BY <2>1, <2>2
  <1>7. PICK u \in Int, v \in Int : u = m * t /\ v = n * s
    OBVIOUS
  <1>8. u < v
    BY <1>4, <1>6, <1>7, ProductLess
  <1> QED
    BY <1>2, <1>7, <1>8

(* Only the nominal speed is compared. *)
LEMMA OneCriterion ==
  ASSUME NEW x \in Rates, NEW v \in Int, v = Rounded(x, "nom"),
         NEW no \in BOOLEAN, ~no, NEW c, c = Criteria(x, no, no)
  PROVE  DOMAIN c = {1} /\ c[1] = <<1, v>>
PROOF
  <1>1. PICK pair : pair = <<1, v>>
    OBVIOUS
  <1>2. PICK p, e : p = <<pair>> /\ e = <<>>
    OBVIOUS
  <1>3. c = p \o e \o e \o e
    BY <1>1, <1>2, Zenon DEF Criteria
  <1>4. PICK T : T = {pair}
    OBVIOUS
  <1>5. p \in Seq(T) /\ Len(p) = 1 /\ p[1] = pair /\ e \in Seq(T) /\ Len(e) = 0
    BY <1>2, <1>4
  <1> DEFINE One(s) == s \in Seq(T) /\ Len(s) = 1 /\ s[1] = pair
  <1>6. ASSUME NEW s, One(s) PROVE One(s \o e)
    <2>1. Appended(T, s \o e, s, e)
      BY <1>5, <1>6, JoinedTwo
    <2>2. PICK t : t = s \o e /\ Appended(T, t, s, e)
      BY <2>1
    <2>3. t \in Seq(T) /\ Len(t) = Len(s) + Len(e) /\ \A i \in 1 .. Len(s) : t[i] = s[i]
      BY <2>2 DEF Appended
    <2>4. Len(s) = 1 /\ Len(e) = 0 /\ s[1] = pair
      BY <1>5, <1>6
    <2>5. 1 \in 1 .. Len(s)
      BY <2>4
    <2>6. Len(t) = 1 /\ t[1] = pair
      BY <2>3, <2>4, <2>5
    <2> QED
      BY <2>2, <2>3, <2>6
  <1>7. One(p)
    BY <1>5
  <1> HIDE DEF One
  <1>8. One(c)
    BY <1>3, <1>6, <1>7, Zenon
  <1>9. c \in Seq(T) /\ Len(c) = 1 /\ c[1] = pair
    BY <1>8 DEF One
  <1>10. DOMAIN c = 1 .. Len(c)
    BY <1>9
  <1>11. 1 .. 1 = {1}
    OBVIOUS
  <1> QED
    BY <1>1, <1>9, <1>10, <1>11, Zenon

Orders(n, v, w) == (v = w => n = 0) /\ (v < w => n = -1) /\ (w < v => n = 1)

LEMMA DecidedOne ==
  ASSUME NEW v \in Int, NEW w \in Int, NEW c, NEW d, DOMAIN c = {1}, DOMAIN d = {1},
         c[1] = <<1, v>>, d[1] = <<1, w>>
  PROVE  Orders(Decided(c, d), v, w)
PROOF
  <1>1. CASE v = w
    <2>1. Differ(c, d) = {}
      BY <1>1 DEF Differ
    <2>2. Decided(c, d) = 0
      BY <2>1, Zenon DEF Decided
    <2>3. ~(v < w) /\ ~(w < v)
      BY <1>1
    <2> QED
      BY <1>1, <2>2, <2>3 DEF Orders
  <1>2. CASE v # w
    <2>1. PICK differ : differ = Differ(c, d)
      OBVIOUS
    <2>2. <<1, v>> # <<1, w>>
      BY <1>2
    <2>3. differ = {1}
      BY <2>1, <2>2 DEF Differ
    <2>4. First(differ) \in differ
      <3>1. \E k \in differ : \A l \in differ : k <= l
        BY <2>3
      <3> QED
        BY <3>1, Zenon DEF First
    <2>5. First(differ) = 1
      BY <2>3, <2>4
    <2>6. Decided(c, d) = IF c[1][2] < d[1][2] THEN -c[1][1] ELSE c[1][1]
      BY <2>1, <2>3, <2>5, Zenon DEF Decided
    <2>7. c[1][2] = v /\ d[1][2] = w /\ c[1][1] = 1
      OBVIOUS
    <2>8. Decided(c, d) = IF v < w THEN -1 ELSE 1
      BY <2>6, <2>7, Zenon
    <2>9. ~(w < v /\ v < w)
      OBVIOUS
    <2> QED
      BY <1>2, <2>8, <2>9 DEF Orders
  <1> QED
    BY <1>1, <1>2

(* The comparison of the nominal speeds, against the exact ones. *)
LEMMA SpeedsOrdered ==
  ASSUME NEW x \in Rates, NEW y \in Rates, Prescaler(x, "nom") > 0, Prescaler(y, "nom") > 0,
         x.frequency % MHz = 0, y.frequency % MHz = 0,
         NEW no \in BOOLEAN, ~no, NEW n, n = Decided(Criteria(x, no, no), Criteria(y, no, no)),
         NEW s, s = Prescaler(x, "nom") * Quanta(x, "nom"),
         NEW t, t = Prescaler(y, "nom") * Quanta(y, "nom")
  PROVE  Sign(n) \in {0, Sign((x.frequency \div MHz) * t - (y.frequency \div MHz) * s)}
PROOF
  <1>1. PICK a \in Int, b \in Int : a = x.frequency /\ b = y.frequency
    BY DEF Rates
  <1>2. s \in Int /\ s > 0
    <2>1. PICK p \in Nat, q \in Nat : p = Prescaler(x, "nom") /\ q = Quanta(x, "nom") /\ p > 0 /\ q > 0
      BY TimingsAre
    <2>2. s = p * q
      BY <2>1
    <2> QED
      BY <2>1, <2>2, SMT
  <1>3. t \in Int /\ t > 0
    <2>1. PICK p \in Nat, q \in Nat : p = Prescaler(y, "nom") /\ q = Quanta(y, "nom") /\ p > 0 /\ q > 0
      BY TimingsAre
    <2>2. t = p * q
      BY <2>1
    <2> QED
      BY <2>1, <2>2, SMT
  <1>4. PICK v \in Int, w \in Int : v = Rounded(x, "nom") /\ w = Rounded(y, "nom")
    BY RoundedIs
  <1>5. v = ((a * 10) \div s + 5) \div 10
    <2>1. Prescaler(x, "nom") # 0
      BY TimingsAre
    <2> QED
      BY <1>1, <1>4, <2>1, Zenon DEF Rounded
  <1>6. w = ((b * 10) \div t + 5) \div 10
    <2>1. Prescaler(y, "nom") # 0
      BY TimingsAre
    <2> QED
      BY <1>1, <1>4, <2>1, Zenon DEF Rounded
  <1>7. /\ v = w => n = 0
        /\ v < w => n = -1
        /\ w < v => n = 1
    <2>1. PICK c, d : c = Criteria(x, no, no) /\ d = Criteria(y, no, no)
      OBVIOUS
    <2>2. DOMAIN c = {1} /\ c[1] = <<1, v>>
      BY <1>4, <2>1, OneCriterion
    <2>3. DOMAIN d = {1} /\ d[1] = <<1, w>>
      BY <1>4, <2>1, OneCriterion
    <2>4. n = Decided(c, d)
      BY <2>1
    <2>5. Orders(n, v, w)
      BY <2>2, <2>3, <2>4, DecidedOne
    <2> QED
      BY <2>5 DEF Orders
  <1>8. MHz \in Int /\ MHz > 0
    BY SMT DEF MHz
  <1>9. PICK i \in Int, j \in Int : i = a \div MHz /\ j = b \div MHz
    BY <1>8
  <1>10. PICK u \in Int, z \in Int : u = i * t /\ z = j * s
    BY <1>2, <1>3
  <1>11. ASSUME v < w PROVE u < z
    <2>1. a * t < b * s
      BY <1>2, <1>3, <1>5, <1>6, <1>11, RoundingOrders
    <2>2. (a \div MHz) * t < (b \div MHz) * s
      BY <1>1, <1>2, <1>3, <2>1, WholeMHz
    <2> QED
      BY <1>9, <1>10, <2>2
  <1>12. ASSUME w < v PROVE z < u
    <2>1. b * s < a * t
      BY <1>2, <1>3, <1>5, <1>6, <1>12, RoundingOrders
    <2>2. (b \div MHz) * s < (a \div MHz) * t
      BY <1>1, <1>2, <1>3, <2>1, WholeMHz
    <2> QED
      BY <1>9, <1>10, <2>2
  <1>13. (x.frequency \div MHz) * t - (y.frequency \div MHz) * s = u - z
    BY <1>1, <1>9, <1>10, Zenon
  <1>14. /\ \A k \in Int : k < 0 => Sign(k) = -1
         /\ \A k \in Int : k > 0 => Sign(k) = 1
         /\ Sign(0) = 0
    BY DEF Sign
  <1>15. PICK k \in Int : k = u - z
    OBVIOUS
  <1>16. Sign(n) \in {0, Sign(k)}
    <2>1. CASE v = w
      <3>1. Sign(n) = 0
        BY <1>7, <1>14, <2>1, Zenon
      <3> QED
        BY <3>1, Zenon
    <2>2. CASE v < w
      <3>1. n \in Int /\ n < 0 /\ k < 0
        BY <1>7, <1>11, <1>15, <2>2
      <3>2. Sign(n) = Sign(k)
        BY <1>14, <3>1, Zenon
      <3> QED
        BY <3>2, Zenon
    <2>3. CASE w < v
      <3>1. n \in Int /\ n > 0 /\ k > 0
        BY <1>7, <1>12, <1>15, <2>3
      <3>2. Sign(n) = Sign(k)
        BY <1>14, <3>1, Zenon
      <3> QED
        BY <3>2, Zenon
    <2> QED
      BY <2>1, <2>2, <2>3
  <1> QED
    BY <1>13, <1>15, <1>16, Zenon

LEMMA IndexIs ==
  ASSUME NEW i \in Int, NEW b, b = Index(i)
  PROVE  b \in Rates /\ b.frequency = i
PROOF
  <1>1. NoTiming \in [TimingKeys -> 0 .. UINT16_MAX]
    BY LimitIs DEF NoTiming, TimingKeys
  <1>2. b = [frequency |-> i, timing |-> NoTiming]
    BY DEF Index
  <1> QED
    BY <1>1, <1>2 DEF Rates

LEMMA ScanRate == BtrInv => scan.bitrate \in Rates
PROOF
  <1>1. ASSUME ReadSoFar PROVE scan.bitrate \in Rates
    BY <1>1 DEF ReadSoFar, Reads, InRange, ScanType
  <1>2. ASSUME IndexTaken PROVE scan.bitrate \in Rates
    <2>1. PICK i \in -Entries .. 0 : scan = [Blank EXCEPT !.bitrate = Index(i)]
      BY <1>2 DEF IndexTaken
    <2>2. scan.bitrate = Index(i) /\ i \in Int
      BY <2>1 DEF Blank, Entries
    <2> QED
      BY <2>2, IndexIs
  <1> QED
    BY <1>1, <1>2 DEF BtrInv

LEMMA ComparisonOrders == BtrInv => CompareOrders
PROOF
  <1> SUFFICES ASSUME BtrInv PROVE CompareOrders
    OBVIOUS
  <1> DEFINE Slots(x) == Prescaler(x, "nom") * Quanta(x, "nom")
             Exact(x, y) == Sign((x.frequency \div MHz) * Slots(y)
                                   - (y.frequency \div MHz) * Slots(x))
  <1>1. PICK b : b = scan.bitrate
    OBVIOUS
  <1>2. b \in Rates
    BY <1>1, ScanRate
  <1>3. ASSUME NEW i \in -Entries .. 0, NEW fd \in BOOLEAN, NEW sp \in BOOLEAN
        PROVE  btr_compare_bitrates(b, Index(i), fd, sp) = -btr_compare_bitrates(Index(i), b, fd, sp)
    <2>1. i \in Int
      BY DEF Entries
    <2>2. Index(i) \in Rates
      BY <2>1, IndexIs
    <2> QED
      BY <1>2, <2>2, CompareSwaps
  <1>4. ASSUME NEW i \in -Entries .. 0, Known(b), HasIndex(i), Prescaler(Settings(b), "nom") > 0,
               Settings(b).frequency % MHz = 0
        PROVE  Sign(btr_compare_bitrates(b, Index(i), FALSE, FALSE))
                 \in {0, Exact(Settings(b), btr_index2bitrate(i))}
    <2>1. i \in Int /\ i <= 0
      BY DEF Entries
    <2>2. PICK x, y : x = Settings(b) /\ y = btr_index2bitrate(i)
      OBVIOUS
    <2>3. x \in Rates /\ Prescaler(x, "nom") > 0 /\ x.frequency % MHz = 0
      BY <1>2, <1>4, <2>2, SettingsAre
    <2>4. y \in Rates /\ y.frequency = FREQ_SJA1000 /\ y.timing["nom_brp"] > 0
      BY <1>4, <2>1, <2>2, IndexRate
    <2>5. Prescaler(y, "nom") > 0
      BY <2>4 DEF Prescaler
    <2>6. y.frequency % MHz = 0
      <3>1. FREQ_SJA1000 % MHz = 0
        BY SMT DEF FREQ_SJA1000, MHz
      <3> QED
        BY <2>4, <3>1
    <2>7. PICK j : j = Index(i)
      OBVIOUS
    <2>8. j.frequency = i
      BY <2>1, <2>7, IndexIs
    <2>9. Known(j) /\ Settings(j) = y
      BY <1>4, <2>1, <2>2, <2>8 DEF Known, Settings
    <2>10. PICK no \in BOOLEAN : ~no
      OBVIOUS
    <2>11. PICK n : n = Decided(Criteria(x, no, no), Criteria(y, no, no))
      OBVIOUS
    <2>12. PICK s, t : s = Slots(x) /\ t = Slots(y)
      OBVIOUS
    <2>13. Sign(n) \in {0, Sign((x.frequency \div MHz) * t - (y.frequency \div MHz) * s)}
      BY <2>3, <2>4, <2>5, <2>6, <2>10, <2>11, <2>12, SpeedsOrdered
    <2>14. btr_compare_bitrates(b, j, no, no) = n
      BY <1>4, <2>2, <2>9, <2>11, ComparedIs
    <2>15. Exact(x, y) = Sign((x.frequency \div MHz) * t - (y.frequency \div MHz) * s)
      BY <2>12
    <2>16. no = FALSE
      BY <2>10
    <2> HIDE DEF Exact, Slots
    <2>17. Sign(btr_compare_bitrates(b, j, no, no)) \in {0, Exact(x, y)}
      BY <2>13, <2>14, <2>15, Zenon
    <2>18. Sign(btr_compare_bitrates(b, j, FALSE, FALSE)) \in {0, Exact(x, y)}
      BY <2>16, <2>17, Zenon
    <2> QED
      BY <2>2, <2>7, <2>18, Zenon
  <1> QED
    BY <1>1, <1>3, <1>4, ZenonT(90) DEF CompareOrders

(* CompareOrders, for every set of numbers: the comparison is an order, and *)
(* never contradicts the exact speeds.                                      *)
THEOREM ComparisonIsAnOrder == BtrSpec => []CompareOrders
PROOF
  <1>1. BtrInv => CompareOrders
    BY ComparisonOrders
  <1> QED
    BY <1>1, BtrInvInit, BtrInvNext, PTL DEF BtrSpec
-------------------------------------------------------------------------------
(***************************************************************************)
(* Formatted messages. First the numbers of digits, which a recursion      *)
(* gives whose argument is divided by the base.                            *)
(***************************************************************************)
Bases == {8, 10, 16}

LEMMA Divided ==
  ASSUME NEW base \in Bases, NEW k \in Nat
  PROVE  k \div base \in Nat /\ (k >= base => k \div base \in 0 .. k - 1)
PROOF
  <1>1. CASE base = 8
    BY <1>1, SMT
  <1>2. CASE base = 10
    BY <1>2, SMT
  <1>3. CASE base = 16
    BY <1>3, SMT
  <1> QED
    BY <1>1, <1>2, <1>3 DEF Bases

(* A function that counts the digits of the numbers up to n. *)
DigitsOf(f, base, n) ==
  \A k \in 0 .. n : f[k] = IF k < base THEN 1 ELSE 1 + f[k \div base]

LEMMA DigitsExist ==
  ASSUME NEW base \in Bases, NEW n \in Nat
  PROVE  \E f : DigitsOf(f, base, n)
PROOF
  <1> DEFINE S == {k \in Nat : \E f : DigitsOf(f, base, k)}
  <1>0. base \in Nat /\ base > 0
    BY DEF Bases
  <1>1. 0 \in S
    <2>1. DigitsOf([i \in {0} |-> 1], base, 0)
      BY <1>0 DEF DigitsOf
    <2> QED
      BY <2>1
  <1>2. ASSUME NEW k \in Nat, k \in S PROVE k + 1 \in S
    <2>1. PICK f : DigitsOf(f, base, k)
      BY <1>2
    <2> DEFINE last == IF k + 1 < base THEN 1 ELSE 1 + f[(k + 1) \div base]
               g == [i \in 0 .. k + 1 |-> IF i = k + 1 THEN last ELSE f[i]]
    <2>2. ASSUME NEW i \in 0 .. k + 1
          PROVE  g[i] = IF i < base THEN 1 ELSE 1 + g[i \div base]
      <3>1. i >= base => i \div base \in 0 .. i - 1
        BY Divided
      <3>2. i >= base => i \div base \in 0 .. k + 1 /\ i \div base # k + 1
        BY <3>1
      <3>3. i >= base => g[i \div base] = f[i \div base]
        BY <3>2
      <3>4. CASE i = k + 1
        BY <1>0, <3>3, <3>4
      <3>5. CASE i # k + 1
        <4>1. i \in 0 .. k /\ g[i] = f[i]
          BY <3>5
        <4> QED
          BY <1>0, <2>1, <3>3, <4>1 DEF DigitsOf
      <3> QED
        BY <3>4, <3>5
    <2> HIDE DEF g
    <2>3. DigitsOf(g, base, k + 1)
      BY <2>2 DEF DigitsOf
    <2> QED
      BY <2>3
  <1> HIDE DEF S
  <1>3. n \in S
    BY <1>1, <1>2, Induction
  <1> QED
    BY <1>3 DEF S

(* Two of them agree. *)
LEMMA DigitsAgree ==
  ASSUME NEW base \in Bases, NEW n \in Nat, NEW f, NEW g,
         DigitsOf(f, base, n), DigitsOf(g, base, n)
  PROVE  \A k \in 0 .. n : f[k] = g[k]
PROOF
  <1> DEFINE S == {k \in Nat : \A i \in 0 .. k : i <= n => f[i] = g[i]}
  <1>0. base \in Nat /\ base > 0
    BY DEF Bases
  <1>1. 0 \in S
    <2>1. f[0] = 1 /\ g[0] = 1
      BY <1>0 DEF DigitsOf
    <2> QED
      BY <2>1
  <1>2. ASSUME NEW k \in Nat, k \in S PROVE k + 1 \in S
    <2>1. ASSUME k + 1 <= n PROVE f[k + 1] = g[k + 1]
      <3>1. k + 1 \in 0 .. n
        BY <2>1
      <3>2. CASE k + 1 < base
        BY <1>0, <3>1, <3>2 DEF DigitsOf
      <3>3. CASE ~(k + 1 < base)
        <4>1. (k + 1) \div base \in 0 .. k
          BY <1>0, <3>3, Divided
        <4>2. f[(k + 1) \div base] = g[(k + 1) \div base]
          BY <1>2, <2>1, <4>1
        <4> QED
          BY <3>1, <3>3, <4>2 DEF DigitsOf
      <3> QED
        BY <3>2, <3>3
    <2> QED
      BY <1>2, <2>1
  <1> HIDE DEF S
  <1>3. n \in S
    BY <1>1, <1>2, Induction
  <1> QED
    BY <1>3 DEF S

(* The number of digits of n. *)
LEMMA DigitsAre ==
  ASSUME NEW base \in Bases, NEW n \in Nat
  PROVE  Digits(n, base) = IF n < base THEN 1 ELSE 1 + Digits(n \div base, base)
PROOF
  <1> DEFINE Of(k) == CHOOSE f : DigitsOf(f, base, k)
             g == [k \in Nat |-> Of(k)[k]]
             Is(f) == f = [k \in Nat |-> IF k < base THEN 1 ELSE 1 + f[k \div base]]
  <1>1. \A k \in Nat : DigitsOf(Of(k), base, k)
    BY DigitsExist
  <1>2. ASSUME NEW k \in Nat PROVE g[k] = IF k < base THEN 1 ELSE 1 + g[k \div base]
    <2>0. base \in Nat /\ base > 0
      BY DEF Bases
    <2>1. DigitsOf(Of(k), base, k) /\ k \in 0 .. k
      BY <1>1
    <2>2. CASE k < base
      BY <2>1, <2>2 DEF DigitsOf
    <2>3. CASE ~(k < base)
      <3>1. PICK d : d = k \div base /\ d \in 0 .. k - 1 /\ d \in Nat
        BY <2>0, <2>3, Divided
      <3> HIDE DEF Of
      <3>2. DigitsOf(Of(d), base, d) /\ DigitsOf(Of(k), base, d)
        <4>1. DigitsOf(Of(d), base, d)
          BY <1>1, <3>1
        <4>2. \A j \in 0 .. d : j \in 0 .. k
          BY <3>1
        <4> QED
          BY <2>1, <4>1, <4>2 DEF DigitsOf
      <3>3. Of(k)[d] = Of(d)[d]
        BY <3>1, <3>2, DigitsAgree
      <3>4. Of(k)[k] = 1 + Of(k)[d]
        BY <2>1, <2>3, <3>1 DEF DigitsOf
      <3>5. g[k] = Of(k)[k] /\ g[d] = Of(d)[d]
        BY <3>1
      <3>6. g[k] = 1 + g[d]
        BY <3>3, <3>4, <3>5
      <3> QED
        BY <2>3, <3>1, <3>6
    <2> QED
      BY <2>2, <2>3
  <1> HIDE DEF Of
  <1>3. Is(g)
    BY <1>2
  <1> HIDE DEF g
  <1>4. PICK f : f = (CHOOSE h : Is(h)) /\ Is(f)
    BY <1>3
  <1>5. \A k \in Nat : Digits(k, base) = f[k]
    BY <1>4 DEF Digits
  <1>6. n \div base \in Nat
    BY Divided
  <1> QED
    BY <1>4, <1>5, <1>6

LEMMA DigitsType ==
  ASSUME NEW base \in Bases, NEW n \in Nat
  PROVE  Digits(n, base) \in Nat /\ Digits(n, base) >= 1
PROOF
  <1> DEFINE S == {k \in Nat : \A i \in 0 .. k : Digits(i, base) \in Nat /\ Digits(i, base) >= 1}
  <1>0. base \in Nat /\ base > 0
    BY DEF Bases
  <1>1. 0 \in S
    <2>1. Digits(0, base) = 1
      BY <1>0, DigitsAre
    <2> QED
      BY <2>1
  <1>2. ASSUME NEW k \in Nat, k \in S PROVE k + 1 \in S
    <2>1. Digits(k + 1, base) = IF k + 1 < base THEN 1 ELSE 1 + Digits((k + 1) \div base, base)
      BY DigitsAre
    <2>2. ~(k + 1 < base) => (k + 1) \div base \in 0 .. k
      BY <1>0, Divided
    <2>3. Digits(k + 1, base) \in Nat /\ Digits(k + 1, base) >= 1
      BY <1>0, <1>2, <2>1, <2>2
    <2> QED
      BY <1>2, <2>3
  <1> HIDE DEF S
  <1>3. n \in S
    BY <1>1, <1>2, Induction
  <1> QED
    BY <1>3 DEF S

(* The lengths of data, which have one or two digits, or an octal hundred. *)
LEMMA LengthIs ==
  ASSUME NEW dlc \in 0 .. 15
  PROVE  /\ DLC2LEN(dlc) \in 0 .. 64 /\ (dlc <= 8 => DLC2LEN(dlc) = dlc)
         /\ dlc > 0 => DLC2LEN(dlc) > 0
PROOF
  BY DEF DLC2LEN

LEMMA LengthDigits ==
  ASSUME NEW n \in 0 .. 64
  PROVE  /\ Digits(n, 10) = IF n < 10 THEN 1 ELSE 2
         /\ Digits(n, 8) = IF n < 8 THEN 1 ELSE IF n < 64 THEN 2 ELSE 3
PROOF
  <1>1. 10 \in Bases /\ 8 \in Bases /\ n \in Nat
    BY DEF Bases
  <1>2. n \div 10 \in 0 .. 6 /\ n \div 8 \in 0 .. 8 /\ (n < 64 => n \div 8 < 8) /\ (n = 64 => n \div 8 = 8)
    OBVIOUS
  <1>3. 8 \div 8 = 1
    OBVIOUS
  <1>4. \A k \in 0 .. 7 : Digits(k, 8) = 1 /\ Digits(k, 10) = 1
    BY <1>1, DigitsAre
  <1>5. Digits(8, 8) = 2
    BY <1>1, <1>3, <1>4, DigitsAre
  <1>6. Digits(n, 10) = IF n < 10 THEN 1 ELSE 1 + Digits(n \div 10, 10)
    BY <1>1, DigitsAre
  <1>7. Digits(n, 8) = IF n < 8 THEN 1 ELSE 1 + Digits(n \div 8, 8)
    BY <1>1, DigitsAre
  <1>8. n \div 10 \in 0 .. 7
    BY <1>2
  <1>9. n \div 8 \in 0 .. 7 \/ n = 64
    BY <1>2
  <1>10. Digits(n \div 10, 10) = 1
    BY <1>4, <1>8
  <1>11. CASE n = 64
    BY <1>2, <1>5, <1>6, <1>7, <1>10, <1>11
  <1>12. CASE n # 64
    BY <1>4, <1>6, <1>7, <1>9, <1>10, <1>12
  <1> QED
    BY <1>11, <1>12
-------------------------------------------------------------------------------
(***************************************************************************)
(* Options, times and the widths before the data.                          *)
(***************************************************************************)
OptionsOK == DOMAIN option = DOMAIN Legal /\ \A o \in DOMAIN option : option[o] \in Legal[o]

LEMMA OptionsAre ==
  ASSUME OptionsOK
  PROVE  /\ option.time_stamp \in {"zero", "absolute", "relative"}
         /\ option.time_format \in {"hhmmss", "sec", "djd"}
         /\ option.id \in Numerals /\ option.dlc \in Numerals /\ option.data \in Numerals
         /\ option.wraparound \in Wraparounds /\ option.ascii \in BOOLEAN
         /\ option.rx_prompt \in 0 .. 6 /\ option.tx_prompt \in 0 .. 6
PROOF
  <1>1. /\ {"time_stamp", "time_format", "id", "dlc", "data", "ascii"} \subseteq DOMAIN Legal
        /\ {"wraparound", "rx_prompt", "tx_prompt"} \subseteq DOMAIN Legal
    BY DEF Legal
  <1>2. \A o \in DOMAIN Legal : option[o] \in Legal[o]
    BY DEF OptionsOK
  <1>3. /\ option.time_stamp \in Legal.time_stamp /\ option.time_format \in Legal.time_format
        /\ option.id \in Legal.id /\ option.dlc \in Legal.dlc /\ option.data \in Legal.data
        /\ option.wraparound \in Legal.wraparound /\ option.ascii \in Legal.ascii
        /\ option.rx_prompt \in Legal.rx_prompt /\ option.tx_prompt \in Legal.tx_prompt
    BY <1>1, <1>2
  <1> QED
    BY <1>3 DEF Legal

Stamp == [sec : Nat, part : 0 .. 1]

LEMMA StampsAre == Stamps \subseteq Stamp
PROOF
  BY FormatAssumption DEF Parts, Stamp

(* The time that has passed. *)
LEMMA ElapsedIs ==
  ASSUME NEW stamp \in Stamp, NEW last \in Stamp
  PROVE  /\ elapsed(stamp, last) \in Stamp
         /\ Ticks(elapsed(stamp, last)) = Wider(0, Ticks(stamp) - Ticks(last))
PROOF
  <1>1. /\ stamp.sec \in Nat /\ last.sec \in Nat
        /\ stamp.part \in {0, 1} /\ last.part \in {0, 1}
    BY DEF Stamp
  <1> DEFINE part == stamp.part - last.part
             sec  == stamp.sec - last.sec - (IF part < 0 THEN 1 ELSE 0)
  <1>2. part \in -1 .. 1 /\ sec \in Int
    BY <1>1
  <1>3. CASE sec < 0
    <2>1. elapsed(stamp, last) = [sec |-> 0, part |-> 0]
      BY <1>3 DEF elapsed
    <2>2. stamp.sec * 2 + stamp.part - (last.sec * 2 + last.part) <= 0
      BY <1>1, <1>3
    <2> QED
      BY <1>1, <2>1, <2>2 DEF Ticks, Wider, Parts, Stamp
  <1>4. CASE sec >= 0
    <2>1. elapsed(stamp, last) = [sec |-> sec, part |-> IF part < 0 THEN part + 2 ELSE part]
      BY <1>2, <1>4 DEF elapsed, Parts
    <2>2. sec * 2 + (IF part < 0 THEN part + 2 ELSE part)
            = stamp.sec * 2 + stamp.part - (last.sec * 2 + last.part)
      BY <1>1
    <2>3. (IF part < 0 THEN part + 2 ELSE part) \in 0 .. 1
      BY <1>2
    <2>4. sec * 2 + (IF part < 0 THEN part + 2 ELSE part) >= 0
      BY <1>2, <1>4, <2>3
    <2>5. sec \in Nat
      BY <1>2, <1>4
    <2> HIDE DEF part, sec
    <2> QED
      BY <2>1, <2>2, <2>3, <2>4, <2>5, <1>1 DEF Ticks, Wider, Parts, Stamp
  <1> QED
    BY <1>2, <1>3, <1>4

LastOK == laststamp \in Stamps \cup {NoStamp}

LEMMA ShownIs ==
  ASSUME OptionsOK, LastOK, NEW stamp \in Stamps
  PROVE  Shown(stamp) \in Stamp /\ NewStamp(stamp) \in Stamps \cup {NoStamp}
PROOF
  <1>1. stamp \in Stamp /\ (laststamp # NoStamp => laststamp \in Stamp)
    BY StampsAre DEF LastOK
  <1>2. Reference(stamp) \in Stamp
    BY <1>1 DEF Reference
  <1>3. Shown(stamp) \in Stamp
    BY <1>1, <1>2, ElapsedIs DEF Shown
  <1>4. option.time_stamp \in {"zero", "absolute", "relative"}
    BY OptionsAre
  <1>5. NewStamp(stamp) \in {laststamp, stamp}
    BY <1>4 DEF NewStamp, Reference
  <1> QED
    BY <1>3, <1>5 DEF LastOK

LEMMA TimeWidth ==
  ASSUME OptionsOK, LastOK, NEW stamp \in Stamps
  PROVE  format_time(stamp) \in Nat
PROOF
  <1>1. Shown(stamp).sec \in Nat
    BY ShownIs DEF Stamp
  <1>2. PICK sec \in Nat : sec = Shown(stamp).sec
    BY <1>1
  <1>3. sec \div 86400 \in Nat
    BY <1>2, SMT
  <1>4. Digits(sec, 10) \in Nat /\ Digits(sec \div 86400, 10) \in Nat
    BY <1>2, <1>3, DigitsType DEF Bases
  <1>5. option.time_format \in {"hhmmss", "sec", "djd"}
    BY OptionsAre
  <1>6. PICK d : d = Digits(sec \div 86400, 10)
    OBVIOUS
  <1>7. format_time(stamp) =
          CASE option.time_format = "hhmmss" -> 8 + (IF option.time_usec THEN 7 ELSE 5)
            [] option.time_format = "djd"    -> d + (IF option.time_usec THEN 13 ELSE 10)
            [] option.time_format = "sec"    -> Wider(3, Digits(sec, 10))
                                                + (IF option.time_usec THEN 7 ELSE 5)
    BY <1>2, <1>6, SMT DEF format_time
  <1>8. d \in Nat /\ Wider(3, Digits(sec, 10)) \in Nat
    BY <1>4, <1>6 DEF Wider
  <1>9. CASE option.time_format = "hhmmss"
    <2>1. format_time(stamp) = 8 + (IF option.time_usec THEN 7 ELSE 5)
      BY <1>7, <1>9
    <2> QED
      BY <2>1
  <1>10. CASE option.time_format = "djd"
    <2>1. format_time(stamp) = d + (IF option.time_usec THEN 13 ELSE 10)
      BY <1>7, <1>10
    <2> QED
      BY <1>8, <2>1
  <1>11. CASE option.time_format = "sec"
    <2>1. format_time(stamp)
            = Wider(3, Digits(sec, 10)) + (IF option.time_usec THEN 7 ELSE 5)
      BY <1>7, <1>11
    <2> QED
      BY <1>8, <2>1
  <1> QED
    BY <1>5, <1>9, <1>10, <1>11

LEMMA HeadWidth ==
  ASSUME OptionsOK, LastOK, NEW m \in Messages, NEW sent \in BOOLEAN, NEW stamp \in Stamps,
         NEW digits \in CounterDigits, NEW channel \in Channels
  PROVE  LineHead(m, sent, stamp, digits, channel) \in Nat
PROOF
  <1>1. /\ m.id \in Nat /\ m.dlc \in 0 .. 15 /\ digits \in 1 .. 20 /\ channel \in Nat
    BY FormatAssumption
  <1>2. Digits(m.id, 10) \in Nat /\ Digits(m.id, 8) \in Nat /\ Digits(m.id, 16) \in Nat
    BY <1>1, DigitsType DEF Bases
  <1>3. Digits(channel, 10) \in Nat
    BY <1>1, DigitsType DEF Bases
  <1>4. /\ option.id \in Numerals /\ option.dlc \in Numerals
        /\ option.rx_prompt \in 0 .. 6 /\ option.tx_prompt \in 0 .. 6
    BY OptionsAre
  <1>5. format_id(m) \in Nat
    BY <1>2, <1>4 DEF format_id, Numerals, Wider
  <1>6. format_dlc(m) \in Nat
    <2>1. PICK length \in Nat :
            length = IF option.dlc_format = "dlc" THEN m.dlc ELSE DLC2LEN(m.dlc)
      BY <1>1, LengthIs
    <2>2. /\ Digits(length, 10) \in Nat /\ Digits(length, 8) \in Nat
          /\ Digits(length, 16) \in Nat
      BY <2>1, DigitsType DEF Bases
    <2> QED
      BY <1>4, <2>1, <2>2 DEF format_dlc, Numerals, Wider
  <1>7. Prompt(sent) \in Nat
    BY <1>4 DEF Prompt
  <1>8. format_time(stamp) \in Nat
    BY TimeWidth
  <1>9. Gap(1) \in Nat /\ Gap(2) \in Nat
    BY DEF Gap
  <1> QED
    BY <1>1, <1>3, <1>5, <1>6, <1>7, <1>8, <1>9 DEF LineHead, Wider

(* The width of the length. *)
LEMMA LengthColumn ==
  ASSUME OptionsOK, option.dlc # "hex", NEW m \in Messages, NEW n \in Messages, m.fdf = n.fdf
  PROVE  format_dlc(m) = format_dlc(n)
PROOF
  <1>1. \A k \in Messages : k.dlc \in 0 .. 15 /\ (k.fdf \/ k.dlc <= 8) /\ k.fdf \in BOOLEAN
    BY FormatAssumption
  <1> DEFINE LengthOf(k) == IF option.dlc_format = "dlc" THEN k.dlc ELSE DLC2LEN(k.dlc)
  <1>2. \A k \in Messages : LengthOf(k) \in 0 .. 64 /\ (~k.fdf => LengthOf(k) <= 8)
    BY <1>1, LengthIs
  <1>3. PICK length : length = [k \in Messages |-> LengthOf(k)]
    OBVIOUS
  <1>4. \A k \in Messages : length[k] = LengthOf(k) /\ length[k] \in 0 .. 64 /\ (~k.fdf => length[k] <= 8)
    BY <1>2, <1>3
  <1> HIDE DEF LengthOf
  <1>5. option.dlc \in {"dec", "oct"}
    BY OptionsAre DEF Numerals
  <1> DEFINE brackets == IF option.dlc_brackets = "none" THEN 0 ELSE 2
  <1>6. \A k \in Messages :
          LET blank == \/ option.dlc = "dec" /\ length[k] < 10
                       \/ option.dlc = "oct" /\ length[k] < 64
          IN  format_dlc(k) = brackets
                + (CASE option.dlc = "dec" -> Digits(length[k], 10)
                     [] option.dlc = "oct" -> Wider(2, Digits(length[k], 8))
                     [] option.dlc = "hex" -> Digits(length[k], 16))
                + (IF k.fdf /\ blank THEN 1 ELSE 0)
    BY <1>4, Zenon DEF format_dlc, LengthOf
  <1> HIDE DEF brackets
  <1>7. brackets \in Nat
    BY DEF brackets
  <1>8. \A k \in Messages :
          /\ Digits(length[k], 10) = (IF length[k] < 10 THEN 1 ELSE 2)
          /\ Digits(length[k], 8) = IF length[k] < 8 THEN 1 ELSE IF length[k] < 64 THEN 2 ELSE 3
    BY <1>4, LengthDigits
  <1>9. CASE option.dlc = "dec"
    <2>1. \A k \in Messages : format_dlc(k) = brackets + (IF k.fdf THEN 2 ELSE 1)
      BY <1>1, <1>4, <1>6, <1>7, <1>8, <1>9
    <2> QED
      BY <2>1
  <1>10. CASE option.dlc = "oct"
    <2>1. \A k \in Messages : format_dlc(k) = brackets + (IF k.fdf THEN 3 ELSE 2)
      BY <1>1, <1>4, <1>6, <1>7, <1>8, <1>10 DEF Wider
    <2> QED
      BY <2>1
  <1> QED
    BY <1>5, <1>9, <1>10
-------------------------------------------------------------------------------
(***************************************************************************)
(* The rows of the data.                                                   *)
(***************************************************************************)
LEMMA CharactersAre ==
  ASSUME NEW j \in Nat, NEW n \in Nat
  PROVE  /\ Characters(j, n) \in Seq(Nat) /\ Len(Characters(j, n)) = n
         /\ n = 0 => Characters(j, n) = << >>
         /\ Append(Characters(j, n), j + n) = Characters(j, n + 1)
         /\ n > 0 => /\ Last(Characters(j, n)) = j + n - 1
                     /\ Characters(j, n) # << >>
PROOF
  <1> DEFINE c == Characters(j, n)
  <1>1. c = [k \in 1 .. n |-> j + k - 1]
    BY DEF Characters
  <1>2. \A k \in 1 .. n : j + k - 1 \in Nat
    OBVIOUS
  <1>3. c \in Seq(Nat) /\ Len(c) = n
    BY <1>1, <1>2
  <1>4. n = 0 => c = << >>
    BY <1>3
  <1>5. Append(c, j + n) = Characters(j, n + 1)
    <2>1. Characters(j, n + 1) = [k \in 1 .. n + 1 |-> j + k - 1]
      BY DEF Characters
    <2>2. /\ Append(c, j + n) \in Seq(Nat) /\ Len(Append(c, j + n)) = n + 1
          /\ \A k \in 1 .. n : Append(c, j + n)[k] = c[k]
          /\ Append(c, j + n)[n + 1] = j + n
      BY <1>3, AppendProperties
    <2>3. \A k \in 1 .. n + 1 : Append(c, j + n)[k] = j + k - 1
      BY <1>1, <2>2
    <2>4. Append(c, j + n) = [k \in 1 .. n + 1 |-> Append(c, j + n)[k]]
      BY <2>2
    <2> QED
      BY <2>1, <2>3, <2>4
  <1>6. n > 0 => Last(c) = j + n - 1 /\ c # << >>
    BY <1>1, <1>3 DEF Last
  <1> QED
    BY <1>3, <1>4, <1>5, <1>6

RowType == [indent : Nat, bytes : Seq(Nat), fill : Nat, ascii : Seq(Nat)]

DataState == [rows : Seq(RowType), row : RowType, j : Nat, col : Nat]

(* The first byte of row r. *)
From(rows, r) == IF r = 1 THEN 0 ELSE Last(rows[r - 1].bytes) + 1

(* A whole row, of w bytes. *)
Whole(row, first, w, ascii, indent) ==
  /\ row.bytes = Characters(first, w) /\ row.fill = 0
  /\ ascii => row.ascii = row.bytes
  /\ row.indent = indent \/ (Tabs /\ row.indent = 1)

FullRow(rows, r, w, ascii, indent) ==
  From(rows, r) \in Nat /\ Whole(rows[r], From(rows, r), w, ascii, indent)

FullRows(rows, w, ascii, indent) ==
  \A r \in 1 .. Len(rows) : FullRow(rows, r, w, ascii, indent)

(* What the loop has made of the first i bytes. *)
Placed(s, i, length, w) ==
  /\ s.col <= w /\ s.col <= i /\ (i < length => s.col < w) /\ (0 < i /\ i = length => s.col > 0)
  /\ s.row.bytes = Characters(i - s.col, s.col) /\ s.row.fill = 0
  /\ From(s.rows, Len(s.rows) + 1) = i - s.col

Made(s, i, length, w, ascii, indent) ==
  /\ s \in DataState /\ Placed(s, i, length, w)
  /\ FullRows(s.rows, w, ascii, indent)
  /\ s.row.indent = indent \/ (Tabs /\ s.row.indent = 1)
  /\ ascii => s.j = i - s.col

(* The limit of the characters is that of the bytes, or no row is whole. *)
Wraps(length, w) ==
  option.wraparound \in Nat /\ (option.wraparound = w \/ (option.wraparound = 0 /\ length <= w))

(* A whole row is put to the others. *)
LEMMA RowJoins ==
  ASSUME NEW rows \in Seq(RowType), NEW row \in RowType, NEW w \in Nat, w > 0,
         NEW ascii \in BOOLEAN, NEW indent \in Nat, NEW first \in Nat,
         FullRows(rows, w, ascii, indent), From(rows, Len(rows) + 1) = first,
         Whole(row, first, w, ascii, indent)
  PROVE  /\ Append(rows, row) \in Seq(RowType)
         /\ FullRows(Append(rows, row), w, ascii, indent)
         /\ From(Append(rows, row), Len(Append(rows, row)) + 1) = first + w
PROOF
  <1> DEFINE all == Append(rows, row)
             n == Len(rows)
  <1>1. /\ n \in Nat /\ all \in Seq(RowType) /\ Len(all) = n + 1
        /\ \A r \in 1 .. n : all[r] = rows[r]
        /\ all[n + 1] = row
    BY AppendProperties, LenProperties
  <1> HIDE DEF all, n
  <1>2. \A r \in 1 .. n + 1 : From(all, r) = From(rows, r)
    BY <1>1 DEF From
  <1>3. \A r \in 1 .. n : FullRow(all, r, w, ascii, indent)
    BY <1>1, <1>2 DEF FullRows, FullRow, n
  <1>4. From(rows, n + 1) = first
    BY DEF n
  <1>5. FullRow(all, n + 1, w, ascii, indent)
    BY <1>1, <1>2, <1>4 DEF FullRow
  <1>6. From(all, n + 2) = first + w
    <2>1. From(all, n + 2) = Last(row.bytes) + 1
      BY <1>1 DEF From
    <2>2. Last(row.bytes) = first + w - 1
      BY CharactersAre DEF Whole
    <2> QED
      BY <2>1, <2>2
  <1>7. \A r \in 1 .. n + 1 : FullRow(all, r, w, ascii, indent)
    BY <1>1, <1>3, <1>5
  <1>8. Len(all) + 1 = n + 2
    BY <1>1
  <1> QED
    BY <1>1, <1>6, <1>7, <1>8 DEF all, FullRows

(* One pass of the loop. *)
LEMMA ByteKeeps ==
  ASSUME NEW s, NEW i \in Nat, NEW length \in Nat, NEW w \in Nat, w > 0, NEW ascii \in BOOLEAN,
         NEW indent \in Nat, i < length, Wraps(length, w), Made(s, i, length, w, ascii, indent)
  PROVE  Made(Byte(s, i, length, w, ascii, indent), i + 1, length, w, ascii, indent)
PROOF
  <1> DEFINE row == [s.row EXCEPT !.bytes = Append(@, i)]
             n == IF ascii THEN option.wraparound ELSE 0
             b == Byte(s, i, length, w, ascii, indent)
  <1>1. /\ s.rows \in Seq(RowType) /\ s.row \in RowType /\ s.j \in Nat /\ s.col \in Nat
        /\ s.col < w /\ s.col <= i /\ n \in Nat
        /\ s.row.bytes = Characters(i - s.col, s.col) /\ s.row.fill = 0
    BY DEF Made, Placed, DataState, Wraps
  <1>2. PICK first \in Nat : first = i - s.col
    BY <1>1
  <1>3. From(s.rows, Len(s.rows) + 1) = first
    BY <1>2 DEF Made, Placed
  <1>4. row \in RowType
    <2>1. Append(s.row.bytes, i) \in Seq(Nat)
      BY <1>1, AppendProperties DEF RowType
    <2> QED
      BY <1>1, <2>1 DEF RowType
  <1>5. row.bytes = Characters(first, s.col + 1) /\ row.fill = 0 /\ row.indent = s.row.indent
    <2>1. row.bytes = Append(s.row.bytes, i) /\ row.fill = 0 /\ row.indent = s.row.indent
      BY <1>1 DEF RowType
    <2>2. Append(Characters(first, s.col), first + s.col) = Characters(first, s.col + 1)
      BY <1>1, CharactersAre
    <2>3. first + s.col = i
      BY <1>1, <1>2
    <2> QED
      BY <1>1, <1>2, <2>1, <2>2, <2>3
  <1>6. row.indent = indent \/ (Tabs /\ row.indent = 1)
    BY <1>5 DEF Made
  <1>7. ascii => s.j = first
    BY <1>2 DEF Made
  <1>8. CASE i + 1 < length /\ s.col + 1 = w
    <2> DEFINE full == [row EXCEPT !.ascii = Characters(s.j, n)]
    <2>1. b = [rows |-> Append(s.rows, full), row |-> Row(IF Tabs THEN 1 ELSE indent),
               j |-> s.j + n, col |-> 0]
      BY <1>8 DEF Byte
    <2>2. ascii => n = w
      BY <1>1, <1>8 DEF Wraps
    <2>3. Characters(s.j, n) \in Seq(Nat)
      BY <1>1, CharactersAre
    <2> HIDE DEF row, n
    <2>4. /\ full \in RowType /\ full.ascii = Characters(s.j, n)
          /\ full.bytes = row.bytes /\ full.fill = row.fill /\ full.indent = row.indent
      BY <1>4, <2>3 DEF RowType
    <2> HIDE DEF full
    <2>5. full.bytes = Characters(first, w) /\ full.fill = 0
      BY <1>5, <1>8, <2>4
    <2>6. ascii => full.ascii = full.bytes
      BY <1>7, <2>2, <2>4, <2>5
    <2>7. full.indent = indent \/ (Tabs /\ full.indent = 1)
      BY <1>6, <2>4
    <2>8. FullRows(s.rows, w, ascii, indent) /\ Whole(full, first, w, ascii, indent)
      BY <2>5, <2>6, <2>7 DEF Made, Whole
    <2> DEFINE all == Append(s.rows, full)
    <2>9. /\ all \in Seq(RowType) /\ FullRows(all, w, ascii, indent)
          /\ From(all, Len(all) + 1) = first + w
      BY <1>1, <1>3, <2>4, <2>8, RowJoins
    <2>10. PICK in \in Nat : in = IF Tabs THEN 1 ELSE indent
      OBVIOUS
    <2>11. b = [rows |-> all, row |-> Row(in), j |-> s.j + n, col |-> 0]
      BY <2>1, <2>10 DEF all
    <2>12. /\ Row(in) \in RowType /\ Row(in).bytes = << >> /\ Row(in).fill = 0
           /\ Row(in).indent = in
      BY <2>10 DEF Row, RowType
    <2>13. b \in DataState
      BY <1>1, <2>9, <2>11, <2>12, SMTT(60) DEF DataState
    <2>14. /\ b.rows = all /\ b.row = Row(in) /\ b.j = s.j + n /\ b.col = 0
      BY <2>11
    <2>15. Characters(i + 1, 0) = << >>
      BY CharactersAre
    <2>16. first + w = i + 1 /\ i + 1 # length
      BY <1>1, <1>2, <1>8
    <2> HIDE DEF b
    <2>17. Placed(b, i + 1, length, w)
      <3>1. i + 1 - b.col = i + 1 /\ b.row.bytes = Characters(i + 1, 0) /\ b.row.fill = 0
        BY <2>12, <2>14, <2>15
      <3>2. From(b.rows, Len(b.rows) + 1) = i + 1
        BY <2>9, <2>14, <2>16
      <3> QED
        BY <1>1, <1>8, <2>14, <3>1, <3>2, SMTT(60) DEF Placed
    <2>18. ascii => b.j = i + 1
      BY <1>7, <2>2, <2>14, <2>16
    <2> QED
      BY <2>9, <2>10, <2>12, <2>13, <2>14, <2>17, <2>18 DEF Made, b
  <1>9. CASE ~(i + 1 < length /\ s.col + 1 = w)
    <2>1. PICK c \in Nat : c = s.col + 1
      BY <1>1
    <2>2. b = [s EXCEPT !.row = row, !.col = c] /\ s \in DataState
      BY <1>9, <2>1 DEF Byte, Made
    <2> HIDE DEF row, b
    <2>3. /\ b \in DataState /\ b.rows = s.rows /\ b.row = row /\ b.j = s.j /\ b.col = s.col + 1
      BY <1>4, <2>1, <2>2, Zenon DEF DataState
    <2>4. PICK k \in Nat : k = i + 1
      OBVIOUS
    <2>5. k - b.col = first
      BY <1>1, <1>2, <2>3, <2>4
    <2>6. Placed(b, k, length, w)
      <3>1. b.col <= w /\ b.col <= k /\ b.col > 0 /\ (k < length => b.col < w)
        BY <1>1, <1>9, <2>3, <2>4
      <3>2. b.row.bytes = Characters(k - b.col, b.col) /\ b.row.fill = 0
        BY <1>5, <2>3, <2>5
      <3>3. From(b.rows, Len(b.rows) + 1) = k - b.col
        BY <1>3, <2>3, <2>5
      <3> QED
        BY <3>1, <3>2, <3>3 DEF Placed
    <2>7. FullRows(b.rows, w, ascii, indent)
      BY <2>3 DEF Made
    <2>8. (b.row.indent = indent \/ (Tabs /\ b.row.indent = 1)) /\ (ascii => b.j = k - b.col)
      BY <1>6, <1>7, <2>3, <2>5
    <2>9. Made(b, k, length, w, ascii, indent)
      BY <2>3, <2>6, <2>7, <2>8 DEF Made
    <2> QED
      BY <2>4, <2>9 DEF b
  <1> QED
    BY <1>8, <1>9

(* The loop of format_ascii has the bytes of the same rows. *)
AsciiState == [rows : Seq(Seq(Nat)), row : Seq(Nat), col : Nat]

BytesOf(rows) == [r \in 1 .. Len(rows) |-> rows[r].bytes]

Alongside(t, s) ==
  t \in AsciiState /\ t.col = s.col /\ t.row = s.row.bytes /\ t.rows = BytesOf(s.rows)

LEMMA BytesOfJoined ==
  ASSUME NEW rows \in Seq(RowType), NEW row \in RowType
  PROVE  /\ BytesOf(rows) \in Seq(Seq(Nat))
         /\ BytesOf(Append(rows, row)) = Append(BytesOf(rows), row.bytes)
PROOF
  <1> DEFINE n == Len(rows)
             all == Append(rows, row)
             b == BytesOf(rows)
             c == BytesOf(all)
             d == Append(b, row.bytes)
  <1>1. /\ n \in Nat /\ Len(all) = n + 1 /\ all[n + 1] = row
        /\ \A r \in 1 .. n : all[r] = rows[r] /\ rows[r] \in RowType
    BY AppendProperties, LenProperties, ElementOfSeq
  <1> HIDE DEF all, n
  <1>2. b = [r \in 1 .. n |-> rows[r].bytes] /\ c = [r \in 1 .. n + 1 |-> all[r].bytes]
    BY <1>1 DEF BytesOf, n
  <1>3. row.bytes \in Seq(Nat) /\ \A r \in 1 .. n : rows[r].bytes \in Seq(Nat)
    BY <1>1 DEF RowType
  <1> HIDE DEF b, c
  <1>4. PICK T : T = Seq(Nat)
    OBVIOUS
  <1>5. b \in Seq(T) /\ Len(b) = n
    BY <1>1, <1>2, <1>3, <1>4
  <1>6. /\ d \in Seq(T) /\ Len(d) = n + 1 /\ d[n + 1] = row.bytes
        /\ \A r \in 1 .. n : d[r] = b[r]
    BY <1>3, <1>4, <1>5, AppendProperties
  <1> HIDE DEF d
  <1>7. d = [r \in 1 .. n + 1 |-> d[r]]
    BY <1>6
  <1>8. \A r \in 1 .. n + 1 : d[r] = all[r].bytes
    BY <1>1, <1>2, <1>6
  <1>9. c = d
    BY <1>2, <1>7, <1>8
  <1> QED
    BY <1>4, <1>5, <1>9 DEF all, b, c, d

LEMMA AsciiByteKeeps ==
  ASSUME NEW s, NEW t, NEW i \in Nat, NEW length \in Nat, NEW w \in Nat,
         NEW ascii \in BOOLEAN, NEW indent \in Nat, s \in DataState,
         ascii => option.wraparound \in Nat, Alongside(t, s)
  PROVE  Alongside(AsciiByte(t, i, length, w), Byte(s, i, length, w, ascii, indent))
PROOF
  <1> DEFINE row == [s.row EXCEPT !.bytes = Append(@, i)]
             n == IF ascii THEN option.wraparound ELSE 0
             b == Byte(s, i, length, w, ascii, indent)
             a == AsciiByte(t, i, length, w)
  <1>1. /\ s.rows \in Seq(RowType) /\ s.row \in RowType /\ s.col \in Nat /\ s.j \in Nat
        /\ n \in Nat
    BY DEF DataState
  <1>2. /\ t \in AsciiState /\ t.col = s.col /\ t.row = s.row.bytes
        /\ t.rows = BytesOf(s.rows)
    BY DEF Alongside
  <1>3. PICK bytes \in Seq(Nat) : bytes = Append(s.row.bytes, i)
    BY <1>1, AppendProperties DEF RowType
  <1>4. row \in RowType /\ row.bytes = bytes
    BY <1>1, <1>3 DEF RowType
  <1>5. CASE i + 1 < length /\ s.col + 1 = w
    <2> DEFINE full == [row EXCEPT !.ascii = Characters(s.j, n)]
    <2>1. Characters(s.j, n) \in Seq(Nat)
      BY <1>1, CharactersAre
    <2>2. b.rows = Append(s.rows, full) /\ b.row.bytes = << >> /\ b.col = 0
      BY <1>5 DEF Byte, Row
    <2> HIDE DEF row, n
    <2>3. full \in RowType /\ full.bytes = bytes
      BY <1>4, <2>1 DEF RowType
    <2> HIDE DEF full
    <2>4. a = [rows |-> Append(t.rows, bytes), row |-> << >>, col |-> 0]
      BY <1>2, <1>3, <1>5 DEF AsciiByte
    <2>5. BytesOf(Append(s.rows, full)) = Append(t.rows, bytes)
      BY <1>1, <1>2, <2>3, BytesOfJoined
    <2>6. Append(t.rows, bytes) \in Seq(Seq(Nat))
      BY <1>2, AppendProperties DEF AsciiState
    <2>7. a \in AsciiState /\ a.rows = Append(t.rows, bytes) /\ a.row = << >> /\ a.col = 0
      BY <2>4, <2>6 DEF AsciiState
    <2> HIDE DEF a, b
    <2>8. Alongside(a, b)
      BY <2>2, <2>5, <2>7 DEF Alongside
    <2> QED
      BY <2>8 DEF a, b
  <1>6. CASE ~(i + 1 < length /\ s.col + 1 = w)
    <2>1. PICK c \in Nat : c = s.col + 1
      BY <1>1
    <2>2. b = [s EXCEPT !.row = row, !.col = c]
      BY <1>6, <2>1 DEF Byte
    <2>3. a = [t EXCEPT !.row = bytes, !.col = c]
      BY <1>2, <1>3, <1>6, <2>1 DEF AsciiByte
    <2> HIDE DEF row, b, a
    <2>4. b.rows = s.rows /\ b.row = row /\ b.col = c
      BY <2>2, Zenon DEF DataState
    <2>5. a \in AsciiState /\ a.rows = t.rows /\ a.row = bytes /\ a.col = c
      BY <1>2, <2>1, <2>3, Zenon DEF AsciiState
    <2>6. Alongside(a, b)
      BY <1>2, <1>4, <2>4, <2>5 DEF Alongside
    <2> QED
      BY <2>6 DEF a, b
  <1> QED
    BY <1>5, <1>6

(* The two loops, as functions of the number of bytes. *)
DataLoop(f, n, length, w, ascii, indent) ==
  /\ f[0] = [rows |-> << >>, row |-> Row(indent), j |-> 0, col |-> 0]
  /\ \A i \in 1 .. n : f[i] = Byte(f[i - 1], i - 1, length, w, ascii, indent)

AsciiLoop(f, n, length, w) ==
  /\ f[0] = [rows |-> << >>, row |-> << >>, col |-> 0]
  /\ \A i \in 1 .. n : f[i] = AsciiByte(f[i - 1], i - 1, length, w)

LEMMA DataLoopExists ==
  ASSUME NEW n \in Nat, NEW length, NEW w, NEW ascii, NEW indent
  PROVE  \E f : DataLoop(f, n, length, w, ascii, indent)
PROOF
  <1> DEFINE start == [rows |-> << >>, row |-> Row(indent), j |-> 0, col |-> 0]
             S == {k \in Nat : \E f : DataLoop(f, k, length, w, ascii, indent)}
  <1>1. 0 \in S
    <2>1. DataLoop([i \in {0} |-> start], 0, length, w, ascii, indent)
      BY DEF DataLoop
    <2> QED
      BY <2>1
  <1>2. ASSUME NEW k \in Nat, k \in S PROVE k + 1 \in S
    <2>1. PICK f : DataLoop(f, k, length, w, ascii, indent)
      BY <1>2
    <2> DEFINE last == Byte(f[k], k, length, w, ascii, indent)
               g == [i \in 0 .. k + 1 |-> IF i = k + 1 THEN last ELSE f[i]]
    <2>2. g[0] = start
      BY <2>1 DEF DataLoop
    <2>3. ASSUME NEW i \in 1 .. k + 1
          PROVE  g[i] = Byte(g[i - 1], i - 1, length, w, ascii, indent)
      <3>1. i - 1 \in 0 .. k + 1 /\ i - 1 # k + 1 /\ g[i - 1] = f[i - 1]
        OBVIOUS
      <3>2. CASE i = k + 1
        BY <3>1, <3>2
      <3>3. CASE i # k + 1
        BY <2>1, <3>1, <3>3 DEF DataLoop
      <3> QED
        BY <3>2, <3>3
    <2> HIDE DEF g
    <2> QED
      BY <2>2, <2>3 DEF DataLoop
  <1> HIDE DEF S
  <1>3. n \in S
    BY <1>1, <1>2, Induction
  <1> QED
    BY <1>3 DEF S

LEMMA AsciiLoopExists ==
  ASSUME NEW n \in Nat, NEW length, NEW w
  PROVE  \E f : AsciiLoop(f, n, length, w)
PROOF
  <1> DEFINE start == [rows |-> << >>, row |-> << >>, col |-> 0]
             S == {k \in Nat : \E f : AsciiLoop(f, k, length, w)}
  <1>1. 0 \in S
    <2>1. AsciiLoop([i \in {0} |-> start], 0, length, w)
      BY DEF AsciiLoop
    <2> QED
      BY <2>1
  <1>2. ASSUME NEW k \in Nat, k \in S PROVE k + 1 \in S
    <2>1. PICK f : AsciiLoop(f, k, length, w)
      BY <1>2
    <2> DEFINE last == AsciiByte(f[k], k, length, w)
               g == [i \in 0 .. k + 1 |-> IF i = k + 1 THEN last ELSE f[i]]
    <2>2. g[0] = start
      BY <2>1 DEF AsciiLoop
    <2>3. ASSUME NEW i \in 1 .. k + 1 PROVE g[i] = AsciiByte(g[i - 1], i - 1, length, w)
      <3>1. i - 1 \in 0 .. k + 1 /\ i - 1 # k + 1 /\ g[i - 1] = f[i - 1]
        OBVIOUS
      <3>2. CASE i = k + 1
        BY <3>1, <3>2
      <3>3. CASE i # k + 1
        BY <2>1, <3>1, <3>3 DEF AsciiLoop
      <3> QED
        BY <3>2, <3>3
    <2> HIDE DEF g
    <2> QED
      BY <2>2, <2>3 DEF AsciiLoop
  <1> HIDE DEF S
  <1>3. n \in S
    BY <1>1, <1>2, Induction
  <1> QED
    BY <1>3 DEF S

LastRow(s, length, w, ascii) ==
  IF ascii THEN [s.row EXCEPT !.fill = w - s.col, !.ascii = Characters(s.j, length - s.j)]
  ELSE s.row

LEMMA FormatDataIs ==
  ASSUME NEW m, NEW ascii, NEW indent, DLC2LEN(m.dlc) \in Nat
  PROVE  \E f : /\ DataLoop(f, DLC2LEN(m.dlc), DLC2LEN(m.dlc), Wraparound(m), ascii, indent)
                /\ format_data(m, ascii, indent)
                     = Append(f[DLC2LEN(m.dlc)].rows,
                              LastRow(f[DLC2LEN(m.dlc)], DLC2LEN(m.dlc), Wraparound(m), ascii))
PROOF
  <1> DEFINE n == DLC2LEN(m.dlc)
             w == Wraparound(m)
             start == [rows |-> << >>, row |-> Row(indent), j |-> 0, col |-> 0]
             Is(f) == f = [i \in 0 .. n |->
                             IF i = 0 THEN start
                             ELSE Byte(f[i - 1], i - 1, n, w, ascii, indent)]
  <1>2. \E f : Is(f)
    <2>1. PICK f : DataLoop(f, n, n, w, ascii, indent)
      BY DataLoopExists
    <2> DEFINE g == [i \in 0 .. n |-> f[i]]
    <2>2. ASSUME NEW i \in 0 .. n
          PROVE  g[i] = IF i = 0 THEN start ELSE Byte(g[i - 1], i - 1, n, w, ascii, indent)
      BY <2>1, <2>2 DEF DataLoop
    <2>3. Is(g)
      BY <2>2
    <2> QED
      BY <2>3
  <1>3. PICK f : f = (CHOOSE h : Is(h)) /\ Is(f)
    BY <1>2
  <1>4. format_data(m, ascii, indent) = Append(f[n].rows, LastRow(f[n], n, w, ascii))
    BY <1>3 DEF format_data, LastRow
  <1>5. f = [i \in 0 .. n |->
               IF i = 0 THEN start ELSE Byte(f[i - 1], i - 1, n, w, ascii, indent)]
    BY <1>3
  <1> HIDE DEF Is, n, w
  <1>6. n \in Nat
    BY DEF n
  <1>7. f[0] = start
    BY <1>5, <1>6
  <1>8. \A i \in 1 .. n : i \in 0 .. n /\ i # 0
    BY <1>6
  <1>9. \A i \in 1 .. n : f[i] = Byte(f[i - 1], i - 1, n, w, ascii, indent)
    BY <1>5, <1>8
  <1>10. DataLoop(f, n, n, w, ascii, indent)
    BY <1>7, <1>9 DEF DataLoop
  <1> QED
    BY <1>4, <1>10 DEF n, w

LEMMA FormatAsciiIs ==
  ASSUME NEW m, DLC2LEN(m.dlc) \in Nat
  PROVE  \E f : /\ AsciiLoop(f, DLC2LEN(m.dlc), DLC2LEN(m.dlc), Wraparound(m))
                /\ format_ascii(m) = Append(f[DLC2LEN(m.dlc)].rows, f[DLC2LEN(m.dlc)].row)
PROOF
  <1> DEFINE n == DLC2LEN(m.dlc)
             w == Wraparound(m)
             start == [rows |-> << >>, row |-> << >>, col |-> 0]
             Is(f) == f = [i \in 0 .. n |->
                             IF i = 0 THEN start ELSE AsciiByte(f[i - 1], i - 1, n, w)]
  <1>2. \E f : Is(f)
    <2>1. PICK f : AsciiLoop(f, n, n, w)
      BY AsciiLoopExists
    <2> DEFINE g == [i \in 0 .. n |-> f[i]]
    <2>2. ASSUME NEW i \in 0 .. n
          PROVE  g[i] = IF i = 0 THEN start ELSE AsciiByte(g[i - 1], i - 1, n, w)
      BY <2>1, <2>2 DEF AsciiLoop
    <2>3. Is(g)
      BY <2>2
    <2> QED
      BY <2>3
  <1>3. PICK f : f = (CHOOSE h : Is(h)) /\ Is(f)
    BY <1>2
  <1>4. format_ascii(m) = Append(f[n].rows, f[n].row)
    BY <1>3 DEF format_ascii
  <1>5. f = [i \in 0 .. n |-> IF i = 0 THEN start ELSE AsciiByte(f[i - 1], i - 1, n, w)]
    BY <1>3
  <1> HIDE DEF Is, n, w
  <1>6. n \in Nat
    BY DEF n
  <1>7. f[0] = start
    BY <1>5, <1>6
  <1>8. \A i \in 1 .. n : i \in 0 .. n /\ i # 0
    BY <1>6
  <1>9. \A i \in 1 .. n : f[i] = AsciiByte(f[i - 1], i - 1, n, w)
    BY <1>5, <1>8
  <1>10. AsciiLoop(f, n, n, w)
    BY <1>7, <1>9 DEF AsciiLoop
  <1> QED
    BY <1>4, <1>10 DEF n, w

(* The loops run alongside to the end of the data. *)
LEMMA LoopsRun ==
  ASSUME NEW length \in Nat, length > 0, NEW w \in Nat, w > 0, NEW ascii \in BOOLEAN,
         NEW indent \in Nat, Wraps(length, w),
         NEW f, DataLoop(f, length, length, w, ascii, indent),
         NEW g, AsciiLoop(g, length, length, w)
  PROVE  Made(f[length], length, length, w, ascii, indent) /\ Alongside(g[length], f[length])
PROOF
  <1> DEFINE S == {k \in Nat : k <= length => /\ Made(f[k], k, length, w, ascii, indent)
                                              /\ Alongside(g[k], f[k])}
  <1>1. 0 \in S
    <2>1. /\ f[0] = [rows |-> << >>, row |-> Row(indent), j |-> 0, col |-> 0]
          /\ g[0] = [rows |-> << >>, row |-> << >>, col |-> 0]
      BY DEF DataLoop, AsciiLoop
    <2>2. /\ Row(indent) \in RowType /\ Row(indent).bytes = << >> /\ Row(indent).fill = 0
          /\ Row(indent).indent = indent
      BY DEF Row, RowType
    <2>3. f[0] \in DataState
      BY <2>1, <2>2 DEF DataState
    <2>4. f[0].rows = << >> /\ f[0].row = Row(indent) /\ f[0].j = 0 /\ f[0].col = 0
      BY <2>1
    <2>5. Characters(0, 0) = << >>
      BY CharactersAre
    <2>6. Len(f[0].rows) = 0 /\ From(f[0].rows, Len(f[0].rows) + 1) = 0
      BY <2>4 DEF From
    <2>7. 0 - f[0].col = 0
      BY <2>4
    <2>8. Placed(f[0], 0, length, w)
      BY <2>2, <2>4, <2>5, <2>6, <2>7 DEF Placed
    <2>9. FullRows(f[0].rows, w, ascii, indent)
      BY <2>6 DEF FullRows
    <2>10. Made(f[0], 0, length, w, ascii, indent)
      BY <2>2, <2>3, <2>4, <2>7, <2>8, <2>9 DEF Made
    <2>11. BytesOf(f[0].rows) = << >>
      BY <2>6 DEF BytesOf
    <2>12. g[0] \in AsciiState /\ g[0].rows = << >> /\ g[0].row = << >> /\ g[0].col = 0
      BY <2>1 DEF AsciiState
    <2>13. Alongside(g[0], f[0])
      BY <2>2, <2>4, <2>11, <2>12 DEF Alongside
    <2> QED
      BY <2>10, <2>13
  <1>2. ASSUME NEW k \in Nat, k \in S PROVE k + 1 \in S
    <2> SUFFICES ASSUME k + 1 <= length
                 PROVE  /\ Made(f[k + 1], k + 1, length, w, ascii, indent)
                        /\ Alongside(g[k + 1], f[k + 1])
      OBVIOUS
    <2>1. k < length /\ k + 1 \in 1 .. length /\ k + 1 - 1 = k
      OBVIOUS
    <2>2. Made(f[k], k, length, w, ascii, indent) /\ Alongside(g[k], f[k])
      BY <1>2, <2>1
    <2>3. /\ f[k + 1] = Byte(f[k], k, length, w, ascii, indent)
          /\ g[k + 1] = AsciiByte(g[k], k, length, w)
      BY <2>1 DEF DataLoop, AsciiLoop
    <2>4. Made(f[k + 1], k + 1, length, w, ascii, indent)
      BY <2>1, <2>2, <2>3, ByteKeeps
    <2>5. f[k] \in DataState /\ option.wraparound \in Nat
      BY <2>2 DEF Made, Wraps
    <2>6. Alongside(g[k + 1], f[k + 1])
      BY <2>2, <2>3, <2>5, AsciiByteKeeps
    <2> QED
      BY <2>4, <2>6
  <1> HIDE DEF S
  <1>3. length \in S
    BY <1>1, <1>2, Induction
  <1> QED
    BY <1>3 DEF S

(* What the rows of a message tell. *)
RowTells(rows, r, length, w, ascii, indent) ==
  LET row == rows[r]
  IN  /\ Len(row.bytes) > 0 /\ row.bytes = Characters(From(rows, r), Len(row.bytes))
      /\ Len(row.bytes) <= w /\ (r # Len(rows) => Len(row.bytes) = w)
      /\ r = Len(rows) => Last(row.bytes) = length - 1
      /\ ascii => row.ascii = row.bytes /\ Len(row.bytes) + row.fill = w
      /\ row.indent = indent \/ (Tabs /\ row.indent = 1)

RowsTell(m, rows, ascii, indent) ==
  /\ rows \in Seq(RowType) /\ rows # << >> /\ format_ascii(m) = BytesOf(rows)
  /\ \A r \in 1 .. Len(rows) : RowTells(rows, r, DLC2LEN(m.dlc), Wraparound(m), ascii, indent)

LEMMA WraparoundIs ==
  ASSUME OptionsOK, NEW m \in Messages
  PROVE  Wraparound(m) \in Nat /\ Wraparound(m) > 0 /\ Wraps(DLC2LEN(m.dlc), Wraparound(m))
PROOF
  <1>1. m.dlc \in 0 .. 15 /\ (m.fdf \/ m.dlc <= 8)
    BY FormatAssumption
  <1>2. DLC2LEN(m.dlc) \in 0 .. 64 /\ (m.dlc <= 8 => DLC2LEN(m.dlc) <= 8)
    BY <1>1, LengthIs
  <1>3. option.wraparound \in Wraparounds
    BY OptionsAre
  <1> QED
    BY <1>1, <1>2, <1>3 DEF Wraparounds, Wraparound, Wraps

LEMMA DataTells ==
  ASSUME OptionsOK, NEW m \in Messages, m.dlc > 0, NEW ascii \in BOOLEAN, NEW indent \in Nat
  PROVE  RowsTell(m, format_data(m, ascii, indent), ascii, indent)
PROOF
  <1> DEFINE n == DLC2LEN(m.dlc)
             w == Wraparound(m)
  <1>1. m.dlc \in 0 .. 15
    BY FormatAssumption
  <1>2. n \in Nat /\ n > 0
    BY <1>1, LengthIs
  <1>3. w \in Nat /\ w > 0 /\ Wraps(n, w)
    BY WraparoundIs
  <1>4. PICK f : /\ DataLoop(f, n, n, w, ascii, indent)
                 /\ format_data(m, ascii, indent) = Append(f[n].rows, LastRow(f[n], n, w, ascii))
    BY <1>2, FormatDataIs
  <1>5. PICK g : AsciiLoop(g, n, n, w) /\ format_ascii(m) = Append(g[n].rows, g[n].row)
    BY <1>2, FormatAsciiIs
  <1> HIDE DEF n, w
  <1>6. PICK s : s = f[n]
    OBVIOUS
  <1>7. Made(s, n, n, w, ascii, indent) /\ Alongside(g[n], s)
    BY <1>2, <1>3, <1>4, <1>5, <1>6, LoopsRun
  <1> DEFINE row == LastRow(s, n, w, ascii)
             all == Append(s.rows, row)
             k == Len(s.rows)
  <1>8. /\ s.rows \in Seq(RowType) /\ s.row \in RowType /\ s.j \in Nat /\ s.col \in Nat
        /\ 0 < s.col /\ s.col <= w /\ s.col <= n
        /\ s.row.bytes = Characters(n - s.col, s.col)
        /\ From(s.rows, k + 1) = n - s.col
        /\ FullRows(s.rows, w, ascii, indent)
        /\ (s.row.indent = indent \/ (Tabs /\ s.row.indent = 1)) /\ (ascii => s.j = n - s.col)
    BY <1>2, <1>7 DEF Made, Placed, DataState
  <1>9. PICK first \in Nat : first = n - s.col
    BY <1>2, <1>8
  <1>10. /\ row \in RowType /\ row.bytes = s.row.bytes /\ row.indent = s.row.indent
         /\ ascii => row.fill = w - s.col /\ row.ascii = Characters(s.j, n - s.j)
    <2>1. CASE ascii
      <3>1. n - s.j = s.col
        BY <1>2, <1>8, <2>1
      <3>2. PICK chars \in Seq(Nat) : chars = Characters(s.j, n - s.j)
        BY <1>8, <3>1, CharactersAre
      <3>3. PICK fill \in Nat : fill = w - s.col
        BY <1>3, <1>8
      <3>4. row = [s.row EXCEPT !.fill = fill, !.ascii = chars]
        BY <2>1, <3>2, <3>3 DEF LastRow
      <3> QED
        BY <1>8, <3>2, <3>3, <3>4 DEF RowType
    <2>2. CASE ~ascii
      BY <1>8, <2>2 DEF LastRow
    <2> QED
      BY <2>1, <2>2
  <1> HIDE DEF row
  <1>11. row.bytes = Characters(first, s.col) /\ Len(row.bytes) = s.col
    <2>1. s.col \in Nat /\ row.bytes = Characters(first, s.col)
      BY <1>8, <1>9, <1>10
    <2>2. Len(Characters(first, s.col)) = s.col
      BY <2>1, CharactersAre
    <2> QED
      BY <2>1, <2>2
  <1>12. /\ k \in Nat /\ all \in Seq(RowType) /\ Len(all) = k + 1 /\ all[k + 1] = row
         /\ \A r \in 1 .. k : all[r] = s.rows[r]
    BY <1>8, <1>10, AppendProperties, LenProperties
  <1> HIDE DEF k
  <1>13. \A r \in 1 .. k + 1 : From(all, r) = From(s.rows, r)
    BY <1>12 DEF From
  <1> HIDE DEF all
  <1>14. ASSUME NEW r \in 1 .. k PROVE RowTells(all, r, n, w, ascii, indent)
    <2>1. From(s.rows, r) \in Nat /\ Whole(s.rows[r], From(s.rows, r), w, ascii, indent)
      BY <1>8 DEF FullRows, FullRow, k
    <2>2. Len(s.rows[r].bytes) = w
      <3>1. PICK j \in Nat : j = From(s.rows, r)
        BY <2>1
      <3>2. Len(Characters(j, w)) = w
        BY <1>3, CharactersAre
      <3> QED
        BY <2>1, <3>1, <3>2 DEF Whole
    <2>3. all[r] = s.rows[r] /\ r # Len(all) /\ From(all, r) = From(s.rows, r)
      BY <1>12, <1>13
    <2> QED
      BY <1>3, <2>1, <2>2, <2>3 DEF RowTells, Whole
  <1>15. RowTells(all, k + 1, n, w, ascii, indent)
    <2>1. Last(row.bytes) = n - 1
      <3>1. Last(Characters(first, s.col)) = first + s.col - 1
        BY <1>8, CharactersAre
      <3> QED
        BY <1>2, <1>8, <1>9, <1>11, <3>1
    <2>2. From(all, k + 1) = first
      BY <1>8, <1>9, <1>12, <1>13 DEF k
    <2>3. ascii => row.ascii = row.bytes /\ Len(row.bytes) + row.fill = w
      BY <1>2, <1>3, <1>8, <1>9, <1>10, <1>11
    <2>4. row.indent = indent \/ (Tabs /\ row.indent = 1)
      BY <1>8, <1>10
    <2>5. all[k + 1] = row
      BY <1>12
    <2> QED
      BY <1>8, <1>11, <1>12, <2>1, <2>2, <2>3, <2>4, <2>5 DEF RowTells
  <1>16. format_ascii(m) = BytesOf(all)
    <2>1. g[n].rows = BytesOf(s.rows) /\ g[n].row = row.bytes
      BY <1>7, <1>10 DEF Alongside
    <2>2. BytesOf(all) = Append(BytesOf(s.rows), row.bytes)
      BY <1>8, <1>10, BytesOfJoined DEF all
    <2> QED
      BY <1>5, <2>1, <2>2
  <1>17. \A r \in 1 .. Len(all) : RowTells(all, r, n, w, ascii, indent)
    BY <1>12, <1>14, <1>15
  <1>18. all # << >> /\ format_data(m, ascii, indent) = all
    <2>1. all # << >>
      BY <1>12
    <2>2. format_data(m, ascii, indent) = all
      BY <1>4, <1>6 DEF row, all
    <2> QED
      BY <2>1, <2>2
  <1> QED
    BY <1>12, <1>16, <1>17, <1>18 DEF RowsTell, n, w

LEMMA SameAscii ==
  ASSUME NEW m, option' = option
  PROVE  format_ascii(m)' = format_ascii(m)
PROOF
  BY DEF format_ascii, Wraparound, AsciiByte, DLC2LEN

LEMMA SameRows ==
  ASSUME NEW m, NEW rows, NEW ascii \in BOOLEAN, NEW indent, option' = option,
         RowsTell(m, rows, ascii, indent)
  PROVE  RowsTell(m, rows, ascii, indent)'
PROOF
  <1>1. format_ascii(m)' = format_ascii(m)
    BY SameAscii
  <1>2. Wraparound(m)' = Wraparound(m) /\ (Tabs' <=> Tabs)
    BY DEF Wraparound, Tabs
  <1>3. \A r : RowTells(rows, r, DLC2LEN(m.dlc), Wraparound(m), ascii, indent)
               => RowTells(rows, r, DLC2LEN(m.dlc), Wraparound(m), ascii, indent)'
    BY <1>2 DEF RowTells
  <1> QED
    BY <1>1, <1>3 DEF RowsTell

(* The width of a line. *)
EndsOf(f, rows, n) ==
  \A r \in 0 .. n : f[r] = IF r = 0 THEN Len(rows) - 1 ELSE f[r - 1] + RowEnd(rows[r])

LEMMA EndsExist ==
  ASSUME NEW rows, NEW n \in Nat
  PROVE  \E f : EndsOf(f, rows, n)
PROOF
  <1> DEFINE S == {k \in Nat : \E f : EndsOf(f, rows, k)}
  <1>1. 0 \in S
    <2>1. EndsOf([r \in {0} |-> Len(rows) - 1], rows, 0)
      BY DEF EndsOf
    <2> QED
      BY <2>1
  <1>2. ASSUME NEW k \in Nat, k \in S PROVE k + 1 \in S
    <2>1. PICK f : EndsOf(f, rows, k)
      BY <1>2
    <2> DEFINE last == f[k] + RowEnd(rows[k + 1])
               g == [r \in 0 .. k + 1 |-> IF r = k + 1 THEN last ELSE f[r]]
    <2>2. ASSUME NEW r \in 0 .. k + 1
          PROVE  g[r] = IF r = 0 THEN Len(rows) - 1 ELSE g[r - 1] + RowEnd(rows[r])
      <3>1. r # 0 => r - 1 \in 0 .. k + 1 /\ r - 1 # k + 1 /\ g[r - 1] = f[r - 1]
        OBVIOUS
      <3>2. CASE r = k + 1
        BY <3>1, <3>2
      <3>3. CASE r # k + 1
        <4>1. r \in 0 .. k /\ g[r] = f[r]
          BY <3>3
        <4>2. f[r] = IF r = 0 THEN Len(rows) - 1 ELSE f[r - 1] + RowEnd(rows[r])
          BY <2>1, <4>1 DEF EndsOf
        <4> QED
          BY <3>1, <4>1, <4>2
      <3> QED
        BY <3>2, <3>3
    <2> HIDE DEF g
    <2>3. EndsOf(g, rows, k + 1)
      BY <2>2 DEF EndsOf
    <2> QED
      BY <2>3
  <1> HIDE DEF S
  <1>3. n \in S
    BY <1>1, <1>2, Induction
  <1> QED
    BY <1>3 DEF S

LEMMA RowEndIs ==
  ASSUME NEW row \in RowType, NEW w \in Nat, NEW indent \in Nat, indent > 0,
         Len(row.bytes) > 0, Len(row.bytes) <= w,
         row.indent = indent \/ (Tabs /\ row.indent = 1),
         option.ascii => row.ascii = row.bytes /\ Len(row.bytes) + row.fill = w
  PROVE  RowEnd(row) \in 0 .. indent + 5 * w + 1
PROOF
  <1>1. PICK k \in Nat : k = Len(row.bytes) /\ k > 0 /\ k <= w
    BY LenProperties DEF RowType
  <1>2. /\ row.indent \in Nat /\ row.indent <= indent /\ row.fill \in Nat /\ Len(row.ascii) \in Nat
        /\ option.ascii => Len(row.ascii) = k /\ k + row.fill = w
    BY <1>1, LenProperties DEF RowType
  <1>3. Gap(2) \in 0 .. 2
    BY DEF Gap
  <1>4. CASE option.data = "hex"
    <2>1. ByteWidth + 1 = 3 /\ FillWidth + 1 = 3
      BY <1>4 DEF ByteWidth, FillWidth
    <2>0. PICK fill \in Nat : fill = row.fill
      BY <1>2
    <2>2. PICK end : end = row.indent + k * 3 - 1
      OBVIOUS
    <2>3. end \in Nat /\ end <= indent + 4 * k - 1
      BY <1>1, <1>2, <2>2
    <2>4. PICK column : column = end + (IF fill > 0 THEN fill * 3 ELSE 0) + Gap(2)
      OBVIOUS
    <2>5. column \in Nat /\ column <= indent + 4 * k + 4 * fill + 1
      BY <1>2, <1>3, <2>3, <2>4
    <2>6. AsciiColumn(row) = column
      BY <1>1, <2>0, <2>1, <2>2, <2>4 DEF AsciiColumn
    <2>7. RowEnd(row) = IF option.ascii THEN column + Len(row.ascii) ELSE end
      BY <1>1, <2>1, <2>2, <2>6 DEF RowEnd
    <2>8. CASE option.ascii
      <3>1. Len(row.ascii) = k /\ k + fill = w
        BY <1>2, <2>0, <2>8
      <3>2. RowEnd(row) = column + k
        BY <2>7, <2>8, <3>1
      <3>3. k + fill = w
        BY <3>1
      <3>4. column + k \in 0 .. indent + 5 * w + 1
        <4>1. column + k <= indent + 4 * k + 4 * fill + 1 + k /\ column + k \in Nat
          BY <2>5
        <4>2. 5 * w = 5 * k + 5 * fill
          BY <3>3
        <4> QED
          BY <4>1, <4>2
      <3> QED
        BY <3>2, <3>4
    <2>9. CASE ~option.ascii
      <3>1. RowEnd(row) = end
        BY <2>7, <2>9
      <3> QED
        BY <1>1, <2>3, <3>1
    <2> QED
      BY <2>8, <2>9
  <1>5. CASE option.data # "hex"
    <2>1. ByteWidth + 1 = 4 /\ FillWidth + 1 = 4
      BY <1>5 DEF ByteWidth, FillWidth
    <2>0. PICK fill \in Nat : fill = row.fill
      BY <1>2
    <2>2. PICK end : end = row.indent + k * 4 - 1
      OBVIOUS
    <2>3. end \in Nat /\ end <= indent + 4 * k - 1
      BY <1>1, <1>2, <2>2
    <2>4. PICK column : column = end + (IF fill > 0 THEN fill * 4 ELSE 0) + Gap(2)
      OBVIOUS
    <2>5. column \in Nat /\ column <= indent + 4 * k + 4 * fill + 1
      BY <1>2, <1>3, <2>3, <2>4
    <2>6. AsciiColumn(row) = column
      BY <1>1, <2>0, <2>1, <2>2, <2>4 DEF AsciiColumn
    <2>7. RowEnd(row) = IF option.ascii THEN column + Len(row.ascii) ELSE end
      BY <1>1, <2>1, <2>2, <2>6 DEF RowEnd
    <2>8. CASE option.ascii
      <3>1. Len(row.ascii) = k /\ k + fill = w
        BY <1>2, <2>0, <2>8
      <3>2. RowEnd(row) = column + k
        BY <2>7, <2>8, <3>1
      <3>3. k + fill = w
        BY <3>1
      <3>4. column + k \in 0 .. indent + 5 * w + 1
        <4>1. column + k <= indent + 4 * k + 4 * fill + 1 + k /\ column + k \in Nat
          BY <2>5
        <4>2. 5 * w = 5 * k + 5 * fill
          BY <3>3
        <4> QED
          BY <4>1, <4>2
      <3> QED
        BY <3>2, <3>4
    <2>9. CASE ~option.ascii
      <3>1. RowEnd(row) = end
        BY <2>7, <2>9
      <3> QED
        BY <1>1, <2>3, <3>1
    <2> QED
      BY <2>8, <2>9
  <1> QED
    BY <1>4, <1>5

LEMMA RowsEnd ==
  ASSUME OptionsOK, NEW m \in Messages, NEW rows, NEW indent \in Nat, indent > 0,
         RowsTell(m, rows, option.ascii, indent)
  PROVE  \A r \in 1 .. Len(rows) : RowEnd(rows[r]) \in 0 .. indent + 5 * Wraparound(m) + 1
PROOF
  <1> TAKE r \in 1 .. Len(rows)
  <1>1. PICK w \in Nat : w = Wraparound(m)
    BY WraparoundIs
  <1>2. rows \in Seq(RowType) /\ RowTells(rows, r, DLC2LEN(m.dlc), w, option.ascii, indent)
    BY <1>1 DEF RowsTell
  <1>3. PICK row \in RowType : row = rows[r]
    BY <1>2, ElementOfSeq
  <1>4. /\ Len(row.bytes) > 0 /\ Len(row.bytes) <= w
        /\ row.indent = indent \/ (Tabs /\ row.indent = 1)
        /\ option.ascii => row.ascii = row.bytes /\ Len(row.bytes) + row.fill = w
    BY <1>2, <1>3 DEF RowTells
  <1>5. RowEnd(row) \in 0 .. indent + 5 * w + 1
    BY <1>4, RowEndIs
  <1> QED
    BY <1>1, <1>3, <1>5

LEMMA WidthEnds ==
  ASSUME NEW head, NEW rows \in Seq(RowType)
  PROVE  \E f : /\ EndsOf(f, rows, Len(rows))
                /\ LineWidth(head, rows) = (IF rows = << >> THEN head ELSE f[Len(rows)])
                                           + (IF option.end_of_line THEN 1 ELSE 0)
PROOF
  <1> DEFINE n == Len(rows)
             Is(f) == f = [r \in 0 .. n |->
                             IF r = 0 THEN n - 1 ELSE f[r - 1] + RowEnd(rows[r])]
  <1>1. n \in Nat
    BY LenProperties
  <1>2. \E f : Is(f)
    <2>1. PICK f : EndsOf(f, rows, n)
      BY <1>1, EndsExist
    <2> DEFINE g == [r \in 0 .. n |-> f[r]]
    <2>2. ASSUME NEW r \in 0 .. n
          PROVE  g[r] = IF r = 0 THEN n - 1 ELSE g[r - 1] + RowEnd(rows[r])
      BY <1>1, <2>1, <2>2 DEF EndsOf
    <2>3. Is(g)
      BY <2>2
    <2> QED
      BY <2>3
  <1>3. PICK f : f = (CHOOSE h : Is(h)) /\ Is(f)
    BY <1>2
  <1>4. LineWidth(head, rows)
          = (IF rows = << >> THEN head ELSE f[n]) + (IF option.end_of_line THEN 1 ELSE 0)
    BY <1>3 DEF LineWidth
  <1>5. f = [r \in 0 .. n |-> IF r = 0 THEN n - 1 ELSE f[r - 1] + RowEnd(rows[r])]
    BY <1>3
  <1> HIDE DEF Is, n
  <1>6. \A r \in 0 .. n : f[r] = IF r = 0 THEN n - 1 ELSE f[r - 1] + RowEnd(rows[r])
    BY <1>5
  <1>7. EndsOf(f, rows, n)
    BY <1>6 DEF EndsOf, n
  <1> QED
    BY <1>4, <1>7 DEF n

(* Rows that end before a column W make a line of not more than Len(rows)  *)
(* such rows with the characters between them.                             *)
LEMMA LineWidthIs ==
  ASSUME NEW head \in Nat, NEW rows \in Seq(RowType), NEW W \in Nat,
         \A r \in 1 .. Len(rows) : RowEnd(rows[r]) \in 0 .. W
  PROVE  /\ LineWidth(head, rows) \in Nat
         /\ rows = << >> => LineWidth(head, rows) <= head + 1
         /\ rows # << >> => LineWidth(head, rows) <= Len(rows) * W + Len(rows)
PROOF
  <1> DEFINE n == Len(rows)
  <1>1. n \in Nat /\ (rows = << >> \/ n > 0)
    BY LenProperties, EmptySeq
  <1>2. PICK f : /\ EndsOf(f, rows, n)
                 /\ LineWidth(head, rows) = (IF rows = << >> THEN head ELSE f[n])
                                            + (IF option.end_of_line THEN 1 ELSE 0)
    BY WidthEnds
  <1>3. f[0] = n - 1 /\ \A r \in 1 .. n : f[r] = f[r - 1] + RowEnd(rows[r])
    BY <1>1, <1>2 DEF EndsOf
  <1> HIDE DEF n
  <1>4. CASE n > 0
    <2> DEFINE S == {k \in Nat : k <= n => f[k] \in Nat /\ f[k] <= n - 1 + k * W}
    <2>1. 0 \in S
      BY <1>1, <1>3, <1>4
    <2>2. ASSUME NEW k \in Nat, k \in S PROVE k + 1 \in S
      <3> SUFFICES ASSUME k + 1 <= n PROVE f[k + 1] \in Nat /\ f[k + 1] <= n - 1 + (k + 1) * W
        OBVIOUS
      <3>1. f[k] \in Nat /\ f[k] <= n - 1 + k * W /\ k + 1 \in 1 .. n /\ k + 1 - 1 = k
        BY <1>1, <2>2
      <3>2. f[k + 1] = f[k] + RowEnd(rows[k + 1])
        BY <1>3, <3>1
      <3>3. RowEnd(rows[k + 1]) \in 0 .. W
        BY <3>1 DEF n
      <3>4. (k + 1) * W = k * W + W /\ k * W \in Nat
        OBVIOUS
      <3> QED
        BY <1>1, <3>1, <3>2, <3>3, <3>4
    <2> HIDE DEF S
    <2>3. n \in S
      BY <1>1, <2>1, <2>2, Induction
    <2>4. f[n] \in Nat /\ f[n] <= n - 1 + n * W
      BY <1>1, <2>3 DEF S
    <2>5. n * W \in Nat
      BY <1>1
    <2> QED
      BY <1>1, <1>2, <1>4, <2>4, <2>5 DEF n
  <1>5. CASE rows = << >>
    BY <1>2, <1>5
  <1> QED
    BY <1>1, <1>4, <1>5
-------------------------------------------------------------------------------
(***************************************************************************)
(* The formatter.                                                          *)
(***************************************************************************)
LineOK ==
  \E m \in Messages :
    /\ line.of = {m} /\ line.width \in Nat
    /\ line.rows = << >> \/ RowsTell(m, line.rows, option.ascii, line.indent)

FormatInv == OptionsOK /\ LastOK /\ (line = NoLine \/ LineOK)

LEMMA FormatInvInit == FormatInit => FormatInv
PROOF
  <1> SUFFICES ASSUME FormatInit PROVE FormatInv
    OBVIOUS
  <1>1. option = Defaults /\ laststamp = NoStamp /\ line = NoLine
    BY DEF FormatInit
  <1> DEFINE names == {"time_stamp", "time_usec", "time_format", "id", "id_xtd", "dlc", "dlc_format",
                       "dlc_brackets", "flags", "data", "ascii", "channel", "counter", "separator",
                       "wraparound", "end_of_line", "rx_prompt", "tx_prompt"}
  <1>2. DOMAIN Defaults = names /\ DOMAIN Legal = names
    BY DEF Defaults, Legal
  <1>3. \A o \in names : Defaults[o] \in Legal[o]
    <2>1. /\ Defaults.time_stamp \in Legal.time_stamp /\ Defaults.time_format \in Legal.time_format
          /\ Defaults.id \in Legal.id /\ Defaults.dlc \in Legal.dlc
          /\ Defaults.dlc_format \in Legal.dlc_format /\ Defaults.dlc_brackets \in Legal.dlc_brackets
          /\ Defaults.data \in Legal.data /\ Defaults.separator \in Legal.separator
          /\ Defaults.wraparound \in Legal.wraparound
          /\ Defaults.rx_prompt \in Legal.rx_prompt /\ Defaults.tx_prompt \in Legal.tx_prompt
      BY DEF Defaults, Legal, Numerals, Wraparounds
    <2>2. Defaults.time_usec \in Legal.time_usec /\ Defaults.id_xtd \in Legal.id_xtd
      BY Zenon DEF Defaults, Legal
    <2>3. Defaults.flags \in Legal.flags /\ Defaults.ascii \in Legal.ascii
      BY Zenon DEF Defaults, Legal
    <2>4. Defaults.channel \in Legal.channel /\ Defaults.counter \in Legal.counter
      BY Zenon DEF Defaults, Legal
    <2>5. Defaults.end_of_line \in Legal.end_of_line
      BY Zenon DEF Defaults, Legal
    <2> QED
      BY <2>1, <2>2, <2>3, <2>4, <2>5
  <1> QED
    BY <1>1, <1>2, <1>3 DEF FormatInv, OptionsOK, LastOK

LEMMA LineIsOK ==
  ASSUME FormatInv, NEW m \in Messages, NEW sent \in BOOLEAN, NEW stamp \in Stamps,
         NEW digits \in CounterDigits, NEW channel \in Channels,
         msg_format_message(m, sent, stamp, digits, channel)
  PROVE  LineOK'
PROOF
  <1> DEFINE head == LineHead(m, sent, stamp, digits, channel)
             indent == head + Gap(2)
             rows == IF m.dlc > 0 /\ ~m.rtr THEN format_data(m, option.ascii, indent) ELSE << >>
  <1>1. OptionsOK /\ LastOK /\ option' = option
    BY DEF FormatInv, msg_format_message
  <1>2. head \in Nat /\ indent \in Nat /\ indent > 0
    <2>1. head \in Nat
      BY <1>1, HeadWidth
    <2>2. Gap(2) \in 1 .. 2
      BY DEF Gap
    <2> QED
      BY <2>1, <2>2
  <1>3. option.ascii \in BOOLEAN
    BY <1>1, OptionsAre
  <1>4. line' = [of |-> {m}, indent |-> indent, rows |-> rows, width |-> LineWidth(head, rows)]
    BY DEF msg_format_message
  <1> HIDE DEF indent, head
  <1>5. rows = << >> \/ RowsTell(m, rows, option.ascii, indent)
    BY <1>1, <1>2, <1>3, DataTells
  <1> HIDE DEF rows
  <1>6. PICK W \in Nat : W = indent + 5 * Wraparound(m) + 1
    BY <1>1, <1>2, WraparoundIs
  <1>7. LineWidth(head, rows) \in Nat
    <2>1. CASE rows = << >>
      <3>1. rows \in Seq(RowType) /\ \A r \in 1 .. Len(rows) : RowEnd(rows[r]) \in 0 .. W
        BY <2>1
      <3> QED
        BY <1>2, <1>6, <3>1, LineWidthIs
    <2>2. CASE RowsTell(m, rows, option.ascii, indent)
      <3>1. rows \in Seq(RowType)
        BY <2>2 DEF RowsTell
      <3>2. \A r \in 1 .. Len(rows) : RowEnd(rows[r]) \in 0 .. W
        BY <1>1, <1>2, <1>6, <2>2, RowsEnd
      <3> QED
        BY <1>2, <1>6, <3>1, <3>2, LineWidthIs
    <2> QED
      BY <1>5, <2>1, <2>2
  <1>8. PICK r, i, a : r = rows /\ i = indent /\ a = option.ascii
    OBVIOUS
  <1>9. r = << >> \/ RowsTell(m, r, a, i)'
    BY <1>1, <1>3, <1>5, <1>8, SameRows
  <1>10. /\ line'.of = {m} /\ line'.width \in Nat /\ line'.rows = r /\ line'.indent = i
         /\ option'.ascii = a
    BY <1>1, <1>4, <1>7, <1>8
  <1>11. line'.rows = << >> \/ RowsTell(m, line.rows, option.ascii, line.indent)'
    BY <1>9, <1>10
  <1> QED
    BY <1>10, <1>11 DEF LineOK

LEMMA FormatInvNext == FormatInv /\ [FormatNext]_formatVars => FormatInv'
PROOF
  <1> SUFFICES ASSUME FormatInv, [FormatNext]_formatVars PROVE FormatInv'
    OBVIOUS
  <1>1. ASSUME NEW values \in Configurations, SetOptions(values) PROVE FormatInv'
    <2>1. /\ option' = [o \in DOMAIN option |->
                          IF o \in DOMAIN values /\ values[o] \in Legal[o] THEN values[o]
                          ELSE option[o]]
          /\ line' = NoLine /\ laststamp' = laststamp
      BY <1>1 DEF SetOptions
    <2>2. OptionsOK'
      BY <2>1 DEF FormatInv, OptionsOK
    <2> QED
      BY <2>1, <2>2 DEF FormatInv, LastOK
  <1>2. ASSUME WriteOut PROVE FormatInv'
    BY <1>2 DEF WriteOut, FormatInv, OptionsOK, LastOK
  <1>3. ASSUME NEW m \in Messages, NEW sent \in BOOLEAN, NEW stamp \in Stamps,
               NEW digits \in CounterDigits, NEW channel \in Channels,
               msg_format_message(m, sent, stamp, digits, channel)
        PROVE  FormatInv'
    <2>1. LineOK'
      BY <1>3, LineIsOK
    <2>2. option' = option /\ laststamp' = NewStamp(stamp)
      BY <1>3 DEF msg_format_message
    <2>3. NewStamp(stamp) \in Stamps \cup {NoStamp}
      BY ShownIs DEF FormatInv
    <2> QED
      BY <2>1, <2>2, <2>3 DEF FormatInv, OptionsOK, LastOK
  <1>4. CASE UNCHANGED formatVars
    <2>1. option' = option /\ line' = line /\ laststamp' = laststamp
      BY <1>4 DEF formatVars
    <2>2. ASSUME LineOK PROVE LineOK'
      <3>1. PICK m \in Messages :
               /\ line.of = {m} /\ line.width \in Nat
               /\ line.rows = << >> \/ RowsTell(m, line.rows, option.ascii, line.indent)
        BY <2>2 DEF LineOK
      <3>2. option.ascii \in BOOLEAN
        BY OptionsAre DEF FormatInv
      <3>3. PICK r, i, a : r = line.rows /\ i = line.indent /\ a = option.ascii
        OBVIOUS
      <3>4. r = << >> \/ RowsTell(m, r, a, i)'
        BY <2>1, <3>1, <3>2, <3>3, SameRows
      <3>5. line'.rows = << >> \/ RowsTell(m, line.rows, option.ascii, line.indent)'
        BY <2>1, <3>3, <3>4
      <3> QED
        BY <2>1, <3>1, <3>5 DEF LineOK
    <2> QED
      BY <2>1, <2>2 DEF FormatInv, OptionsOK, LastOK
  <1> QED
    BY <1>1, <1>2, <1>3, <1>4 DEF FormatNext

(* What the line of a message tells is what the invariant says of it. *)
LEMMA LineShowsAll == FormatInv => RowsShowAll /\ RowsAgree
PROOF
  <1> SUFFICES ASSUME FormatInv PROVE RowsShowAll /\ RowsAgree
    OBVIOUS
  <1>1. CASE line.rows = << >>
    BY <1>1 DEF RowsShowAll, RowsAgree
  <1>2. CASE line.rows # << >>
    <2>1. PICK m \in Messages :
            line.of = {m} /\ RowsTell(m, line.rows, option.ascii, line.indent)
      BY <1>2 DEF FormatInv, LineOK, NoLine
    <2>2. /\ line.rows \in Seq(RowType) /\ format_ascii(m) = BytesOf(line.rows)
          /\ DOMAIN line.rows = 1 .. Len(line.rows)
      BY <2>1 DEF RowsTell
    <2>3. RowsAgree
      BY <2>1, <2>2 DEF RowsAgree, BytesOf
    <2>4. ASSUME NEW r \in DOMAIN line.rows
          PROVE  LET row   == line.rows[r]
                     first == IF r = 1 THEN 0 ELSE Last(line.rows[r - 1].bytes) + 1
                 IN  /\ row.bytes # << >> /\ row.bytes = Characters(first, Len(row.bytes))
                     /\ r = Len(line.rows) =>
                          \A k \in line.of : Last(row.bytes) = DLC2LEN(k.dlc) - 1
                     /\ option.ascii => row.ascii = row.bytes
      <3>1. RowTells(line.rows, r, DLC2LEN(m.dlc), Wraparound(m), option.ascii, line.indent)
        BY <2>1, <2>2 DEF RowsTell
      <3>2. line.rows[r].bytes # << >>
        BY <3>1 DEF RowTells
      <3> QED
        BY <2>1, <3>1, <3>2 DEF RowTells, From
    <2>5. RowsShowAll
      BY <2>4 DEF RowsShowAll
    <2> QED
      BY <2>3, <2>5
  <1> QED
    BY <1>1, <1>2

LEMMA LineIsAligned == FormatInv => AsciiAligned
PROOF
  <1> SUFFICES ASSUME FormatInv, ~Tabs, option.ascii, NEW r \in DOMAIN line.rows
               PROVE  AsciiColumn(line.rows[r]) = AsciiColumn(line.rows[1])
    BY DEF AsciiAligned
  <1>1. line.rows # << >>
    OBVIOUS
  <1>8. LineOK
    BY <1>1 DEF FormatInv, NoLine
  <1>7. PICK m \in Messages :
          /\ line.of = {m}
          /\ line.rows = << >> \/ RowsTell(m, line.rows, option.ascii, line.indent)
    BY <1>8 DEF LineOK
  <1>2. RowsTell(m, line.rows, option.ascii, line.indent)
    BY <1>1, <1>7, Zenon
  <1>3. line.rows \in Seq(RowType) /\ DOMAIN line.rows = 1 .. Len(line.rows)
    BY <1>2 DEF RowsTell
  <1>4. PICK w : w = Wraparound(m)
    OBVIOUS
  <1>5. ASSUME NEW k \in 1 .. Len(line.rows)
        PROVE  AsciiColumn(line.rows[k]) = line.indent + w * (ByteWidth + 1) - 1 + Gap(2)
    <2>1. line.rows[k] \in RowType
      BY <1>3, ElementOfSeq
    <2>2. PICK row \in RowType : row = line.rows[k]
      BY <2>1
    <2>3. RowTells(line.rows, k, DLC2LEN(m.dlc), w, option.ascii, line.indent)
      BY <1>2, <1>4 DEF RowsTell
    <2>4. Len(row.bytes) + row.fill = w /\ row.indent = line.indent
      BY <2>2, <2>3 DEF RowTells
    <2>5. row.indent \in Nat /\ row.fill \in Nat /\ Len(row.bytes) \in Nat
      BY LenProperties DEF RowType
    <2>6. PICK n \in Nat : n = Len(row.bytes)
      BY <2>5
    <2>7. Gap(2) \in Nat
      BY DEF Gap
    <2>8. CASE option.data = "hex"
      <3>1. ByteWidth + 1 = 3 /\ FillWidth + 1 = 3
        BY <2>8 DEF ByteWidth, FillWidth
      <3>2. AsciiColumn(row)
              = row.indent + n * 3 - 1 + (IF row.fill > 0 THEN row.fill * 3 ELSE 0) + Gap(2)
        BY <2>6, <3>1 DEF AsciiColumn
      <3>3. PICK fill \in Nat : fill = row.fill /\ n + fill = w
        BY <2>4, <2>5, <2>6
      <3>4. PICK v \in Nat : v = w /\ n + fill = v
        BY <3>3
      <3>5. PICK indent \in Nat : indent = row.indent
        BY <2>5
      <3>6. PICK gap \in Nat : gap = Gap(2)
        BY <2>7
      <3>7. AsciiColumn(row) = indent + n * 3 - 1 + (IF fill > 0 THEN fill * 3 ELSE 0) + gap
        BY <3>2, <3>3, <3>5, <3>6
      <3>8. (IF fill > 0 THEN fill * 3 ELSE 0) = fill * 3
        OBVIOUS
      <3>9. AsciiColumn(row) = indent + v * 3 - 1 + gap
        BY <3>4, <3>7, <3>8
      <3> QED
        BY <2>2, <2>4, <3>1, <3>4, <3>5, <3>6, <3>9
    <2>9. CASE option.data # "hex"
      <3>1. ByteWidth + 1 = 4 /\ FillWidth + 1 = 4
        BY <2>9 DEF ByteWidth, FillWidth
      <3>2. AsciiColumn(row)
              = row.indent + n * 4 - 1 + (IF row.fill > 0 THEN row.fill * 4 ELSE 0) + Gap(2)
        BY <2>6, <3>1 DEF AsciiColumn
      <3>3. PICK fill \in Nat : fill = row.fill /\ n + fill = w
        BY <2>4, <2>5, <2>6
      <3>4. PICK v \in Nat : v = w /\ n + fill = v
        BY <3>3
      <3>5. PICK indent \in Nat : indent = row.indent
        BY <2>5
      <3>6. PICK gap \in Nat : gap = Gap(2)
        BY <2>7
      <3>7. AsciiColumn(row) = indent + n * 4 - 1 + (IF fill > 0 THEN fill * 4 ELSE 0) + gap
        BY <3>2, <3>3, <3>5, <3>6
      <3>8. (IF fill > 0 THEN fill * 4 ELSE 0) = fill * 4
        OBVIOUS
      <3>9. AsciiColumn(row) = indent + v * 4 - 1 + gap
        BY <3>4, <3>7, <3>8
      <3> QED
        BY <2>2, <2>4, <3>1, <3>4, <3>5, <3>6, <3>9
    <2> QED
      BY <2>8, <2>9
  <1>6. r \in 1 .. Len(line.rows) /\ 1 \in 1 .. Len(line.rows)
    BY <1>1, <1>3
  <1> QED
    BY <1>5, <1>6

LEMMA InvTells == FormatInv => LineTells
PROOF
  <1> SUFFICES ASSUME FormatInv PROVE LineTells
    OBVIOUS
  <1>1. FormatTypeOK
    <2>1. line.width \in Nat
      BY DEF FormatInv, LineOK, NoLine
    <2> QED
      BY <2>1 DEF FormatInv, FormatTypeOK, OptionsOK, LastOK
  <1>2. LengthColumnSteady
    <2> SUFFICES ASSUME option.dlc # "hex", NEW m \in line.of, NEW n \in Messages, m.fdf = n.fdf
                 PROVE  format_dlc(m) = format_dlc(n)
      BY DEF LengthColumnSteady
    <2>1. m \in Messages
      BY DEF FormatInv, LineOK, NoLine
    <2> QED
      BY <2>1, LengthColumn DEF FormatInv
  <1>3. TimesTell
    <2> SUFFICES ASSUME laststamp # NoStamp, NEW stamp \in Stamps
                 PROVE  /\ elapsed(stamp, laststamp).part \in 0 .. Parts - 1
                        /\ Ticks(elapsed(stamp, laststamp))
                             = Wider(0, Ticks(stamp) - Ticks(laststamp))
      BY DEF TimesTell
    <2>1. stamp \in Stamp /\ laststamp \in Stamp
      BY StampsAre DEF FormatInv, LastOK
    <2>2. elapsed(stamp, laststamp) \in Stamp
      BY <2>1, ElapsedIs
    <2> QED
      BY <2>1, <2>2, ElapsedIs DEF Stamp, Parts
  <1> QED
    BY <1>1, <1>2, <1>3, LineShowsAll, LineIsAligned DEF LineTells

(* What a line shows is true and in its column, under every option: the    *)
(* rows show every byte once, the characters beside them are theirs and    *)
(* start at one column, and the times are those that have passed.          *)
THEOREM LinesTell == FormatSpec => []LineTells
PROOF
  <1>1. FormatInit => FormatInv
    BY FormatInvInit
  <1>2. FormatInv /\ [FormatNext]_formatVars => FormatInv'
    BY FormatInvNext
  <1>3. FormatInv => LineTells
    BY InvTells
  <1> QED
    BY <1>1, <1>2, <1>3, PTL DEF FormatSpec
-------------------------------------------------------------------------------
(***************************************************************************)
(* The length of a line. First, how many digits numbers have.              *)
(***************************************************************************)
LEMMA QuotientsGrow ==
  ASSUME NEW base \in Bases, NEW k \in Nat, NEW n \in Nat, k <= n
  PROVE  k \div base <= n \div base
PROOF
  <1>1. CASE base = 8
    BY <1>1, SMT
  <1>2. CASE base = 10
    BY <1>2, SMT
  <1>3. CASE base = 16
    BY <1>3, SMT
  <1> QED
    BY <1>1, <1>2, <1>3 DEF Bases

(* A greater number has no fewer digits. *)
LEMMA DigitsGrow ==
  ASSUME NEW base \in Bases, NEW n \in Nat, NEW k \in 0 .. n
  PROVE  Digits(k, base) <= Digits(n, base)
PROOF
  <1> DEFINE S == {j \in Nat : \A i \in 0 .. j : \A h \in 0 .. i : Digits(h, base) <= Digits(i, base)}
  <1>0. base \in Nat /\ base > 0
    BY DEF Bases
  <1>1. 0 \in S
    <2>1. Digits(0, base) \in Nat
      BY DigitsType
    <2> QED
      BY <2>1
  <1>2. ASSUME NEW j \in Nat, j \in S PROVE j + 1 \in S
    <2>1. ASSUME NEW h \in 0 .. j + 1 PROVE Digits(h, base) <= Digits(j + 1, base)
      <3>1. /\ Digits(h, base) = IF h < base THEN 1 ELSE 1 + Digits(h \div base, base)
            /\ Digits(j + 1, base)
                 = IF j + 1 < base THEN 1 ELSE 1 + Digits((j + 1) \div base, base)
        BY DigitsAre
      <3>2. Digits(j + 1, base) \in Nat /\ Digits(j + 1, base) >= 1
        BY DigitsType
      <3>3. CASE h < base
        BY <3>1, <3>2, <3>3
      <3>4. CASE ~(h < base)
        <4>1. PICK p, q : p = h \div base /\ q = (j + 1) \div base
          OBVIOUS
        <4>2. p \in Nat /\ q \in 0 .. j /\ p <= q
          BY <1>0, <3>4, <4>1, Divided, QuotientsGrow
        <4>3. Digits(p, base) <= Digits(q, base)
          BY <1>2, <4>2
        <4>4. Digits(p, base) \in Nat /\ Digits(q, base) \in Nat
          BY <4>2, DigitsType
        <4>5. ~(j + 1 < base)
          BY <1>0, <3>4
        <4> QED
          BY <3>1, <3>4, <4>1, <4>3, <4>4, <4>5
      <3> QED
        BY <3>3, <3>4
    <2>2. \A i \in 0 .. j + 1 : i \in 0 .. j \/ i = j + 1
      OBVIOUS
    <2> QED
      BY <1>2, <2>1, <2>2
  <1> HIDE DEF S
  <1>3. n \in S
    BY <1>1, <1>2, Induction
  <1> QED
    BY <1>3 DEF S

(* All numbers less than b have k digits or fewer. *)
Within(base, k, b) == \A n \in Nat : n < b => Digits(n, base) <= k

LEMMA OneMoreDigit ==
  ASSUME NEW base \in Bases, NEW k \in Nat, NEW b \in Nat, NEW c \in Nat, c = base * b,
         Within(base, k, b)
  PROVE  Within(base, k + 1, c)
PROOF
  <1> SUFFICES ASSUME NEW n \in Nat, n < c PROVE Digits(n, base) <= k + 1
    BY DEF Within
  <1>1. Digits(n, base) = IF n < base THEN 1 ELSE 1 + Digits(n \div base, base)
    BY DigitsAre
  <1>2. PICK q \in Nat : q = n \div base
    BY Divided
  <1>3. q < b
    <2>1. CASE base = 8
      BY <1>2, <2>1, SMT
    <2>2. CASE base = 10
      BY <1>2, <2>2, SMT
    <2>3. CASE base = 16
      BY <1>2, <2>3, SMT
    <2> QED
      BY <2>1, <2>2, <2>3 DEF Bases
  <1>4. Digits(q, base) <= k /\ Digits(q, base) \in Nat
    BY <1>2, <1>3, DigitsType DEF Within
  <1> QED
    BY <1>1, <1>2, <1>4

LEMMA FirstDigit ==
  ASSUME NEW base \in Bases
  PROVE  Within(base, 1, base)
PROOF
  <1> SUFFICES ASSUME NEW n \in Nat, n < base PROVE Digits(n, base) <= 1
    BY DEF Within
  <1> QED
    BY DigitsAre

(* An identifier has no more than 29 bits. *)
IdIs29Bit(id) == id \in Nat /\ id < 536870912

LEMMA IdDigits ==
  ASSUME NEW id, IdIs29Bit(id)
  PROVE  Digits(id, 8) <= 10 /\ Digits(id, 10) <= 9 /\ Digits(id, 16) <= 8
PROOF
  <1>0. 8 \in Bases /\ 10 \in Bases /\ 16 \in Bases /\ 8 \in Nat /\ 10 \in Nat /\ 16 \in Nat
    BY DEF Bases
  <1>1. Within(8, 1, 8)
    BY <1>0, FirstDigit
  <1>2. Within(8, 2, 64)
    BY <1>0, <1>1, OneMoreDigit, SMT
  <1>3. Within(8, 3, 512)
    BY <1>0, <1>2, OneMoreDigit, SMT
  <1>4. Within(8, 4, 4096)
    BY <1>0, <1>3, OneMoreDigit, SMT
  <1>5. Within(8, 5, 32768)
    BY <1>0, <1>4, OneMoreDigit, SMT
  <1>6. Within(8, 6, 262144)
    BY <1>0, <1>5, OneMoreDigit, SMT
  <1>7. Within(8, 7, 2097152)
    BY <1>0, <1>6, OneMoreDigit, SMT
  <1>8. Within(8, 8, 16777216)
    BY <1>0, <1>7, OneMoreDigit, SMT
  <1>9. Within(8, 9, 134217728)
    BY <1>0, <1>8, OneMoreDigit, SMT
  <1>10. Within(8, 10, 1073741824)
    BY <1>0, <1>9, OneMoreDigit, SMT
  <1>11. Within(10, 1, 10)
    BY <1>0, FirstDigit
  <1>12. Within(10, 2, 100)
    BY <1>0, <1>11, OneMoreDigit, SMT
  <1>13. Within(10, 3, 1000)
    BY <1>0, <1>12, OneMoreDigit, SMT
  <1>14. Within(10, 4, 10000)
    BY <1>0, <1>13, OneMoreDigit, SMT
  <1>15. Within(10, 5, 100000)
    BY <1>0, <1>14, OneMoreDigit, SMT
  <1>16. Within(10, 6, 1000000)
    BY <1>0, <1>15, OneMoreDigit, SMT
  <1>17. Within(10, 7, 10000000)
    BY <1>0, <1>16, OneMoreDigit, SMT
  <1>18. Within(10, 8, 100000000)
    BY <1>0, <1>17, OneMoreDigit, SMT
  <1>19. Within(10, 9, 1000000000)
    BY <1>0, <1>18, OneMoreDigit, SMT
  <1>20. Within(16, 1, 16)
    BY <1>0, FirstDigit
  <1>21. Within(16, 2, 256)
    BY <1>0, <1>20, OneMoreDigit, SMT
  <1>22. Within(16, 3, 4096)
    BY <1>0, <1>21, OneMoreDigit, SMT
  <1>23. Within(16, 4, 65536)
    BY <1>0, <1>22, OneMoreDigit, SMT
  <1>24. Within(16, 5, 1048576)
    BY <1>0, <1>23, OneMoreDigit, SMT
  <1>25. Within(16, 6, 16777216)
    BY <1>0, <1>24, OneMoreDigit, SMT
  <1>26. Within(16, 7, 268435456)
    BY <1>0, <1>25, OneMoreDigit, SMT
  <1>27. Within(16, 8, 4294967296)
    BY <1>0, <1>26, OneMoreDigit, SMT
  <1>28. id \in Nat /\ id < 1073741824 /\ id < 1000000000 /\ id < 4294967296
    BY SMT DEF IdIs29Bit
  <1> QED
    BY <1>10, <1>19, <1>27, <1>28, SMT DEF Within

(* What the programs show: CAN identifiers, seconds of a clock that does   *)
(* not go beyond twelve digits, and channels of two digits.                *)
IdsFit == \A m \in Messages : IdIs29Bit(m.id)

TimesFit == \A stamp \in Stamps : Digits(stamp.sec, 10) <= 12

ChannelsFit == \A channel \in Channels : channel < 100

LEMMA TimeFits ==
  ASSUME OptionsOK, LastOK, TimesFit, NEW stamp \in Stamps
  PROVE  format_time(stamp) <= 25
PROOF
  <1>1. stamp \in Stamp /\ (laststamp # NoStamp => laststamp \in Stamp)
    BY StampsAre DEF LastOK
  <1>2. PICK sec \in Nat : sec = Shown(stamp).sec
    BY ShownIs DEF Stamp
  <1>3. sec <= stamp.sec /\ stamp.sec \in Nat
    <2>1. \A last \in Stamp : elapsed(stamp, last).sec <= stamp.sec
      <3> TAKE last \in Stamp
      <3>1. stamp.sec \in Nat /\ last.sec \in Nat
        BY <1>1 DEF Stamp
      <3> QED
        BY <3>1 DEF elapsed
    <2>2. Reference(stamp) \in Stamp
      BY <1>1 DEF Reference
    <2>3. stamp.sec \in Nat
      BY <1>1 DEF Stamp
    <2>4. Shown(stamp) = stamp \/ Shown(stamp) = elapsed(stamp, Reference(stamp))
      BY DEF Shown
    <2> QED
      BY <1>2, <2>1, <2>2, <2>3, <2>4
  <1>4. PICK day \in Nat : day = sec \div 86400 /\ day <= sec
    <2>1. sec \div 86400 \in Nat /\ sec \div 86400 <= sec
      BY SMT
    <2> QED
      BY <2>1
  <1>5. Digits(sec, 10) <= 12 /\ Digits(day, 10) <= 12 /\ Digits(sec, 10) \in Nat /\ Digits(day, 10) \in Nat
    <2>1. Digits(stamp.sec, 10) <= 12 /\ Digits(stamp.sec, 10) \in Nat
      BY <1>3, DigitsType DEF TimesFit, Bases
    <2>2. Digits(sec, 10) <= Digits(stamp.sec, 10) /\ Digits(day, 10) <= Digits(sec, 10)
      BY <1>3, <1>4, DigitsGrow DEF Bases
    <2>3. Digits(sec, 10) \in Nat /\ Digits(day, 10) \in Nat
      BY DigitsType DEF Bases
    <2> QED
      BY <2>1, <2>2, <2>3
  <1>6. format_time(stamp) =
          CASE option.time_format = "hhmmss" -> 8 + (IF option.time_usec THEN 7 ELSE 5)
            [] option.time_format = "djd"    -> Digits(day, 10) + (IF option.time_usec THEN 13 ELSE 10)
            [] option.time_format = "sec"    -> Wider(3, Digits(sec, 10))
                                                + (IF option.time_usec THEN 7 ELSE 5)
    BY <1>2, <1>4, SMT DEF format_time
  <1>7. option.time_format \in {"hhmmss", "sec", "djd"}
    BY OptionsAre
  <1>8. CASE option.time_format = "hhmmss"
    <2>1. format_time(stamp) = 8 + (IF option.time_usec THEN 7 ELSE 5)
      BY <1>6, <1>8
    <2> QED
      BY <2>1
  <1>9. CASE option.time_format = "djd"
    <2>1. format_time(stamp) = Digits(day, 10) + (IF option.time_usec THEN 13 ELSE 10)
      BY <1>6, <1>9
    <2> QED
      BY <1>5, <2>1
  <1>10. CASE option.time_format = "sec"
    <2>1. format_time(stamp)
            = Wider(3, Digits(sec, 10)) + (IF option.time_usec THEN 7 ELSE 5)
      BY <1>6, <1>10
    <2> QED
      BY <1>5, <2>1 DEF Wider
  <1> QED
    BY <1>7, <1>8, <1>9, <1>10

LEMMA LengthFits ==
  ASSUME OptionsOK, NEW m \in Messages
  PROVE  format_dlc(m) \in 0 .. 5
PROOF
  <1>1. m.dlc \in 0 .. 15
    BY FormatAssumption
  <1>2. PICK length \in 0 .. 64 :
          length = IF option.dlc_format = "dlc" THEN m.dlc ELSE DLC2LEN(m.dlc)
    BY <1>1, LengthIs
  <1>3. PICK dec, oct, hex :
          dec = Digits(length, 10) /\ oct = Digits(length, 8) /\ hex = Digits(length, 16)
    OBVIOUS
  <1>4. /\ dec = IF length < 10 THEN 1 ELSE 2
        /\ oct = IF length < 8 THEN 1 ELSE IF length < 64 THEN 2 ELSE 3
    BY <1>3, LengthDigits
  <1>5. hex \in 1 .. 2
    <2>1. 16 \in Bases
      BY DEF Bases
    <2>2. PICK q \in Nat : q = length \div 16 /\ q < 16
      BY SMT
    <2>3. hex = IF length < 16 THEN 1 ELSE 1 + Digits(q, 16)
      BY <1>3, <2>1, <2>2, DigitsAre
    <2>4. Digits(q, 16) = 1
      BY <2>1, <2>2, DigitsAre
    <2> QED
      BY <2>3, <2>4
  <1>6. option.dlc \in Numerals
    BY OptionsAre
  <1> DEFINE brackets == IF option.dlc_brackets = "none" THEN 0 ELSE 2
  <1>7. brackets \in 0 .. 2
    OBVIOUS
  <1>8. format_dlc(m) =
          brackets
          + (CASE option.dlc = "dec" -> dec
               [] option.dlc = "oct" -> Wider(2, oct)
               [] option.dlc = "hex" -> hex)
          + (IF m.fdf /\ (\/ option.dlc = "dec" /\ length < 10
                          \/ option.dlc = "oct" /\ length < 64) THEN 1 ELSE 0)
    BY <1>2, <1>3 DEF format_dlc
  <1> HIDE DEF brackets
  <1>9. CASE option.dlc = "dec"
    BY <1>4, <1>7, <1>8, <1>9
  <1>10. CASE option.dlc = "oct"
    BY <1>4, <1>7, <1>8, <1>10 DEF Wider
  <1>11. CASE option.dlc = "hex"
    BY <1>5, <1>7, <1>8, <1>11
  <1> QED
    BY <1>6, <1>9, <1>10, <1>11 DEF Numerals

(* The columns before the data. *)
LEMMA HeadFits ==
  ASSUME OptionsOK, LastOK, IdsFit, TimesFit, ChannelsFit,
         NEW m \in Messages, NEW sent \in BOOLEAN, NEW stamp \in Stamps,
         NEW digits \in CounterDigits, NEW channel \in Channels
  PROVE  LineHead(m, sent, stamp, digits, channel) \in 0 .. 83
PROOF
  <1>1. digits \in 1 .. 20 /\ channel \in Nat
    BY FormatAssumption
  <1>2. Digits(channel, 10) \in 1 .. 2
    <2>1. Within(10, 2, 100)
      BY FirstDigit, OneMoreDigit DEF Bases
    <2>2. Digits(channel, 10) <= 2
      BY <1>1, <2>1 DEF Within, ChannelsFit
    <2> QED
      BY <1>1, <2>2, DigitsType DEF Bases
  <1>3. /\ option.id \in Numerals
        /\ option.rx_prompt \in 0 .. 6 /\ option.tx_prompt \in 0 .. 6
    BY OptionsAre
  <1>4. format_id(m) \in 0 .. 10
    <2>1. IdIs29Bit(m.id)
      BY DEF IdsFit
    <2>2. /\ Digits(m.id, 8) <= 10 /\ Digits(m.id, 10) <= 9 /\ Digits(m.id, 16) <= 8
      BY <2>1, IdDigits
    <2>3. m.id \in Nat
      BY FormatAssumption
    <2>4. /\ Digits(m.id, 8) \in Nat /\ Digits(m.id, 10) \in Nat /\ Digits(m.id, 16) \in Nat
      BY <2>3, DigitsType DEF Bases
    <2> QED
      BY <1>3, <2>2, <2>4 DEF format_id, Numerals, Wider
  <1>5. format_dlc(m) \in 0 .. 5
    BY LengthFits
  <1>6. Prompt(sent) \in 0 .. 7
    BY <1>3 DEF Prompt
  <1>7. format_time(stamp) \in 0 .. 25
    BY TimeWidth, TimeFits
  <1>8. Gap(1) \in 1 .. 1 /\ Gap(2) \in 1 .. 2
    BY DEF Gap
  <1>9. (IF ~option.counter THEN 0 ELSE IF Tabs THEN digits + 1 ELSE Wider(7, digits) + 2) \in 0 .. 22
    BY <1>1 DEF Wider
  <1>10. (IF ~option.channel THEN 0
          ELSE IF Tabs THEN Digits(channel, 10) + 1 ELSE Wider(2, Digits(channel, 10)) + 2) \in 0 .. 4
    BY <1>2 DEF Wider
  <1>11. (IF option.flags THEN 5 + Gap(1) ELSE 0) \in 0 .. 6
    BY <1>8
  <1> QED
    BY <1>4, <1>5, <1>6, <1>7, <1>8, <1>9, <1>10, <1>11 DEF LineHead

(* All rows but the last are whole, so that there are only as many rows as *)
(* the bytes need.                                                         *)
LEMMA RowsCount ==
  ASSUME OptionsOK, NEW m \in Messages, m.dlc > 0, NEW rows, NEW ascii, NEW indent,
         RowsTell(m, rows, ascii, indent)
  PROVE  (Len(rows) - 1) * Wraparound(m) < DLC2LEN(m.dlc)
PROOF
  <1> DEFINE k == Len(rows)
  <1>1. rows \in Seq(RowType) /\ k \in Nat /\ k > 0
    BY LenProperties, EmptySeq DEF RowsTell
  <1>2. PICK w, length :
          w = Wraparound(m) /\ length = DLC2LEN(m.dlc) /\ w \in Nat /\ w > 0 /\ length \in Nat
    <2>1. m.dlc \in 0 .. 15
      BY FormatAssumption
    <2> QED
      BY <2>1, WraparoundIs, LengthIs
  <1>3. \A r \in 1 .. k : RowTells(rows, r, length, w, ascii, indent)
    BY <1>2 DEF RowsTell
  <1>4. \A r \in 1 .. k : Len(rows[r].bytes) \in Nat
    <2> TAKE r \in 1 .. k
    <2>1. rows[r] \in RowType
      BY <1>1, ElementOfSeq
    <2> QED
      BY <2>1, LenProperties DEF RowType
  <1> HIDE DEF k
  <1>5. ASSUME NEW r \in 1 .. k, NEW first \in Nat, From(rows, r) = first
        PROVE  Last(rows[r].bytes) = first + Len(rows[r].bytes) - 1
    <2>1. PICK n \in Nat : n = Len(rows[r].bytes) /\ n > 0
      BY <1>3, <1>4 DEF RowTells
    <2>2. rows[r].bytes = Characters(first, n)
      BY <1>3, <1>5, <2>1 DEF RowTells
    <2> QED
      BY <2>1, <2>2, CharactersAre
  <1> DEFINE S == {j \in Nat : j < k => From(rows, j + 1) = j * w}
  <1>6. 0 \in S
    BY <1>2 DEF From
  <1>7. ASSUME NEW j \in Nat, j \in S PROVE j + 1 \in S
    <2> SUFFICES ASSUME j + 1 < k PROVE From(rows, j + 2) = (j + 1) * w
      OBVIOUS
    <2>1. PICK first \in Nat : first = j * w
      BY <1>2
    <2>2. From(rows, j + 1) = first /\ j + 1 \in 1 .. k /\ j + 1 # k
      BY <1>1, <1>7, <2>1
    <2>3. Len(rows[j + 1].bytes) = w
      BY <1>3, <2>2 DEF RowTells, k
    <2>4. Last(rows[j + 1].bytes) = first + w - 1
      BY <1>5, <2>2, <2>3
    <2>5. From(rows, j + 2) = Last(rows[j + 1].bytes) + 1
      <3>1. j + 2 # 1 /\ j + 2 - 1 = j + 1
        OBVIOUS
      <3> QED
        BY <3>1 DEF From
    <2>6. (j + 1) * w = j * w + w
      BY <1>2
    <2> QED
      BY <1>2, <2>1, <2>4, <2>5, <2>6
  <1> HIDE DEF S
  <1>8. \A j \in Nat : j \in S
    BY <1>6, <1>7, Induction
  <1>9. PICK j \in Nat : j = k - 1
    BY <1>1
  <1>10. PICK first \in Nat : first = j * w
    BY <1>2
  <1>11. From(rows, k) = first
    <2>1. From(rows, j + 1) = j * w
      BY <1>1, <1>8, <1>9 DEF S
    <2> QED
      BY <1>1, <1>9, <1>10, <2>1
  <1>12. k \in 1 .. k
    BY <1>1
  <1>13. Last(rows[k].bytes) = length - 1 /\ Len(rows[k].bytes) > 0
    BY <1>3, <1>12 DEF RowTells, k
  <1>14. first + Len(rows[k].bytes) - 1 = length - 1
    BY <1>5, <1>11, <1>12, <1>13
  <1>15. first < length
    BY <1>2, <1>4, <1>12, <1>13, <1>14
  <1> QED
    BY <1>2, <1>9, <1>10, <1>15 DEF k

(* Of rows as they can be, the eight of eight bytes are the longest line.  *)
LEMMA LongestLine ==
  ASSUME NEW w \in {8, 10, 16, 32, 64}, NEW k \in Nat, k > 0, (k - 1) * w < 64,
         NEW indent \in 0 .. 85
  PROVE  k * (indent + 5 * w + 1) + k <= 1016
PROOF
  <1>1. CASE w = 8
    <2>1. k \in {1, 2, 3, 4, 5, 6, 7, 8}
      BY <1>1
    <2> QED
      BY <1>1, <2>1
  <1>2. CASE w = 10
    <2>1. k \in {1, 2, 3, 4, 5, 6, 7}
      BY <1>2
    <2> QED
      BY <1>2, <2>1
  <1>3. CASE w = 16
    <2>1. k \in {1, 2, 3, 4}
      BY <1>3
    <2> QED
      BY <1>3, <2>1
  <1>4. CASE w = 32
    <2>1. k \in {1, 2}
      BY <1>4
    <2> QED
      BY <1>4, <2>1
  <1>5. CASE w = 64
    <2>1. k = 1
      BY <1>5
    <2> QED
      BY <1>5, <2>1
  <1> QED
    BY <1>1, <1>2, <1>3, <1>4, <1>5

LEMMA FormattedFits ==
  ASSUME FormatInv, IdsFit, TimesFit, ChannelsFit,
         NEW m \in Messages, NEW sent \in BOOLEAN, NEW stamp \in Stamps,
         NEW digits \in CounterDigits, NEW channel \in Channels,
         msg_format_message(m, sent, stamp, digits, channel)
  PROVE  LineFits'
PROOF
  <1> DEFINE head == LineHead(m, sent, stamp, digits, channel)
             indent == head + Gap(2)
             rows == IF m.dlc > 0 /\ ~m.rtr THEN format_data(m, option.ascii, indent) ELSE << >>
  <1>1. OptionsOK /\ LastOK
    BY DEF FormatInv
  <1>2. head \in 0 .. 83 /\ indent \in 0 .. 85 /\ indent > 0
    <2>1. head \in 0 .. 83
      BY <1>1, HeadFits
    <2>2. Gap(2) \in 1 .. 2
      BY DEF Gap
    <2> QED
      BY <2>1, <2>2
  <1>3. option.ascii \in BOOLEAN
    BY <1>1, OptionsAre
  <1>4. line'.width = LineWidth(head, rows)
    BY DEF msg_format_message
  <1> HIDE DEF indent, head
  <1>5. CASE m.dlc > 0 /\ ~m.rtr
    <2>1. RowsTell(m, rows, option.ascii, indent)
      BY <1>1, <1>2, <1>3, <1>5, DataTells
    <2> HIDE DEF rows
    <2>2. rows \in Seq(RowType) /\ rows # << >>
      BY <2>1 DEF RowsTell
    <2>3. PICK k \in Nat : k = Len(rows) /\ k > 0
      BY <2>2, LenProperties, EmptySeq
    <2>4. PICK w \in {8, 10, 16, 32, 64} : w = Wraparound(m)
      <3>1. option.wraparound \in Wraparounds
        BY <1>1, OptionsAre
      <3> QED
        BY <3>1 DEF Wraparound, Wraparounds
    <2>5. (k - 1) * w < 64
      <3>1. (k - 1) * w < DLC2LEN(m.dlc)
        BY <1>1, <1>5, <2>1, <2>3, <2>4, RowsCount
      <3>2. m.dlc \in 0 .. 15
        BY FormatAssumption
      <3>3. DLC2LEN(m.dlc) \in 0 .. 64
        BY <3>2, LengthIs
      <3>4. (k - 1) * w \in Int
        BY <2>4
      <3> QED
        BY <3>1, <3>3, <3>4
    <2>6. PICK W \in Nat : W = indent + 5 * w + 1
      BY <1>2, <2>4
    <2>7. \A r \in 1 .. Len(rows) : RowEnd(rows[r]) \in 0 .. W
      BY <1>1, <1>2, <2>1, <2>4, <2>6, RowsEnd
    <2>8. LineWidth(head, rows) <= k * W + k /\ LineWidth(head, rows) \in Nat
      <3>1. head \in Nat
        BY <1>2
      <3>2. LineWidth(head, rows) <= Len(rows) * W + Len(rows) /\ LineWidth(head, rows) \in Nat
        BY <2>2, <2>7, <3>1, LineWidthIs
      <3> QED
        BY <2>3, <3>2
    <2>9. k * W + k <= 1016
      <3>1. k > 0 /\ indent \in 0 .. 85
        BY <1>2, <2>3
      <3>2. k * (indent + 5 * w + 1) + k <= 1016
        BY <2>5, <3>1, LongestLine
      <3> QED
        BY <2>6, <3>2
    <2>10. k * W + k \in Nat
      BY <2>6
    <2>11. LineWidth(head, rows) < 1024
      BY <2>8, <2>9, <2>10
    <2> QED
      BY <1>4, <2>11 DEF LineFits
  <1>6. CASE ~(m.dlc > 0 /\ ~m.rtr)
    <2>1. rows = << >>
      BY <1>6
    <2> HIDE DEF rows
    <2>2. rows \in Seq(RowType) /\ \A r \in 1 .. Len(rows) : RowEnd(rows[r]) \in 0 .. 0
      BY <2>1
    <2>3. LineWidth(head, rows) <= head + 1 /\ LineWidth(head, rows) \in Nat
      <3>1. head \in Nat /\ 0 \in Nat
        BY <1>2
      <3> QED
        BY <2>1, <2>2, <3>1, LineWidthIs
    <2>4. LineWidth(head, rows) < 1024
      BY <1>2, <2>3
    <2> QED
      BY <1>4, <2>4 DEF LineFits
  <1> QED
    BY <1>5, <1>6

(* A line fits into its buffer of 1024 characters, whatever the options,   *)
(* the message and its counter, if identifiers have 29 bits, seconds no    *)
(* more than twelve digits and channels two: strcat does not look.         *)
THEOREM LinesFit ==
  ASSUME IdsFit, TimesFit, ChannelsFit
  PROVE  FormatSpec => []LineFits
PROOF
  <1> DEFINE IInv == FormatInv /\ LineFits
  <1>1. FormatInit => IInv
    <2>1. FormatInit => LineFits
      BY DEF FormatInit, LineFits, NoLine
    <2> QED
      BY <2>1, FormatInvInit
  <1>2. IInv /\ [FormatNext]_formatVars => IInv'
    <2> SUFFICES ASSUME FormatInv, LineFits, [FormatNext]_formatVars PROVE FormatInv' /\ LineFits'
      OBVIOUS
    <2>1. FormatInv'
      BY FormatInvNext
    <2>2. ASSUME NEW values \in Configurations, SetOptions(values) PROVE LineFits'
      BY <2>2 DEF SetOptions, LineFits
    <2>3. ASSUME WriteOut PROVE LineFits'
      BY <2>3 DEF WriteOut, LineFits, NoLine
    <2>4. ASSUME NEW m \in Messages, NEW sent \in BOOLEAN, NEW stamp \in Stamps,
                 NEW digits \in CounterDigits, NEW channel \in Channels,
                 msg_format_message(m, sent, stamp, digits, channel)
          PROVE  LineFits'
      BY <2>4, FormattedFits
    <2>5. ASSUME UNCHANGED formatVars PROVE LineFits'
      <3>1. line' = line
        BY <2>5 DEF formatVars
      <3> QED
        BY <3>1 DEF LineFits
    <2>6. LineFits'
      BY <2>2, <2>3, <2>4, <2>5 DEF FormatNext
    <2> QED
      BY <2>1, <2>6
  <1>3. IInv => LineFits
    OBVIOUS
  <1> HIDE DEF IInv
  <1> QED
    BY <1>1, <1>2, <1>3, PTL DEF FormatSpec

=============================================================================
