------------------------------- MODULE CanBtr -------------------------------
(***************************************************************************)
(* Bit-rates: src/Sources/CANAPI/can_btr.c, and what can_start and         *)
(* can_bitrate of src/Sources/Wrapper/can_api.c make of them.              *)
(*                                                                         *)
(* A bit-rate is an index (zero or negative) or timing values, both in one *)
(* record: a frequency that is not positive is the index.  A program       *)
(* scans a bit-rate string or takes an index, starts the controller, and   *)
(* reads the bit-rate back.  A string is its sequence of key=value pairs.  *)
(***************************************************************************)
EXTENDS Integers, Sequences, SequencesExt

CONSTANT Numbers \* the values tried for each key of a bit-rate string

NominalKeys == {"nom_brp", "nom_tseg1", "nom_tseg2", "nom_sjw"}

DataKeys == {"data_brp", "data_tseg1", "data_tseg2", "data_sjw"}

Keys == {"f_clock", "f_clock_mhz", "nom_sam"} \cup NominalKeys \cup DataKeys

ASSUME NumbersAssumption == Numbers \in [Keys -> SUBSET Nat]

Entries == 10

FREQ_SJA1000 == 8000000

UINT8_MAX == 255

UINT16_MAX == 65535

INT32_MAX == 2147483647

MHz == 1000000

NoTiming == [key \in NominalKeys \cup DataKeys \cup {"nom_sam"} |-> 0]

(* A record of an index: the other fields are not looked at. *)
Index(i) == [frequency |-> i, timing |-> NoTiming]

sja1000_btr0btr1 ==
  << 20, 22, 28, 284, 796, 17436, 18716, 22556, 28956, 32639 >>

(* What can_start takes for the indexes 0 to -8, in builds with the bit    *)
(* timing of CiA, the default (OPTION_PCAN_BIT_TIMING disabled).           *)
PCAN_BAUD == << 20, 22, 28, 284, 796, 17436, 18716, 22556, 28956 >>
-------------------------------------------------------------------------------
(* The register BTR0BTR1: SJW, BRP, SAM, TSEG2 and TSEG1, less one. *)

BTR_SJW(r)   == r \div 16384
BTR_BRP(r)   == (r \div 256) % 64
BTR_SAM(r)   == (r \div 128) % 2
BTR_TSEG2(r) == (r \div 16) % 8
BTR_TSEG1(r) == r % 16

BTR_BTR0BTR1(sjw, brp, sam, tseg2, tseg1) ==
  sjw * 16384 + brp * 256 + sam * 128 + tseg2 * 16 + tseg1

btr_sja10002bitrate(r) ==
  [frequency |-> FREQ_SJA1000,
   timing |-> [NoTiming EXCEPT !.nom_sjw = BTR_SJW(r) + 1, !.nom_brp = BTR_BRP(r) + 1,
                 !.nom_sam = BTR_SAM(r), !.nom_tseg2 = BTR_TSEG2(r) + 1,
                 !.nom_tseg1 = BTR_TSEG1(r) + 1]]

(* Which timing values have a register. *)
HasRegister(b) ==
  /\ b.frequency = FREQ_SJA1000
  /\ b.timing.nom_sjw \in 1..4 /\ b.timing.nom_brp \in 1..64
  /\ b.timing.nom_sam \in 0..1
  /\ b.timing.nom_tseg2 \in 1..8 /\ b.timing.nom_tseg1 \in 1..16

btr_bitrate2sja1000(b) ==
  BTR_BTR0BTR1(b.timing.nom_sjw - 1, b.timing.nom_brp - 1, b.timing.nom_sam,
               b.timing.nom_tseg2 - 1, b.timing.nom_tseg1 - 1)

HasIndex(i) == -Entries < i /\ i <= 0

btr_index2sja1000(i) == sja1000_btr0btr1[1 - i]

btr_index2bitrate(i) == btr_sja10002bitrate(btr_index2sja1000(i))

(* The indexes of the table that stand for a bit-rate. *)
btr_bitrate2index(b) ==
  IF b.frequency <= 0 THEN {b.frequency} \cap (-(Entries - 1) .. 0)
  ELSE {i \in -(Entries - 1) .. 0 : HasRegister(b) /\ btr_bitrate2sja1000(b) = btr_index2sja1000(i)}

btr_check_bitrate(b, fdoe, brse) ==
  IF b.frequency <= 0 THEN -Entries < b.frequency
  ELSE /\ b.timing.nom_brp \in 1..1024 /\ b.timing.nom_tseg1 \in 1..256
       /\ b.timing.nom_tseg2 \in 1..128 /\ b.timing.nom_sjw \in 1..128
       /\ fdoe /\ brse => /\ b.timing.data_brp \in 1..1024 /\ b.timing.data_tseg1 \in 1..32
                          /\ b.timing.data_tseg2 \in 1..16 /\ b.timing.data_sjw \in 1..16
       /\ ~fdoe => b.timing.nom_sam \in 0..1
-------------------------------------------------------------------------------
(* Bus speeds. *)

Quanta(b, phase) ==
  IF phase = "nom" THEN 1 + b.timing.nom_tseg1 + b.timing.nom_tseg2
  ELSE 1 + b.timing.data_tseg1 + b.timing.data_tseg2

Prescaler(b, phase) == IF phase = "nom" THEN b.timing.nom_brp ELSE b.timing.data_brp

Segment1(b, phase) == IF phase = "nom" THEN b.timing.nom_tseg1 ELSE b.timing.data_tseg1

(* Speed and sample point of btr_bitrate2speed, as fractions: a prescaler  *)
(* of zero gives an infinite speed.                                        *)
Settings(b) == IF b.frequency <= 0 THEN btr_index2bitrate(b.frequency) ELSE b

btr_bitrate2speed(b) ==
  LET t == Settings(b) IN
  [phase \in {"nom", "data"} |->
     [speed |-> <<t.frequency, Prescaler(t, phase) * Quanta(t, phase)>>,
      samplepoint |-> <<1 + Segment1(t, phase), Quanta(t, phase)>>]]

(* The rounded values that btr_compare_bitrates looks at. *)
Rounded(b, phase) ==
  IF Prescaler(b, phase) = 0 THEN 0
  ELSE ((b.frequency * 10) \div (Prescaler(b, phase) * Quanta(b, phase)) + 5) \div 10

SamplePoint(b, phase) == (((1 + Segment1(b, phase)) * 1000) \div Quanta(b, phase) + 5) \div 10

Known(b) == b.frequency > 0 \/ HasIndex(b.frequency)

(* The values compared, in their order, with the code of a difference. *)
Criteria(b, fd, sp) ==
  <<<<1, Rounded(b, "nom")>>>>
    \o (IF sp THEN <<<<3, SamplePoint(b, "nom")>>>> ELSE <<>>)
    \o (IF fd THEN <<<<2, Rounded(b, "data")>>>> ELSE <<>>)
    \o (IF fd /\ sp THEN <<<<4, SamplePoint(b, "data")>>>> ELSE <<>>)

(* Mutant: an index that is not known is the smaller one on either side. *)
Unknown_low(b1, b2) == IF ~Known(b1) /\ ~Known(b2) THEN 0 ELSE -8

Unknown(b1, b2) ==
  IF ~Known(b1) /\ ~Known(b2) THEN 0 ELSE IF ~Known(b1) THEN -8 ELSE 8

btr_compare_bitrates(b1, b2, fd, sp) ==
  IF ~Known(b1) \/ ~Known(b2) THEN Unknown(b1, b2)
  ELSE LET c1 == Criteria(Settings(b1), fd, sp)
           c2 == Criteria(Settings(b2), fd, sp)
           differ == {k \in DOMAIN c1 : c1[k] # c2[k]}
           k == CHOOSE k \in differ : \A l \in differ : k <= l
       IN IF differ = {} THEN 0
          ELSE IF c1[k][2] < c2[k][2] THEN -c1[k][1] ELSE c1[k][1]
-------------------------------------------------------------------------------
(* Bit-rate strings. *)

(* Mutant: the frequency in MHz is counted as a key of its own. *)
Counter_own(key) == key

(* Both keys of the frequency are counted together. *)
Counter(key) == IF key = "f_clock_mhz" THEN "f_clock" ELSE key

Limit(key) ==
  CASE key = "f_clock"     -> INT32_MAX
    [] key = "f_clock_mhz" -> INT32_MAX \div MHz
    [] key = "nom_sam"     -> UINT8_MAX
    [] OTHER               -> UINT16_MAX

(* A scan in progress: the bit-rate so far and the keys counted. *)
Blank == [bitrate |-> Index(0), count |-> {}, ok |-> TRUE]

(* A value is stored before its key is found to be there a second time.   *)
Pair(scan, pair) ==
  LET key == pair[1]
      number == pair[2]
      Stored(b) == CASE key = "f_clock"     -> [b EXCEPT !.frequency = number]
                     [] key = "f_clock_mhz" -> [b EXCEPT !.frequency = number * MHz]
                     [] OTHER               -> [b EXCEPT !.timing[key] = number]
  IN  IF ~scan.ok \/ number > Limit(key) THEN [scan EXCEPT !.ok = FALSE]
      ELSE [scan EXCEPT !.ok = Counter(key) \notin scan.count,
                        !.count = @ \cup {Counter(key)},
                        !.bitrate = Stored(@)]

Scanned(scan) == scan.ok /\ scan.bitrate.frequency >= 1

HasData(scan) == scan.count \cap DataKeys # {}

HasSam(scan) == "nom_sam" \in scan.count

scan_bitrate(string) ==
  LET scan_[i \in 0 .. Len(string)] == IF i = 0 THEN Blank ELSE Pair(scan_[i - 1], string[i])
  IN  scan_[Len(string)]

Value(b, key) == <<key, b.timing[key]>>

print_bitrate(b, data, sam) ==
  << <<"f_clock", b.frequency>>, Value(b, "nom_brp"), Value(b, "nom_tseg1"),
     Value(b, "nom_tseg2"), Value(b, "nom_sjw") >>
    \o (IF sam THEN <<Value(b, "nom_sam")>> ELSE <<>>)
    \o (IF data THEN << Value(b, "data_brp"), Value(b, "data_tseg1"),
                        Value(b, "data_tseg2"), Value(b, "data_sjw") >> ELSE <<>>)
-------------------------------------------------------------------------------
(* The bit-rates that the programs list for an operation mode. *)

Nominal(clock, brp, tseg1, tseg2, sjw) ==
  [frequency |-> clock,
   timing |-> [NoTiming EXCEPT !.nom_brp = brp, !.nom_tseg1 = tseg1, !.nom_tseg2 = tseg2,
                               !.nom_sjw = sjw]]

WithData(b, brp, tseg1, tseg2, sjw) ==
  [b EXCEPT !.timing.data_brp = brp, !.timing.data_tseg1 = tseg1, !.timing.data_tseg2 = tseg2,
            !.timing.data_sjw = sjw]

SJA1000_BR ==
  {Nominal(FREQ_SJA1000, 1, 5, 2, 1), Nominal(FREQ_SJA1000, 1, 7, 2, 1)}
    \cup {Nominal(FREQ_SJA1000, brp, 13, 2, 1) : brp \in {1, 2, 4}}
    \cup {Nominal(FREQ_SJA1000, brp, 13, 2, 2) : brp \in {5, 10, 25, 50}}

(* 1M, 500K, 250K and 125K: n = 1, 2, 4, 8. *)
DEFAULT_CAN_FD_BR(n) == Nominal(80000000, 2, 32 * n - 1, 8 * n, 8 * n)

ListCanBitrates(m) ==
  IF "fdoe" \notin m THEN SJA1000_BR
  ELSE IF "brse" \notin m THEN {DEFAULT_CAN_FD_BR(n) : n \in {1, 2, 4, 8}}
  ELSE {WithData(DEFAULT_CAN_FD_BR(n), 2, 4 * n - 1, n, n) : n \in {1, 2, 4, 8}}

(* A line of the list.  The samples per bit are a matter of CAN CC. *)
Listed(b, m) == print_bitrate(b, "brse" \in m, "fdoe" \notin m)
-------------------------------------------------------------------------------
VARIABLES
  text,   \* the pairs of the string scanned so far, in any order (ghost)
  scan,   \* the scan of it, or the index taken
  phase,  \* "scanning", "refused", "known", "stopped", "running"
  mode,   \* fdoe and brse of the handle
  driver  \* the register or the string that the driver was given

btrVars == <<text, scan, phase, mode, driver>>

Modes == { {}, {"fdoe"}, {"fdoe", "brse"} }

BtrInit ==
  /\ text = {}
  /\ scan = Blank
  /\ phase = "scanning"
  /\ mode = {}
  /\ driver = <<>>

ScanPair(key, number) ==
  /\ phase = "scanning"
  /\ scan' = Pair(scan, <<key, number>>)
  /\ phase' = IF scan'.ok THEN phase ELSE "refused"
  /\ text' = text \cup {<<key, number>>}
  /\ UNCHANGED <<mode, driver>>

(* The text is no list of keys and numbers, or a key is not known. *)
ScanOther ==
  /\ phase = "scanning"
  /\ phase' = "refused"
  /\ UNCHANGED <<text, scan, mode, driver>>

ScanEnd ==
  /\ phase = "scanning"
  /\ phase' = IF Scanned(scan) THEN "known" ELSE "refused"
  /\ UNCHANGED <<text, scan, mode, driver>>

TakeIndex(i) ==
  /\ phase = "scanning" /\ text = {}
  /\ scan' = [Blank EXCEPT !.bitrate = Index(i)]
  /\ phase' = "known"
  /\ UNCHANGED <<text, mode, driver>>

(* A line of the list is what the user types. *)
TakeListed(b, m) ==
  /\ phase = "scanning" /\ text = {}
  /\ text' = ToSet(Listed(b, m))
  /\ scan' = scan_bitrate(Listed(b, m))
  /\ phase' = IF Scanned(scan') THEN "known" ELSE "refused"
  /\ UNCHANGED <<mode, driver>>

Frequencies == {80000000, 60000000, 40000000, 30000000, 24000000, 20000000}

(* The checks of can_start, and what it gives the driver. *)
Startable(b, m) ==
  IF b.frequency <= 0 THEN b.frequency \in -8..0 /\ "fdoe" \notin m
  ELSE IF "fdoe" \notin m THEN HasRegister(b)
  ELSE b.frequency \in Frequencies /\ btr_check_bitrate(b, TRUE, "brse" \in m)

(* Mutant: the data phase is always left out. *)
Setting_nodata(b, m) ==
  IF b.frequency <= 0 THEN <<PCAN_BAUD[1 - b.frequency]>>
  ELSE IF "fdoe" \notin m THEN <<btr_bitrate2sja1000(b)>>
  ELSE print_bitrate(b, FALSE, FALSE)

Setting(b, m) ==
  IF b.frequency <= 0 THEN <<PCAN_BAUD[1 - b.frequency]>>
  ELSE IF "fdoe" \notin m THEN <<btr_bitrate2sja1000(b)>>
  ELSE print_bitrate(b, "brse" \in m, FALSE)

can_start(m) ==
  /\ phase = "known"
  /\ mode' = m
  /\ IF Startable(scan.bitrate, m)
     THEN phase' = "running" /\ driver' = Setting(scan.bitrate, m)
     ELSE phase' = "stopped" /\ UNCHANGED driver
  /\ UNCHANGED <<text, scan>>

(* What can_bitrate makes of the driver's setting. *)
Reported ==
  IF "fdoe" \in mode THEN scan_bitrate(driver).bitrate
  ELSE btr_sja10002bitrate(driver[1])

BtrNext ==
  \/ \E key \in Keys : \E number \in Numbers[key] : ScanPair(key, number)
  \/ ScanOther
  \/ ScanEnd
  \/ \E i \in -Entries .. 0 : TakeIndex(i)
  \/ \E m \in Modes : \E b \in ListCanBitrates(m) : TakeListed(b, m)
  \/ \E m \in Modes : can_start(m)

BtrSpec == BtrInit /\ [][BtrNext]_btrVars
-------------------------------------------------------------------------------
(* Type correctness: every field of a bit-rate has its width. *)
BtrTypeOK ==
  /\ phase \in {"scanning", "refused", "known", "stopped", "running"}
  /\ mode \in Modes
  /\ scan.bitrate.frequency \in -Entries .. INT32_MAX
  /\ DOMAIN scan.bitrate.timing = DOMAIN NoTiming
  /\ \A key \in DOMAIN NoTiming : scan.bitrate.timing[key] \in 0..UINT16_MAX
  /\ scan.bitrate.timing.nom_sam \in 0..UINT8_MAX

(* An accepted string says each value once, in whichever order: no value   *)
(* overrides another, and what the string does not say is zero.            *)
StringRead ==
  LET Says(key) == {pair[2] : pair \in {p \in text : p[1] = key}}
      Hertz == Says("f_clock") \cup {MHz * mhz : mhz \in Says("f_clock_mhz")}
      b == scan.bitrate
  IN  phase = "known" /\ b.frequency > 0 =>
        /\ Hertz = {b.frequency}
        /\ \A key \in DOMAIN NoTiming :
              Says(key) = {b.timing[key]} \/ (Says(key) = {} /\ b.timing[key] = 0)

(* A bit-rate printed with the flags its scan returned scans to itself.    *)
StringKeeps ==
  LET again == scan_bitrate(print_bitrate(scan.bitrate, HasData(scan), HasSam(scan))) IN
  phase = "known" /\ scan.bitrate.frequency > 0 =>
    /\ Scanned(again)
    /\ again.bitrate = scan.bitrate
    /\ HasData(again) = HasData(scan) /\ HasSam(again) = HasSam(scan)

(* The conversion of strings loses nothing, in either direction. *)
StringKept == BtrTypeOK /\ StringRead /\ StringKeeps

(* What can_bitrate reports of a running controller is what can_start was  *)
(* asked for: the timing values, through the register or the string of the *)
(* driver, and for an index the values that the table of can_btr.c, which  *)
(* the programs print, has for it, although can_start has a second table.  *)
RunsAsAsked ==
  LET b == scan.bitrate
      Kept == NominalKeys \cup (IF "fdoe" \notin mode THEN {"nom_sam"}
                                ELSE IF "brse" \in mode THEN DataKeys ELSE {})
  IN  phase = "running" =>
        IF b.frequency > 0
        THEN /\ Reported.frequency = b.frequency
             /\ \A key \in Kept : Reported.timing[key] = b.timing[key]
        ELSE Reported = btr_index2bitrate(b.frequency)

(* A line of the list of bit-rates can be typed in, also in another order, *)
(* and starts in the mode it is listed for; one of CAN CC is that of an    *)
(* index, although the list is made from a third table.                    *)
ListedStarts ==
  \A m \in Modes : \A l \in ListCanBitrates(m) :
    text = ToSet(Listed(l, m)) =>
      /\ Scanned(scan_bitrate(Listed(l, m)))
      /\ phase \in {"known", "stopped", "running"} =>
           Startable(scan.bitrate, m) /\ (m = {} => btr_bitrate2index(scan.bitrate) # {})

(* A bit-rate that is listed can be started, and one that runs is the one  *)
(* that was asked for: three tables and two conversions agree.             *)
ReportedAsStarted == RunsAsAsked /\ ListedStarts

Sign(n) == IF n < 0 THEN -1 ELSE IF n = 0 THEN 0 ELSE 1

(* The comparison is an order: swapping its sides swaps its sign, for      *)
(* known and unknown indexes and timing values alike, and it never         *)
(* contradicts the exact speeds, however it rounds; those are computed     *)
(* here for frequencies of whole MHz, as all clocks of the driver are.     *)
CompareOrders ==
  LET b == scan.bitrate
      Slots(x) == Prescaler(x, "nom") * Quanta(x, "nom")
      Exact(x, y) == Sign((x.frequency \div MHz) * Slots(y)
                            - (y.frequency \div MHz) * Slots(x))
      Compared(x, y) == btr_compare_bitrates(x, y, FALSE, FALSE)
  IN  phase = "known" =>
        \A i \in -Entries .. 0 :
          /\ \A fd, sp \in BOOLEAN :
               btr_compare_bitrates(b, Index(i), fd, sp)
                 = -btr_compare_bitrates(Index(i), b, fd, sp)
          /\ (/\ Known(b) /\ HasIndex(i) /\ Prescaler(Settings(b), "nom") > 0
              /\ Settings(b).frequency % MHz = 0) =>
               Sign(Compared(b, Index(i))) \in {0, Exact(Settings(b), btr_index2bitrate(i))}
===============================================================================
