---------------------------- MODULE OptionsProofs ----------------------------
(***************************************************************************)
(* What the nine parsers make of every command line: for any number of     *)
(* words in any order, any lengths, and each of the build options.         *)
(***************************************************************************)
EXTENDS Options, FiniteSetTheorems, TLAPS

(***************************************************************************)
(* The rows of the tables.                                                 *)
(***************************************************************************)

(* The counter of the options that set an item, apart from --verbose. *)
Owner(item) ==
  IF item \in {"fdoe", "brse"} THEN "mode"
  ELSE IF item = "shrd" THEN "shared"
  ELSE IF item = "err" THEN "error_frames"
  ELSE IF item = "mon" THEN "listen_only"
  ELSE IF item = "nxtd" THEN "extended_frames"
  ELSE IF item = "nrtr" THEN "remote_frames"
  ELSE IF item = "accepted" THEN "risks"
  ELSE IF item = "delay" THEN "cycle"
  ELSE IF item = "xtd" THEN "extended"
  ELSE item

(* What an argument v of an option o sets, in the parsers of can_test      *)
(* ("test") and in the other ones: an item goes through the counter that   *)
(* owns it, and the items that a check reads have the values it knows.     *)
Owned(o, counter, v, item) ==
  \/ o = "verbose" /\ v = none /\ item = "verbose"
  \/ counter # "uncounted" /\ item # "verbose" /\ Owner(item) = counter
  \/ o = "list_bitrates" /\ v # none /\ Owner(item) = "mode"

Ruled(kind, o, counter, v, sets) ==
  /\ \A item \in DOMAIN sets :
       \/ item = "exit"
       \/ kind = "test" /\ item \in {"test", "time", "count", "dlc"}
       \/ Owned(o, counter, v, item)
  /\ "bitrate" \in DOMAIN sets =>
       /\ sets["bitrate"] = v /\ v \in {"index", "timing"}
       /\ v = "timing" => o = "bitrate"
  /\ kind = "test" /\ "dlc" \in DOMAIN sets => o = "dlc" /\ v \in Lengths /\ sets["dlc"] = v
  /\ kind = "test" /\ "test" \in DOMAIN sets =>
       /\ sets["test"] \in {"rx", "time", "frames", "random"}
       /\ sets["test"] = "time" => "time" \in DOMAIN sets
       /\ sets["test"] \in {"frames", "random"} => "count" \in DOMAIN sets
  /\ o = "dlc" => "dlc" \in DOMAIN sets
  /\ "fdoe" \in DOMAIN sets => o \in {"mode", "list_bitrates"}

RowRuled(kind, o, row) ==
  /\ \A v \in DOMAIN row.legal : Ruled(kind, o, row.counter, v, row.legal[v])
  /\ o = "mode" => row.counter = "mode"
  /\ o = "dlc" <=> row.counter = "dlc"
  /\ o = "random" => kind = "test"

TableRuled(kind, table) == \A o \in DOMAIN table : RowRuled(kind, o, table[o])

(* An option of the usual kind. *)
Plain(o, counter, item) ==
  /\ o \notin {"verbose", "mode", "dlc", "random"}
  /\ counter \notin {"uncounted", "dlc"}
  /\ item \notin {"verbose", "bitrate", "dlc", "test", "fdoe"}
  /\ Owner(item) = counter

LEMMA OptionIs ==
  ASSUME NEW counter, NEW legal
  PROVE  Option(counter, legal).counter = counter /\ Option(counter, legal).legal = legal
PROOF
  BY Zenon DEF Option

LEMMA SettingIs ==
  ASSUME NEW item, NEW value
  PROVE  DOMAIN Setting(item, value) = {item} /\ Setting(item, value)[item] = value
PROOF
  BY DEF Setting

LEMMA BothAre ==
  ASSUME NEW a, NEW b
  PROVE  /\ DOMAIN (a ++ b) = DOMAIN a \cup DOMAIN b
         /\ \A x \in DOMAIN a : (a ++ b)[x] = a[x]
         /\ \A x \in DOMAIN b : x \notin DOMAIN a => (a ++ b)[x] = b[x]
PROOF
  BY DEF ++

(* Whatever the values are. *)
LEMMA PlainRow ==
  ASSUME NEW kind, NEW o, NEW counter, NEW item, NEW legal, Plain(o, counter, item),
         \A v \in DOMAIN legal : DOMAIN legal[v] \subseteq {item, "exit"}
  PROVE  RowRuled(kind, o, Option(counter, legal))
PROOF
  <1>1. ASSUME NEW v \in DOMAIN legal PROVE Ruled(kind, o, counter, v, legal[v])
    <2>1. PICK sets : sets = legal[v]
      OBVIOUS
    <2>2. \A x \in DOMAIN sets : x = item \/ x = "exit"
      BY <2>1
    <2>3. /\ "bitrate" \notin DOMAIN sets /\ "dlc" \notin DOMAIN sets
          /\ "test" \notin DOMAIN sets /\ "fdoe" \notin DOMAIN sets
      BY <2>2 DEF Plain
    <2>4. Owned(o, counter, v, item)
      BY Zenon DEF Owned, Plain
    <2>5. o # "dlc"
      BY DEF Plain
    <2>6. Ruled(kind, o, counter, v, sets)
      BY <2>2, <2>3, <2>4, <2>5, Zenon DEF Ruled
    <2> QED
      BY <2>1, <2>6
  <1>2. o # "mode" /\ o # "dlc" /\ o # "random" /\ counter # "dlc"
    BY DEF Plain
  <1>3. PICK row : row = Option(counter, legal)
    OBVIOUS
  <1>4. row.counter = counter /\ row.legal = legal
    BY <1>3, OptionIs
  <1>5. RowRuled(kind, o, row)
    BY <1>1, <1>2, <1>4, Zenon DEF RowRuled
  <1> QED
    BY <1>3, <1>5

LEMMA PlainRows ==
  ASSUME NEW kind, NEW o, NEW counter, NEW item, Plain(o, counter, item)
  PROVE  /\ RowRuled(kind, o, Flag(counter, item))
         /\ \A values : RowRuled(kind, o, Choice(counter, item, values))
         /\ \A on : RowRuled(kind, o, Switch(counter, item, on))
         /\ counter = item => RowRuled(kind, o, Leaving(item)) /\ RowRuled(kind, o, Ignoring(item))
PROOF
  <1>1. RowRuled(kind, o, Flag(counter, item))
    <2> DEFINE legal == Setting(none, Setting(item, TRUE))
    <2>1. \A v \in DOMAIN legal : DOMAIN legal[v] \subseteq {item, "exit"}
      BY DEF Setting
    <2> HIDE DEF legal
    <2>2. RowRuled(kind, o, Option(counter, legal))
      BY <2>1, PlainRow
    <2> QED
      BY <2>2 DEF Flag, legal
  <1>2. ASSUME NEW values PROVE RowRuled(kind, o, Choice(counter, item, values))
    <2> DEFINE legal == [v \in values |-> Setting(item, v)]
    <2>1. \A v \in DOMAIN legal : DOMAIN legal[v] \subseteq {item, "exit"}
      BY DEF Setting
    <2> HIDE DEF legal
    <2>2. RowRuled(kind, o, Option(counter, legal))
      BY <2>1, PlainRow
    <2> QED
      BY <2>2 DEF Choice, legal
  <1>3. ASSUME NEW on PROVE RowRuled(kind, o, Switch(counter, item, on))
    <2> DEFINE legal == [v \in {"yes", "no"} |-> Setting(item, v = on)]
    <2>1. \A v \in DOMAIN legal : DOMAIN legal[v] \subseteq {item, "exit"}
      BY DEF Setting
    <2> HIDE DEF legal
    <2>2. RowRuled(kind, o, Option(counter, legal))
      BY <2>1, PlainRow
    <2> QED
      BY <2>2, Zenon DEF Switch, legal
  <1>4. DOMAIN Quit(item) = {item, "exit"}
    BY DEF Quit, Setting, ++
  <1>5. ASSUME counter = item
        PROVE  RowRuled(kind, o, Leaving(item)) /\ RowRuled(kind, o, Ignoring(item))
    <2> DEFINE first == Setting(none, Quit(item))
               second == [v \in {none, bad} |-> Quit(item)]
    <2>1. \A v \in DOMAIN first : DOMAIN first[v] \subseteq {item, "exit"}
      BY <1>4 DEF Setting
    <2>2. \A v \in DOMAIN second : DOMAIN second[v] \subseteq {item, "exit"}
      BY <1>4
    <2> HIDE DEF first, second
    <2>3. RowRuled(kind, o, Option(counter, first)) /\ RowRuled(kind, o, Option(counter, second))
      BY <2>1, <2>2, PlainRow
    <2> QED
      BY <1>5, <2>3 DEF Leaving, Ignoring, first, second
  <1> QED
    BY <1>1, <1>2, <1>3, <1>5

(***************************************************************************)
(* The tables, part by part.                                               *)
(***************************************************************************)
LEMMA TablesMerged ==
  ASSUME NEW kind, NEW a, NEW b, TableRuled(kind, a), TableRuled(kind, b)
  PROVE  TableRuled(kind, a ++ b)
PROOF
  <1>1. PICK t : t = a ++ b
    OBVIOUS
  <1>2. /\ DOMAIN t = DOMAIN a \cup DOMAIN b
        /\ \A x \in DOMAIN a : t[x] = a[x]
        /\ \A x \in DOMAIN b : x \notin DOMAIN a => t[x] = b[x]
    BY <1>1 DEF ++
  <1>3. TableRuled(kind, t)
    BY <1>2, Zenon DEF TableRuled
  <1> QED
    BY <1>1, <1>3

LEMMA TableBuilt ==
  ASSUME NEW kind, NEW supported, NEW table, TableRuled(kind, table)
  PROVE  TableRuled(kind, Built(supported, table))
PROOF
  <1>1. TableRuled(kind, <<>>)
    BY DEF TableRuled
  <1> QED
    BY <1>1, Zenon DEF Built

LEMMA SharedAccessRuled ==
  ASSUME NEW kind
  PROVE  TableRuled(kind, SharedAccess)
PROOF
  <1> DEFINE table == [shared |-> Flag("shared", "shrd")]
  <1>1. RowRuled(kind, "shared", table["shared"])
    <2>1. Plain("shared", "shared", "shrd")
      BY DEF Plain, Owner
    <2>2. RowRuled(kind, "shared", Flag("shared", "shrd"))
      BY <2>1, PlainRows
    <2> QED
      BY <2>2
  <1>2. DOMAIN table = {"shared"}
    OBVIOUS
  <1> HIDE DEF table
  <1>3. TableRuled(kind, table)
    BY <1>1, <1>2, Zenon DEF TableRuled
  <1> QED
    BY <1>3, TableBuilt DEF SharedAccess, table

LEMMA ErrorFramesRuled ==
  ASSUME NEW kind
  PROVE  TableRuled(kind, ErrorFrames)
PROOF
  <1>1. RowRuled(kind, "error_frames", ErrorFrames["error_frames"])
    <2>1. Plain("error_frames", "error_frames", "err")
      BY DEF Plain, Owner
    <2>2. RowRuled(kind, "error_frames", Flag("error_frames", "err"))
      BY <2>1, PlainRows
    <2> QED
      BY <2>2 DEF ErrorFrames
  <1>2. DOMAIN ErrorFrames = {"error_frames"}
    BY DEF ErrorFrames
  <1> QED
    BY <1>1, <1>2, Zenon DEF TableRuled

LEMMA ListenOnlyRuled ==
  ASSUME NEW kind
  PROVE  TableRuled(kind, ListenOnly)
PROOF
  <1>1. RowRuled(kind, "listen_only", ListenOnly["listen_only"])
    <2>1. Plain("listen_only", "listen_only", "mon")
      BY DEF Plain, Owner
    <2>2. RowRuled(kind, "listen_only", Flag("listen_only", "mon"))
      BY <2>1, PlainRows
    <2> QED
      BY <2>2 DEF ListenOnly
  <1>2. DOMAIN ListenOnly = {"listen_only"}
    BY DEF ListenOnly
  <1> QED
    BY <1>1, <1>2, Zenon DEF TableRuled

LEMMA SuppressRuled ==
  ASSUME NEW kind
  PROVE  TableRuled(kind, Suppress)
PROOF
  <1>1. RowRuled(kind, "no_extended_frames", Suppress["no_extended_frames"])
    <2>1. Plain("no_extended_frames", "extended_frames", "nxtd")
      BY DEF Plain, Owner
    <2>2. RowRuled(kind, "no_extended_frames", Flag("extended_frames", "nxtd"))
      BY <2>1, PlainRows
    <2> QED
      BY <2>2 DEF Suppress
  <1>2. RowRuled(kind, "no_remote_frames", Suppress["no_remote_frames"])
    <2>1. Plain("no_remote_frames", "remote_frames", "nrtr")
      BY DEF Plain, Owner
    <2>2. RowRuled(kind, "no_remote_frames", Flag("remote_frames", "nrtr"))
      BY <2>1, PlainRows
    <2> QED
      BY <2>2 DEF Suppress
  <1>3. DOMAIN Suppress = {"no_extended_frames", "no_remote_frames"}
    BY DEF Suppress
  <1> QED
    BY <1>1, <1>2, <1>3, Zenon DEF TableRuled

LEMMA ErrorSwitchRuled ==
  ASSUME NEW kind
  PROVE  TableRuled(kind, ErrorSwitch)
PROOF
  <1>1. RowRuled(kind, "err", ErrorSwitch["err"])
    <2>1. Plain("err", "error_frames", "err")
      BY DEF Plain, Owner
    <2>2. RowRuled(kind, "err", Switch("error_frames", "err", "yes"))
      BY <2>1, PlainRows
    <2> QED
      BY <2>2 DEF ErrorSwitch
  <1>2. DOMAIN ErrorSwitch = {"err"}
    BY DEF ErrorSwitch
  <1> QED
    BY <1>1, <1>2, Zenon DEF TableRuled

LEMMA MonSwitchRuled ==
  ASSUME NEW kind
  PROVE  TableRuled(kind, MonSwitch)
PROOF
  <1>1. RowRuled(kind, "mon", MonSwitch["mon"])
    <2>1. Plain("mon", "listen_only", "mon")
      BY DEF Plain, Owner
    <2>2. RowRuled(kind, "mon", Switch("listen_only", "mon", "yes"))
      BY <2>1, PlainRows
    <2> QED
      BY <2>2 DEF MonSwitch
  <1>2. DOMAIN MonSwitch = {"mon"}
    BY DEF MonSwitch
  <1> QED
    BY <1>1, <1>2, Zenon DEF TableRuled

LEMMA SuppressSwitchesRuled ==
  ASSUME NEW kind
  PROVE  TableRuled(kind, SuppressSwitches)
PROOF
  <1>1. RowRuled(kind, "xtd", SuppressSwitches["xtd"])
    <2>1. Plain("xtd", "extended_frames", "nxtd")
      BY DEF Plain, Owner
    <2>2. RowRuled(kind, "xtd", Switch("extended_frames", "nxtd", "no"))
      BY <2>1, PlainRows
    <2> QED
      BY <2>2 DEF SuppressSwitches
  <1>2. RowRuled(kind, "rtr", SuppressSwitches["rtr"])
    <2>1. Plain("rtr", "remote_frames", "nrtr")
      BY DEF Plain, Owner
    <2>2. RowRuled(kind, "rtr", Switch("remote_frames", "nrtr", "no"))
      BY <2>1, PlainRows
    <2> QED
      BY <2>2 DEF SuppressSwitches
  <1>3. DOMAIN SuppressSwitches = {"xtd", "rtr"}
    BY DEF SuppressSwitches
  <1> QED
    BY <1>1, <1>2, <1>3, Zenon DEF TableRuled

LEMMA FiltersRuled ==
  ASSUME NEW kind
  PROVE  TableRuled(kind, Filters)
PROOF
  <1>1. RowRuled(kind, "code", Filters["code"])
    <2>1. Plain("code", "code", "code")
      BY DEF Plain, Owner
    <2>2. RowRuled(kind, "code", Choice("code", "code", {"id"}))
      BY <2>1, PlainRows
    <2> QED
      BY <2>2 DEF Filters
  <1>2. RowRuled(kind, "mask", Filters["mask"])
    <2>1. Plain("mask", "mask", "mask")
      BY DEF Plain, Owner
    <2>2. RowRuled(kind, "mask", Choice("mask", "mask", {"id"}))
      BY <2>1, PlainRows
    <2> QED
      BY <2>2 DEF Filters
  <1>3. RowRuled(kind, "xtd_code", Filters["xtd_code"])
    <2>1. Plain("xtd_code", "xtd_code", "xtd_code")
      BY DEF Plain, Owner
    <2>2. RowRuled(kind, "xtd_code", Choice("xtd_code", "xtd_code", {"id"}))
      BY <2>1, PlainRows
    <2> QED
      BY <2>2 DEF Filters
  <1>4. RowRuled(kind, "xtd_mask", Filters["xtd_mask"])
    <2>1. Plain("xtd_mask", "xtd_mask", "xtd_mask")
      BY DEF Plain, Owner
    <2>2. RowRuled(kind, "xtd_mask", Choice("xtd_mask", "xtd_mask", {"id"}))
      BY <2>1, PlainRows
    <2> QED
      BY <2>2 DEF Filters
  <1>5. DOMAIN Filters = {"code", "mask", "xtd_code", "xtd_mask"}
    BY DEF Filters
  <1> QED
    BY <1>1, <1>2, <1>3, <1>4, <1>5, Zenon DEF TableRuled

LEMMA TraceModeRuled ==
  ASSUME NEW kind
  PROVE  TableRuled(kind, TraceMode)
PROOF
  <1> DEFINE table == [trace |-> Choice("trace", "trace", {"off", "vendor"})]
  <1>1. RowRuled(kind, "trace", table["trace"])
    <2>1. Plain("trace", "trace", "trace")
      BY DEF Plain, Owner
    <2>2. RowRuled(kind, "trace", Choice("trace", "trace", {"off", "vendor"}))
      BY <2>1, PlainRows
    <2> QED
      BY <2>2
  <1>2. DOMAIN table = {"trace"}
    OBVIOUS
  <1> HIDE DEF table
  <1>3. TableRuled(kind, table)
    BY <1>1, <1>2, Zenon DEF TableRuled
  <1> QED
    BY <1>3, TableBuilt DEF TraceMode, table

LEMMA LayoutRuled ==
  ASSUME NEW kind
  PROVE  TableRuled(kind, Layout)
PROOF
  <1>1. RowRuled(kind, "time", Layout["time"])
    <2>1. Plain("time", "time", "time")
      BY DEF Plain, Owner
    <2>2. RowRuled(kind, "time", Choice("time", "time", {"abs", "rel", "zero"}))
      BY <2>1, PlainRows
    <2> QED
      BY <2>2 DEF Layout
  <1>2. RowRuled(kind, "id", Layout["id"])
    <2>1. Plain("id", "id", "id")
      BY DEF Plain, Owner
    <2>2. RowRuled(kind, "id", Choice("id", "id", {"hex", "dec", "oct"}))
      BY <2>1, PlainRows
    <2> QED
      BY <2>2 DEF Layout
  <1>3. RowRuled(kind, "data", Layout["data"])
    <2>1. Plain("data", "data", "data")
      BY DEF Plain, Owner
    <2>2. RowRuled(kind, "data", Choice("data", "data", {"hex", "dec", "oct"}))
      BY <2>1, PlainRows
    <2> QED
      BY <2>2 DEF Layout
  <1>4. RowRuled(kind, "ascii", Layout["ascii"])
    <2>1. Plain("ascii", "ascii", "ascii")
      BY DEF Plain, Owner
    <2>2. RowRuled(kind, "ascii", Choice("ascii", "ascii", {"on", "off"}))
      BY <2>1, PlainRows
    <2> QED
      BY <2>2 DEF Layout
  <1>5. RowRuled(kind, "wrap", Layout["wrap"])
    <2>1. Plain("wrap", "wrap", "wrap")
      BY DEF Plain, Owner
    <2>2. RowRuled(kind, "wrap", Choice("wrap", "wrap", {"no", "8", "10", "16", "32", "64"}))
      BY <2>1, PlainRows
    <2> QED
      BY <2>2 DEF Layout
  <1>6. DOMAIN Layout = {"time", "id", "data", "ascii", "wrap"}
    BY DEF Layout
  <1> QED
    BY <1>1, <1>2, <1>3, <1>4, <1>5, <1>6, Zenon DEF TableRuled

LEMMA ExclusionRuled ==
  ASSUME NEW kind
  PROVE  TableRuled(kind, Exclusion)
PROOF
  <1>1. RowRuled(kind, "exclude", Exclusion["exclude"])
    <2>1. Plain("exclude", "exclude", "exclude")
      BY DEF Plain, Owner
    <2>2. RowRuled(kind, "exclude", Choice("exclude", "exclude", {"ids"}))
      BY <2>1, PlainRows
    <2> QED
      BY <2>2 DEF Exclusion
  <1>2. DOMAIN Exclusion = {"exclude"}
    BY DEF Exclusion
  <1> QED
    BY <1>1, <1>2, Zenon DEF TableRuled

LEMMA ServerRuled ==
  ASSUME NEW kind
  PROVE  TableRuled(kind, Server)
PROOF
  <1>1. RowRuled(kind, "logging", Server["logging"])
    <2>1. Plain("logging", "logging", "logging")
      BY DEF Plain, Owner
    <2>2. RowRuled(kind, "logging", Choice("logging", "logging", {"level"}))
      BY <2>1, PlainRows
    <2> QED
      BY <2>2 DEF Server
  <1>2. RowRuled(kind, "security_risks", Server["security_risks"])
    <2>1. Plain("security_risks", "risks", "accepted")
      BY DEF Plain, Owner
    <2>2. RowRuled(kind, "security_risks", Choice("risks", "accepted", {"accept", bad}))
      BY <2>1, PlainRows
    <2> QED
      BY <2>2 DEF Server
  <1>3. DOMAIN Server = {"logging", "security_risks"}
    BY DEF Server
  <1> QED
    BY <1>1, <1>2, <1>3, Zenon DEF TableRuled

(* The other options, one by one. *)
LEMMA RowIs ==
  ASSUME NEW kind, NEW o, NEW counter, NEW legal,
         \A v \in DOMAIN legal : Ruled(kind, o, counter, v, legal[v]),
         o = "mode" => counter = "mode", o = "dlc" <=> counter = "dlc",
         o = "random" => kind = "test"
  PROVE  RowRuled(kind, o, Option(counter, legal))
PROOF
  <1>1. PICK row : row = Option(counter, legal)
    OBVIOUS
  <1>2. row.counter = counter /\ row.legal = legal
    BY <1>1, OptionIs
  <1>3. RowRuled(kind, o, row)
    BY <1>2, Zenon DEF RowRuled
  <1> QED
    BY <1>1, <1>3

LEMMA RatesRuled ==
  ASSUME NEW kind
  PROVE  TableRuled(kind, Rates)
PROOF
  <1>1. RowRuled(kind, "baudrate", Choice("bitrate", "bitrate", {"index"}))
    <2> DEFINE legal == [v \in {"index"} |-> Setting("bitrate", v)]
    <2>1. ASSUME NEW v \in DOMAIN legal PROVE Ruled(kind, "baudrate", "bitrate", v, legal[v])
      <3>1. v = "index" /\ legal[v] = Setting("bitrate", v)
        OBVIOUS
      <3>2. PICK sets : sets = Setting("bitrate", v)
        OBVIOUS
      <3>3. DOMAIN sets = {"bitrate"} /\ sets["bitrate"] = v
        BY <3>2, SettingIs
      <3>4. Ruled(kind, "baudrate", "bitrate", v, sets)
        BY <3>1, <3>3 DEF Ruled, Owned, Owner
      <3> QED
        BY <3>1, <3>2, <3>4
    <2> HIDE DEF legal
    <2>2. RowRuled(kind, "baudrate", Option("bitrate", legal))
      BY <2>1, RowIs
    <2> QED
      BY <2>2 DEF Choice, legal
  <1>2. RowRuled(kind, "bitrate", Choice("bitrate", "bitrate", {"timing"}))
    <2> DEFINE legal == [v \in {"timing"} |-> Setting("bitrate", v)]
    <2>1. ASSUME NEW v \in DOMAIN legal PROVE Ruled(kind, "bitrate", "bitrate", v, legal[v])
      <3>1. v = "timing" /\ legal[v] = Setting("bitrate", v)
        OBVIOUS
      <3>2. PICK sets : sets = Setting("bitrate", v)
        OBVIOUS
      <3>3. DOMAIN sets = {"bitrate"} /\ sets["bitrate"] = v
        BY <3>2, SettingIs
      <3>4. Ruled(kind, "bitrate", "bitrate", v, sets)
        BY <3>1, <3>3 DEF Ruled, Owned, Owner
      <3> QED
        BY <3>1, <3>2, <3>4
    <2> HIDE DEF legal
    <2>2. RowRuled(kind, "bitrate", Option("bitrate", legal))
      BY <2>1, RowIs
    <2> QED
      BY <2>2 DEF Choice, legal
  <1>3. DOMAIN Rates = {"baudrate", "bitrate"}
    BY DEF Rates
  <1>4. /\ Rates["baudrate"] = Choice("bitrate", "bitrate", {"index"})
        /\ Rates["bitrate"] = Choice("bitrate", "bitrate", {"timing"})
    BY DEF Rates
  <1> QED
    BY <1>1, <1>2, <1>3, <1>4, Zenon DEF TableRuled

LEMMA VerboseRuled ==
  ASSUME NEW kind
  PROVE  TableRuled(kind, Verbose)
PROOF
  <1>1. RowRuled(kind, "verbose", Flag("uncounted", "verbose"))
    <2> DEFINE legal == Setting(none, Setting("verbose", TRUE))
    <2>1. ASSUME NEW v \in DOMAIN legal PROVE Ruled(kind, "verbose", "uncounted", v, legal[v])
      <3>1. v = none /\ legal[v] = Setting("verbose", TRUE)
        BY DEF Setting
      <3>2. PICK sets : sets = Setting("verbose", TRUE)
        OBVIOUS
      <3>3. DOMAIN sets = {"verbose"}
        BY <3>2, SettingIs
      <3>4. Ruled(kind, "verbose", "uncounted", v, sets)
        BY <3>1, <3>3 DEF Ruled, Owned
      <3> QED
        BY <3>1, <3>2, <3>4, Zenon
    <2> HIDE DEF legal
    <2>2. RowRuled(kind, "verbose", Option("uncounted", legal))
      BY <2>1, RowIs
    <2> QED
      BY <2>2 DEF Flag, legal
  <1>2. DOMAIN Verbose = {"verbose"} /\ Verbose["verbose"] = Flag("uncounted", "verbose")
    BY DEF Verbose
  <1> QED
    BY <1>1, <1>2, Zenon DEF TableRuled

LEMMA FormatsAre ==
  /\ DOMAIN Formats = {"cc", "fd", "brs"}
  /\ \A m \in DOMAIN Formats : DOMAIN Formats[m] \subseteq {"fdoe", "brse"}
PROOF
  <1>1. DOMAIN Formats = {"cc", "fd", "brs"}
    BY DEF Formats
  <1>2. DOMAIN Formats["cc"] = {} /\ DOMAIN Formats["fd"] = {"fdoe"}
        /\ DOMAIN Formats["brs"] = {"fdoe", "brse"}
    BY DEF Formats
  <1> QED
    BY <1>1, <1>2

LEMMA ModeRuled ==
  ASSUME NEW kind
  PROVE  TableRuled(kind, Mode)
PROOF
  <1>1. ASSUME NEW v \in DOMAIN Formats PROVE Ruled(kind, "mode", "mode", v, Formats[v])
    <2>1. PICK sets : sets = Formats[v]
      OBVIOUS
    <2>2. \A x \in DOMAIN sets : x \in {"fdoe", "brse"}
      BY <2>1, FormatsAre
    <2>3. Ruled(kind, "mode", "mode", v, sets)
      BY <2>2 DEF Ruled, Owned, Owner
    <2> QED
      BY <2>1, <2>3
  <1>2. RowRuled(kind, "mode", Option("mode", Formats))
    BY <1>1, RowIs
  <1>3. DOMAIN Mode = {"mode"} /\ Mode["mode"] = Option("mode", Formats)
    BY DEF Mode
  <1> QED
    BY <1>2, <1>3, Zenon DEF TableRuled

LEMMA ListingRuled ==
  ASSUME NEW kind
  PROVE  TableRuled(kind, Listing)
PROOF
  <1> DEFINE legal == [m \in DOMAIN Formats \cup {none} |->
                         (IF m = none THEN <<>> ELSE Formats[m]) ++ Quit("list_bitrates")]
             file == Setting("file", Quit("json"))
  <1>1. /\ DOMAIN Quit("list_bitrates") = {"list_bitrates", "exit"}
        /\ DOMAIN Quit("json") = {"json", "exit"}
    BY DEF Quit, Setting, ++
  <1>2. ASSUME NEW v \in DOMAIN legal
        PROVE  Ruled(kind, "list_bitrates", "list_bitrates", v, legal[v])
    <2> DEFINE format == IF v = none THEN <<>> ELSE Formats[v]
    <2>1. \A x \in DOMAIN format : v # none /\ x \in {"fdoe", "brse"}
      <3>1. v = none => DOMAIN format = {}
        OBVIOUS
      <3>2. v # none => v \in DOMAIN Formats /\ format = Formats[v]
        BY DEF legal
      <3> HIDE DEF format, legal
      <3> QED
        BY <3>1, <3>2, FormatsAre
    <2> HIDE DEF format
    <2>2. PICK sets : sets = format ++ Quit("list_bitrates")
      OBVIOUS
    <2>3. \A x \in DOMAIN sets : \/ v # none /\ x \in {"fdoe", "brse"}
                                 \/ x \in {"list_bitrates", "exit"}
      <3>1. DOMAIN sets = DOMAIN format \cup DOMAIN Quit("list_bitrates")
        BY <2>2, BothAre, Zenon
      <3> QED
        BY <1>1, <2>1, <3>1
    <2>4. Ruled(kind, "list_bitrates", "list_bitrates", v, sets)
      BY <2>3 DEF Ruled, Owned, Owner
    <2>5. legal[v] = sets
      BY <2>2 DEF format
    <2> QED
      BY <2>4, <2>5
  <1>3. ASSUME NEW v \in DOMAIN file PROVE Ruled(kind, "json", "json", v, file[v])
    <2>1. file[v] = Quit("json")
      BY DEF Setting
    <2>2. PICK sets : sets = Quit("json")
      OBVIOUS
    <2>3. \A x \in DOMAIN sets : x \in {"json", "exit"}
      BY <1>1, <2>2
    <2>4. Ruled(kind, "json", "json", v, sets)
      BY <2>3 DEF Ruled, Owned, Owner
    <2> QED
      BY <2>1, <2>2, <2>4
  <1> HIDE DEF legal, file
  <1>4. RowRuled(kind, "list_bitrates", Option("list_bitrates", legal))
    BY <1>2, RowIs
  <1>5. RowRuled(kind, "json", Option("json", file))
    BY <1>3, RowIs
  <1>6. /\ Plain("list_boards", "list_boards", "list_boards")
        /\ Plain("test_boards", "test_boards", "test_boards")
    BY DEF Plain, Owner
  <1>7. /\ RowRuled(kind, "list_boards", Leaving("list_boards"))
        /\ RowRuled(kind, "test_boards", Leaving("test_boards"))
    BY <1>6, PlainRows
  <1>8. DOMAIN Listing = {"list_bitrates", "list_boards", "test_boards", "json"}
    BY DEF Listing
  <1>9. /\ Listing["list_bitrates"] = Option("list_bitrates", legal)
        /\ Listing["json"] = Option("json", file)
        /\ Listing["list_boards"] = Leaving("list_boards")
        /\ Listing["test_boards"] = Leaving("test_boards")
    BY DEF Listing, legal, file
  <1> QED
    BY <1>4, <1>5, <1>7, <1>8, <1>9, Zenon DEF TableRuled

LEMMA ListsIgnoringRuled ==
  ASSUME NEW kind
  PROVE  TableRuled(kind, ListsIgnoring)
PROOF
  <1> DEFINE table == [list_boards |-> Ignoring("list_boards"),
                       test_boards |-> Ignoring("test_boards")]
  <1>1. /\ Plain("list_boards", "list_boards", "list_boards")
        /\ Plain("test_boards", "test_boards", "test_boards")
    BY DEF Plain, Owner
  <1>2. /\ RowRuled(kind, "list_boards", Ignoring("list_boards"))
        /\ RowRuled(kind, "test_boards", Ignoring("test_boards"))
    BY <1>1, PlainRows
  <1>3. /\ DOMAIN table = {"list_boards", "test_boards"}
        /\ table["list_boards"] = Ignoring("list_boards")
        /\ table["test_boards"] = Ignoring("test_boards")
    OBVIOUS
  <1> HIDE DEF table
  <1>4. TableRuled(kind, table)
    BY <1>2, <1>3, Zenon DEF TableRuled
  <1> QED
    BY <1>4, ListingRuled, TablesMerged DEF ListsIgnoring, table

(* What only the parsers of can_test have. *)
LEMMA TestRow ==
  ASSUME NEW o \in {"receive", "transmit", "frames", "random"}, NEW v, NEW sets,
         \A x \in DOMAIN sets : x \in {"test", "time", "count"},
         sets["test"] \in {"rx", "time", "frames", "random"},
         sets["test"] = "time" => "time" \in DOMAIN sets,
         sets["test"] \in {"frames", "random"} => "count" \in DOMAIN sets
  PROVE  RowRuled("test", o, Option(o, Setting(v, sets)))
PROOF
  <1> DEFINE legal == Setting(v, sets)
  <1>1. Ruled("test", o, o, v, sets)
    BY DEF Ruled, Owned
  <1>2. DOMAIN legal = {v} /\ legal[v] = sets
    BY SettingIs
  <1> HIDE DEF legal
  <1>3. RowRuled("test", o, Option(o, legal))
    BY <1>1, <1>2, RowIs
  <1> QED
    BY <1>3 DEF legal

LEMMA TestsRuled == TableRuled("test", Tests)
PROOF
  <1>1. RowRuled("test", "receive", Tests["receive"])
    <2>1. PICK sets : sets = [test |-> "rx"]
      OBVIOUS
    <2>2. DOMAIN sets = {"test"} /\ sets["test"] = "rx"
      BY <2>1
    <2>3. RowRuled("test", "receive", Option("receive", Setting(none, sets)))
      BY <2>2, TestRow
    <2> QED
      BY <2>1, <2>3 DEF Tests
  <1>2. RowRuled("test", "transmit", Tests["transmit"])
    <2>1. PICK sets : sets = [test |-> "time", time |-> "n"]
      OBVIOUS
    <2>2. DOMAIN sets = {"test", "time"} /\ sets["test"] = "time"
      BY <2>1
    <2>3. RowRuled("test", "transmit", Option("transmit", Setting("n", sets)))
      BY <2>2, TestRow
    <2> QED
      BY <2>1, <2>3 DEF Tests
  <1>3. RowRuled("test", "frames", Tests["frames"])
    <2>1. PICK sets : sets = [test |-> "frames", count |-> "n"]
      OBVIOUS
    <2>2. DOMAIN sets = {"test", "count"} /\ sets["test"] = "frames"
      BY <2>1
    <2>3. RowRuled("test", "frames", Option("frames", Setting("n", sets)))
      BY <2>2, TestRow
    <2> QED
      BY <2>1, <2>3 DEF Tests
  <1>4. RowRuled("test", "random", Tests["random"])
    <2>1. PICK sets : sets = [test |-> "random", count |-> "n"]
      OBVIOUS
    <2>2. DOMAIN sets = {"test", "count"} /\ sets["test"] = "random"
      BY <2>1
    <2>3. RowRuled("test", "random", Option("random", Setting("n", sets)))
      BY <2>2, TestRow
    <2> QED
      BY <2>1, <2>3 DEF Tests
  <1>5. RowRuled("test", "number", Tests["number"])
    <2>1. Plain("number", "number", "number")
      BY DEF Plain, Owner
    <2>2. RowRuled("test", "number", Choice("number", "number", {"n"}))
      BY <2>1, PlainRows
    <2> QED
      BY <2>2 DEF Tests
  <1>6. RowRuled("test", "stop", Tests["stop"])
    <2>1. Plain("stop", "stop", "stop")
      BY DEF Plain, Owner
    <2>2. RowRuled("test", "stop", Flag("stop", "stop"))
      BY <2>1, PlainRows
    <2> QED
      BY <2>2 DEF Tests
  <1>7. DOMAIN Tests = {"receive", "number", "stop", "transmit", "frames", "random"}
    BY DEF Tests
  <1> QED
    BY <1>1, <1>2, <1>3, <1>4, <1>5, <1>6, <1>7, Zenon DEF TableRuled

LEMMA MessageRuled == TableRuled("test", Message)
PROOF
  <1>1. RowRuled("test", "cycle", Choice("cycle", "delay", {"ms"}))
    <2>1. Plain("cycle", "cycle", "delay")
      BY DEF Plain, Owner
    <2> QED
      BY <2>1, PlainRows
  <1>2. RowRuled("test", "usec", Choice("cycle", "delay", {"us"}))
    <2>1. Plain("usec", "cycle", "delay")
      BY DEF Plain, Owner
    <2> QED
      BY <2>1, PlainRows
  <1>3. RowRuled("test", "dlc", Choice("dlc", "dlc", Lengths))
    <2> DEFINE legal == [v \in Lengths |-> Setting("dlc", v)]
    <2>1. ASSUME NEW v \in DOMAIN legal PROVE Ruled("test", "dlc", "dlc", v, legal[v])
      <3>1. PICK sets : sets = Setting("dlc", v)
        OBVIOUS
      <3>2. DOMAIN sets = {"dlc"} /\ sets["dlc"] = v
        BY <3>1, SettingIs
      <3>3. Ruled("test", "dlc", "dlc", v, sets)
        BY <3>2 DEF Ruled, Owned
      <3> QED
        BY <3>1, <3>3
    <2> HIDE DEF legal
    <2>2. RowRuled("test", "dlc", Option("dlc", legal))
      BY <2>1, RowIs
    <2> QED
      BY <2>2 DEF Choice, legal
  <1>4. RowRuled("test", "id", Choice("id", "id", {"std", "xtd"}))
    <2>1. Plain("id", "id", "id")
      BY DEF Plain, Owner
    <2> QED
      BY <2>1, PlainRows
  <1>5. RowRuled("test", "extended", Flag("extended", "xtd"))
    <2>1. Plain("extended", "extended", "xtd")
      BY DEF Plain, Owner
    <2> QED
      BY <2>1, PlainRows
  <1>6. DOMAIN Message = {"cycle", "usec", "dlc", "id", "extended"}
    BY DEF Message
  <1>7. /\ Message["cycle"] = Choice("cycle", "delay", {"ms"})
        /\ Message["usec"] = Choice("cycle", "delay", {"us"})
        /\ Message["dlc"] = Choice("dlc", "dlc", Lengths)
        /\ Message["id"] = Choice("id", "id", {"std", "xtd"})
        /\ Message["extended"] = Flag("extended", "xtd")
    BY DEF Message
  <1> QED
    BY <1>1, <1>2, <1>3, <1>4, <1>5, <1>6, <1>7, Zenon DEF TableRuled

(***************************************************************************)
(* The tables of the nine parsers.                                         *)
(***************************************************************************)
Kind(p) == IF p \in Testers THEN "test" ELSE "other"

LEMMA moni_pRuled == TableRuled("other", moni_p)
PROOF
  <1>1. TableRuled("other", moni_p_rates)
    BY RatesRuled, VerboseRuled, TablesMerged DEF moni_p_rates
  <1>2. TableRuled("other", moni_p_modes)
    BY ModeRuled, SharedAccessRuled, ListenOnlyRuled, ErrorFramesRuled,
       SuppressRuled, TablesMerged DEF moni_p_modes
  <1>3. TableRuled("other", moni_p_filters)
    BY FiltersRuled, TraceModeRuled, TablesMerged DEF moni_p_filters
  <1>4. TableRuled("other", moni_p_layout)
    BY LayoutRuled, ExclusionRuled, TablesMerged DEF moni_p_layout
  <1>5. TableRuled("other", moni_p_lists)
    BY ListingRuled DEF moni_p_lists
  <1> QED
    BY <1>1, <1>2, <1>3, <1>4, <1>5, TablesMerged DEF moni_p

LEMMA moni_wRuled == TableRuled("other", moni_w)
PROOF
  <1>1. TableRuled("other", moni_w_rates)
    BY RatesRuled, VerboseRuled, TablesMerged DEF moni_w_rates
  <1>2. TableRuled("other", moni_w_modes)
    BY ModeRuled, SharedAccessRuled, ListenOnlyRuled, MonSwitchRuled,
       ErrorFramesRuled, ErrorSwitchRuled, TablesMerged DEF moni_w_modes
  <1>3. TableRuled("other", moni_w_filters)
    BY SuppressSwitchesRuled, FiltersRuled, TraceModeRuled, TablesMerged DEF moni_w_filters
  <1>4. TableRuled("other", moni_w_layout)
    BY LayoutRuled, ExclusionRuled, TablesMerged DEF moni_w_layout
  <1>5. TableRuled("other", moni_w_lists)
    BY ListsIgnoringRuled DEF moni_w_lists
  <1> QED
    BY <1>1, <1>2, <1>3, <1>4, <1>5, TablesMerged DEF moni_w

LEMMA test_pRuled == TableRuled("test", test_p)
PROOF
  <1>1. TableRuled("test", test_p_rates)
    BY RatesRuled, VerboseRuled, TablesMerged DEF test_p_rates
  <1>2. TableRuled("test", test_p_modes)
    BY ModeRuled, SharedAccessRuled, ListenOnlyRuled, ErrorFramesRuled,
       SuppressRuled, TablesMerged DEF test_p_modes
  <1>3. TableRuled("test", test_p_filters)
    BY FiltersRuled, TraceModeRuled, TablesMerged DEF test_p_filters
  <1>4. TableRuled("test", test_p_tests)
    BY TestsRuled DEF test_p_tests
  <1>5. TableRuled("test", test_p_message)
    BY MessageRuled DEF test_p_message
  <1>6. TableRuled("test", test_p_lists)
    BY ListingRuled DEF test_p_lists
  <1> QED
    BY <1>1, <1>2, <1>3, <1>4, <1>5, <1>6, TablesMerged DEF test_p

LEMMA test_wRuled == TableRuled("test", test_w)
PROOF
  <1>1. TableRuled("test", test_w_rates)
    BY RatesRuled, VerboseRuled, TablesMerged DEF test_w_rates
  <1>2. TableRuled("test", test_w_modes)
    BY ModeRuled, SharedAccessRuled, ListenOnlyRuled, MonSwitchRuled,
       ErrorFramesRuled, ErrorSwitchRuled, TablesMerged DEF test_w_modes
  <1>3. TableRuled("test", test_w_filters)
    BY SuppressSwitchesRuled, FiltersRuled, TraceModeRuled, TablesMerged DEF test_w_filters
  <1>4. TableRuled("test", test_w_tests)
    BY TestsRuled DEF test_w_tests
  <1>5. TableRuled("test", test_w_message)
    BY MessageRuled DEF test_w_message
  <1>6. TableRuled("test", test_w_lists)
    BY ListsIgnoringRuled DEF test_w_lists
  <1> QED
    BY <1>1, <1>2, <1>3, <1>4, <1>5, <1>6, TablesMerged DEF test_w

LEMMA port_pRuled == TableRuled("other", port_p)
PROOF
  <1>1. TableRuled("other", port_p_rates)
    BY RatesRuled, VerboseRuled, TablesMerged DEF port_p_rates
  <1>2. TableRuled("other", port_p_modes)
    BY ModeRuled, SharedAccessRuled, ListenOnlyRuled, ErrorFramesRuled,
       SuppressRuled, TablesMerged DEF port_p_modes
  <1>3. TableRuled("other", port_p_filters)
    BY FiltersRuled, TraceModeRuled, TablesMerged DEF port_p_filters
  <1>4. TableRuled("other", port_p_server)
    BY ServerRuled DEF port_p_server
  <1>5. TableRuled("other", port_p_lists)
    BY ListingRuled DEF port_p_lists
  <1> QED
    BY <1>1, <1>2, <1>3, <1>4, <1>5, TablesMerged DEF port_p

LEMMA port_wRuled == TableRuled("other", port_w)
PROOF
  <1>1. TableRuled("other", port_w_rates)
    BY RatesRuled, VerboseRuled, TablesMerged DEF port_w_rates
  <1>2. TableRuled("other", port_w_modes)
    BY ModeRuled, ErrorFramesRuled, ErrorSwitchRuled, TraceModeRuled, TablesMerged DEF port_w_modes
  <1>3. TableRuled("other", port_w_server)
    BY ServerRuled DEF port_w_server
  <1>4. TableRuled("other", port_w_lists)
    BY ListsIgnoringRuled DEF port_w_lists
  <1> QED
    BY <1>1, <1>2, <1>3, <1>4, TablesMerged DEF port_w

LEMMA send_pRuled == TableRuled("other", send_p)
PROOF
  <1>1. TableRuled("other", send_p_rates)
    BY RatesRuled, VerboseRuled, TablesMerged DEF send_p_rates
  <1>2. TableRuled("other", send_p_modes)
    BY ModeRuled, SharedAccessRuled, ListenOnlyRuled, ErrorFramesRuled,
       SuppressRuled, TablesMerged DEF send_p_modes
  <1>3. TableRuled("other", send_p_filters)
    BY FiltersRuled, TraceModeRuled, TablesMerged DEF send_p_filters
  <1>4. TableRuled("other", send_p_lists)
    BY ListingRuled DEF send_p_lists
  <1> QED
    BY <1>1, <1>2, <1>3, <1>4, TablesMerged DEF send_p

LEMMA send_wRuled == TableRuled("other", send_w)
PROOF
  <1>1. TableRuled("other", send_w_rates)
    BY RatesRuled, VerboseRuled, TablesMerged DEF send_w_rates
  <1>2. TableRuled("other", send_w_modes)
    BY ModeRuled, SharedAccessRuled, ListenOnlyRuled, MonSwitchRuled,
       ErrorFramesRuled, ErrorSwitchRuled, TablesMerged DEF send_w_modes
  <1>3. TableRuled("other", send_w_filters)
    BY SuppressSwitchesRuled, FiltersRuled, TraceModeRuled, TablesMerged DEF send_w_filters
  <1>4. TableRuled("other", send_w_lists)
    BY ListsIgnoringRuled DEF send_w_lists
  <1> QED
    BY <1>1, <1>2, <1>3, <1>4, TablesMerged DEF send_w

LEMMA simu_pRuled == TableRuled("other", simu_p)
PROOF
  <1>1. TableRuled("other", simu_p_server)
    BY ServerRuled DEF simu_p_server
  <1> QED
    BY <1>1 DEF simu_p

LEMMA TablesRuled ==
  ASSUME NEW p \in Parsers
  PROVE  TableRuled(Kind(p), Table[p])
PROOF
  <1>1. CASE p = "moni_p"
    <2>1. Table["moni_p"] = moni_p
      BY DEF Table
    <2>2. Kind("moni_p") = "other"
      BY DEF Kind, Testers
    <2> QED
      BY <1>1, <2>1, <2>2, moni_pRuled, Zenon
  <1>2. CASE p = "moni_w"
    <2>1. Table["moni_w"] = moni_w
      BY DEF Table
    <2>2. Kind("moni_w") = "other"
      BY DEF Kind, Testers
    <2> QED
      BY <1>2, <2>1, <2>2, moni_wRuled, Zenon
  <1>3. CASE p = "test_p"
    <2>1. Table["test_p"] = test_p
      BY DEF Table
    <2>2. Kind("test_p") = "test"
      BY DEF Kind, Testers
    <2> QED
      BY <1>3, <2>1, <2>2, test_pRuled, Zenon
  <1>4. CASE p = "test_w"
    <2>1. Table["test_w"] = test_w
      BY DEF Table
    <2>2. Kind("test_w") = "test"
      BY DEF Kind, Testers
    <2> QED
      BY <1>4, <2>1, <2>2, test_wRuled, Zenon
  <1>5. CASE p = "port_p"
    <2>1. Table["port_p"] = port_p
      BY DEF Table
    <2>2. Kind("port_p") = "other"
      BY DEF Kind, Testers
    <2> QED
      BY <1>5, <2>1, <2>2, port_pRuled, Zenon
  <1>6. CASE p = "port_w"
    <2>1. Table["port_w"] = port_w
      BY DEF Table
    <2>2. Kind("port_w") = "other"
      BY DEF Kind, Testers
    <2> QED
      BY <1>6, <2>1, <2>2, port_wRuled, Zenon
  <1>7. CASE p = "send_p"
    <2>1. Table["send_p"] = send_p
      BY DEF Table
    <2>2. Kind("send_p") = "other"
      BY DEF Kind, Testers
    <2> QED
      BY <1>7, <2>1, <2>2, send_pRuled, Zenon
  <1>8. CASE p = "send_w"
    <2>1. Table["send_w"] = send_w
      BY DEF Table
    <2>2. Kind("send_w") = "other"
      BY DEF Kind, Testers
    <2> QED
      BY <1>8, <2>1, <2>2, send_wRuled, Zenon
  <1>9. CASE p = "simu_p"
    <2>1. Table["simu_p"] = simu_p
      BY DEF Table
    <2>2. Kind("simu_p") = "other"
      BY DEF Kind, Testers
    <2> QED
      BY <1>9, <2>1, <2>2, simu_pRuled, Zenon
  <1>10. Parsers = {"moni_p", "moni_w", "test_p", "test_w", "port_p", "port_w",
                    "send_p", "send_w", "simu_p"}
    BY DEF Parsers, Table
  <1> QED
    BY <1>1, <1>2, <1>3, <1>4, <1>5, <1>6, <1>7, <1>8, <1>9, <1>10

LEMMA MoreThan ==
  ASSUME NEW a, NEW b, NEW o, o \in DOMAIN a \/ o \in DOMAIN b
  PROVE  o \in DOMAIN (a ++ b)
PROOF
  BY DEF ++

(* Every parser but that of can_simu has --mode. *)
LEMMA ModeOffered ==
  ASSUME NEW p \in Parsers
  PROVE  IF p = "simu_p" THEN DOMAIN Table[p] = {"logging", "security_risks"}
         ELSE "mode" \in DOMAIN Table[p]
PROOF
  <1>1. "mode" \in DOMAIN Mode
    BY DEF Mode
  <1>2. /\ "mode" \in DOMAIN moni_p_modes /\ "mode" \in DOMAIN moni_w_modes
        /\ "mode" \in DOMAIN test_p_modes /\ "mode" \in DOMAIN test_w_modes
        /\ "mode" \in DOMAIN port_p_modes /\ "mode" \in DOMAIN port_w_modes
        /\ "mode" \in DOMAIN send_p_modes /\ "mode" \in DOMAIN send_w_modes
    BY <1>1, MoreThan DEF moni_p_modes, moni_w_modes, test_p_modes, test_w_modes,
       port_p_modes, port_w_modes, send_p_modes, send_w_modes
  <1>3. /\ "mode" \in DOMAIN moni_p /\ "mode" \in DOMAIN moni_w
        /\ "mode" \in DOMAIN test_p /\ "mode" \in DOMAIN test_w
        /\ "mode" \in DOMAIN port_p /\ "mode" \in DOMAIN port_w
        /\ "mode" \in DOMAIN send_p /\ "mode" \in DOMAIN send_w
    BY <1>2, MoreThan DEF moni_p, moni_w, test_p, test_w, port_p, port_w, send_p, send_w
  <1>4. DOMAIN simu_p = {"logging", "security_risks"}
    BY DEF simu_p, simu_p_server, Server
  <1>5. /\ Table["moni_p"] = moni_p /\ Table["moni_w"] = moni_w
        /\ Table["test_p"] = test_p /\ Table["test_w"] = test_w
        /\ Table["port_p"] = port_p /\ Table["port_w"] = port_w
        /\ Table["send_p"] = send_p /\ Table["send_w"] = send_w
        /\ Table["simu_p"] = simu_p
    BY DEF Table
  <1>6. Parsers = {"moni_p", "moni_w", "test_p", "test_w", "port_p", "port_w",
                   "send_p", "send_w", "simu_p"}
    BY DEF Parsers, Table
  <1> QED
    BY <1>3, <1>4, <1>5, <1>6

(***************************************************************************)
(* A word of the line.                                                     *)
(***************************************************************************)
LegalWord(word) == word \in Words(parser) /\ Legal(word)

LEMMA WordIs ==
  ASSUME parser \in Parsers, NEW word, LegalWord(word)
  PROVE  /\ word = <<word[1], word[2]>>
         /\ word[1] \in DOMAIN Table[parser] /\ OptionOf(word) = Table[parser][word[1]]
         /\ RowRuled(Kind(parser), word[1], OptionOf(word))
         /\ Ruled(Kind(parser), word[1], OptionOf(word).counter, word[2], Says(word))
PROOF
  <1>0. PICK o \in DOMAIN Table[parser] : \E v : word = <<o, v>>
    BY DEF LegalWord, Words
  <1>1. PICK v : word = <<o, v>>
    BY <1>0
  <1>2. word[1] = o /\ word[2] = v
    BY <1>1
  <1>3. OptionOf(word) = Table[parser][o]
    BY <1>2 DEF OptionOf
  <1>4. RowRuled(Kind(parser), o, OptionOf(word))
    BY <1>3, TablesRuled, Zenon DEF TableRuled
  <1>5. v \in DOMAIN OptionOf(word).legal
    BY <1>2 DEF LegalWord, Legal
  <1>6. Ruled(Kind(parser), o, OptionOf(word).counter, v, Says(word))
    BY <1>2, <1>4, <1>5, Zenon DEF RowRuled, Says
  <1> QED
    BY <1>1, <1>2, <1>3, <1>4, <1>6

LEMMA CountersAre ==
  ASSUME parser \in Parsers, NEW word, LegalWord(word)
  PROVE  /\ OptionOf(word).counter # "uncounted" => OptionOf(word).counter \in Counters(word)
         /\ word[1] = "list_bitrates" /\ word[2] # none => "mode" \in Counters(word)
         /\ \A c \in Counters(word) :
              c = OptionOf(word).counter \/ (c = "mode" /\ word[1] = "list_bitrates")
         /\ "dlc" \in Counters(word) <=> word[1] = "dlc"
PROOF
  <1>1. RowRuled(Kind(parser), word[1], OptionOf(word))
    BY WordIs
  <1>2. word[1] = "dlc" <=> OptionOf(word).counter = "dlc"
    BY <1>1 DEF RowRuled
  <1> QED
    BY <1>2 DEF Counters

LEMMA ItemOwned ==
  ASSUME parser \in Parsers, NEW word, LegalWord(word), NEW item \in Items(word)
  PROVE  \/ word = <<"verbose", none>> /\ item = "verbose"
         \/ item # "verbose" /\ Owner(item) \in Counters(word)
PROOF
  <1>1. Ruled(Kind(parser), word[1], OptionOf(word).counter, word[2], Says(word))
    BY WordIs
  <1>2. item \in DOMAIN Says(word) /\ item # "exit"
        /\ ~(Kind(parser) = "test" /\ item \in {"test", "time", "count", "dlc"})
    BY DEF Items, Overridden, Kind
  <1>3. Owned(word[1], OptionOf(word).counter, word[2], item)
    BY <1>1, <1>2, Zenon DEF Ruled
  <1>4. CASE word[1] = "verbose" /\ word[2] = none /\ item = "verbose"
    BY <1>4, WordIs
  <1>5. CASE /\ OptionOf(word).counter # "uncounted" /\ item # "verbose"
             /\ Owner(item) = OptionOf(word).counter
    BY <1>5, CountersAre
  <1>6. CASE word[1] = "list_bitrates" /\ word[2] # none /\ Owner(item) = "mode"
    <2>1. item # "verbose"
      BY <1>6 DEF Owner
    <2> QED
      BY <1>6, <2>1, CountersAre
  <1> QED
    BY <1>3, <1>4, <1>5, <1>6, Zenon DEF Owned

(* Two words that set one item have a counter in common. *)
LEMMA ItemShared ==
  ASSUME parser \in Parsers, NEW w1, NEW w2, LegalWord(w1), LegalWord(w2),
         NEW item, item \in Items(w1), item \in Items(w2), Counters(w1) \cap Counters(w2) = {}
  PROVE  w1 = w2
PROOF
  BY ItemOwned

LEMMA SetsAre ==
  ASSUME NEW word
  PROVE  /\ DOMAIN Sets(word) = DOMAIN Says(word)
              \cup (IF word[1] = "random" /\ "dlc" \notin seen THEN {"dlc"} ELSE {})
         /\ \A x \in DOMAIN Says(word) :
              x # "dlc" \/ word[1] # "random" => Sets(word)[x] = Says(word)[x]
         /\ word[1] = "random" /\ "dlc" \notin seen => Sets(word)["dlc"] = 0
PROOF
  <1>1. CASE word[1] = "random" /\ "dlc" \notin seen
    <2>1. Sets(word) = Setting("dlc", 0) ++ Says(word)
      BY <1>1, Zenon DEF Sets
    <2>2. PICK a, b : a = Setting("dlc", 0) /\ b = Says(word)
      OBVIOUS
    <2>3. DOMAIN a = {"dlc"} /\ a["dlc"] = 0
      BY <2>2, SettingIs
    <2>4. PICK t : t = a ++ b
      OBVIOUS
    <2>5. /\ DOMAIN t = DOMAIN b \cup {"dlc"} /\ t["dlc"] = 0
          /\ \A x \in DOMAIN b : x # "dlc" => t[x] = b[x]
      BY <2>3, <2>4 DEF ++
    <2> QED
      BY <1>1, <2>1, <2>2, <2>4, <2>5, Zenon
  <1>2. CASE ~(word[1] = "random" /\ "dlc" \notin seen)
    <2>1. Sets(word) = <<>> ++ Says(word)
      BY <1>2, Zenon DEF Sets
    <2>2. PICK b, t : b = Says(word) /\ t = <<>> ++ b
      OBVIOUS
    <2>3. DOMAIN t = DOMAIN b /\ \A x \in DOMAIN b : t[x] = b[x]
      BY <2>2 DEF ++
    <2>4. Sets(word) = t
      BY <2>1, <2>2
    <2> QED
      BY <1>2, <2>2, <2>3, <2>4
  <1> QED
    BY <1>1, <1>2

(***************************************************************************)
(* The DLC of a length.                                                    *)
(***************************************************************************)
LEMMA AddedOne ==
  ASSUME NEW S, IsFiniteSet(S), NEW x, x \notin S
  PROVE  IsFiniteSet(S \cup {x}) /\ Cardinality(S \cup {x}) = Cardinality(S) + 1
PROOF
  BY FS_AddElement

LEMMA BoundsCounted ==
  /\ Cardinality({}) = 0
  /\ Cardinality({12}) = 1
  /\ Cardinality({12, 16}) = 2
  /\ Cardinality({12, 16, 20}) = 3
  /\ Cardinality({12, 16, 20, 24}) = 4
  /\ Cardinality({12, 16, 20, 24, 32}) = 5
  /\ Cardinality({12, 16, 20, 24, 32, 48}) = 6
PROOF
  <1>0. IsFiniteSet({}) /\ Cardinality({}) = 0
    BY FS_EmptySet
  <1>1. IsFiniteSet({12}) /\ Cardinality({12}) = 1
    <2>1. {12} = {} \cup {12}
      OBVIOUS
    <2> QED
      BY <1>0, <2>1, AddedOne
  <1>2. IsFiniteSet({12, 16}) /\ Cardinality({12, 16}) = 2
    <2>1. {12, 16} = {12} \cup {16} /\ 16 \notin {12}
      OBVIOUS
    <2> QED
      BY <1>1, <2>1, AddedOne
  <1>3. IsFiniteSet({12, 16, 20}) /\ Cardinality({12, 16, 20}) = 3
    <2>1. {12, 16, 20} = {12, 16} \cup {20} /\ 20 \notin {12, 16}
      OBVIOUS
    <2> QED
      BY <1>2, <2>1, AddedOne
  <1>4. IsFiniteSet({12, 16, 20, 24}) /\ Cardinality({12, 16, 20, 24}) = 4
    <2>1. {12, 16, 20, 24} = {12, 16, 20} \cup {24} /\ 24 \notin {12, 16, 20}
      OBVIOUS
    <2> QED
      BY <1>3, <2>1, AddedOne
  <1>5. IsFiniteSet({12, 16, 20, 24, 32}) /\ Cardinality({12, 16, 20, 24, 32}) = 5
    <2>1. {12, 16, 20, 24, 32} = {12, 16, 20, 24} \cup {32} /\ 32 \notin {12, 16, 20, 24}
      OBVIOUS
    <2> QED
      BY <1>4, <2>1, AddedOne
  <1>6. Cardinality({12, 16, 20, 24, 32, 48}) = 6
    <2>1. /\ {12, 16, 20, 24, 32, 48} = {12, 16, 20, 24, 32} \cup {48}
          /\ 48 \notin {12, 16, 20, 24, 32}
      OBVIOUS
    <2> QED
      BY <1>5, <2>1, AddedOne
  <1> QED
    BY <1>0, <1>1, <1>2, <1>3, <1>4, <1>5, <1>6

(* The shortest frame that holds so many bytes. *)
LEMMA DlcIs ==
  ASSUME NEW length \in 0 .. 64
  PROVE  /\ Dlc(length) \in 0 .. 15
         /\ length <= 8 => Dlc(length) = length
         /\ Dlc2Len[Dlc(length) + 1] >= length
         /\ Dlc(length) > 0 => Dlc2Len[Dlc(length)] < length
PROOF
  <1> DEFINE below == {bound \in {12, 16, 20, 24, 32, 48} : bound < length}
  <1>0. length > 8 => Dlc(length) = 9 + Cardinality(below)
    BY DEF Dlc
  <1>1. CASE length <= 8
    <2>1. Dlc(length) = length
      BY <1>1 DEF Dlc
    <2> QED
      BY <1>1, <2>1 DEF Dlc2Len
  <1>2. CASE length \in 9 .. 12
    <2>1. below = {}
      BY <1>2
    <2>2. Dlc(length) = 9
      BY <1>0, <1>2, <2>1, BoundsCounted
    <2> QED
      BY <1>2, <2>2 DEF Dlc2Len
  <1>3. CASE length \in 13 .. 16
    <2>1. below = {12}
      BY <1>3
    <2>2. Dlc(length) = 10
      BY <1>0, <1>3, <2>1, BoundsCounted
    <2> QED
      BY <1>3, <2>2 DEF Dlc2Len
  <1>4. CASE length \in 17 .. 20
    <2>1. below = {12, 16}
      BY <1>4
    <2>2. Dlc(length) = 11
      BY <1>0, <1>4, <2>1, BoundsCounted
    <2> QED
      BY <1>4, <2>2 DEF Dlc2Len
  <1>5. CASE length \in 21 .. 24
    <2>1. below = {12, 16, 20}
      BY <1>5
    <2>2. Dlc(length) = 12
      BY <1>0, <1>5, <2>1, BoundsCounted
    <2> QED
      BY <1>5, <2>2 DEF Dlc2Len
  <1>6. CASE length \in 25 .. 32
    <2>1. below = {12, 16, 20, 24}
      BY <1>6
    <2>2. Dlc(length) = 13
      BY <1>0, <1>6, <2>1, BoundsCounted
    <2> QED
      BY <1>6, <2>2 DEF Dlc2Len
  <1>7. CASE length \in 33 .. 48
    <2>1. below = {12, 16, 20, 24, 32}
      BY <1>7
    <2>2. Dlc(length) = 14
      BY <1>0, <1>7, <2>1, BoundsCounted
    <2> QED
      BY <1>7, <2>2 DEF Dlc2Len
  <1>8. CASE length \in 49 .. 64
    <2>1. below = {12, 16, 20, 24, 32, 48}
      BY <1>8
    <2>2. Dlc(length) = 15
      BY <1>0, <1>8, <2>1, BoundsCounted
    <2> QED
      BY <1>8, <2>2 DEF Dlc2Len
  <1> QED
    BY <1>1, <1>2, <1>3, <1>4, <1>5, <1>6, <1>7, <1>8

(***************************************************************************)
(* The invariant of a line: its words are legal and share no counter, each *)
(* counter that is not zero is that of a word, the settings are what the   *)
(* words say, and what a test needs is there.                              *)
(***************************************************************************)
WordsKept ==
  /\ \A word \in given : LegalWord(word) /\ Counters(word) \subseteq seen
  /\ \A c \in seen : \E word \in given : c \in Counters(word)
  /\ \A w1, w2 \in given : w1 # w2 => Counters(w1) \cap Counters(w2) = {}

SettingsKept ==
  /\ \A word \in given : \A item \in Items(word) : opts[item] = Says(word)[item]
  /\ DOMAIN opts = DOMAIN Defaults(parser) \cup UNION {DOMAIN Says(word) : word \in given}
  /\ "bitrate" \in DOMAIN opts =>
       \/ opts["bitrate"] = "index"
       \/ opts["bitrate"] = "timing" /\ <<"bitrate", "timing">> \in given

LengthKept ==
  IF Names("dlc") THEN <<"dlc", opts["dlc"]>> \in given
  ELSE opts["dlc"] = IF Names("random") THEN 0 ELSE 8

TestKept ==
  parser \in Testers =>
    /\ opts["dlc"] \in 0..64
    /\ opts["test"] \in {"rx", "time", "frames", "random"}
    /\ opts["test"] = "time" => "time" \in DOMAIN opts
    /\ opts["test"] \in {"frames", "random"} => "count" \in DOMAIN opts
    /\ result = "scanning" => LengthKept

LineInv ==
  /\ parser \in Parsers
  /\ result \in {"scanning", "shown", "accepted", "refused"}
  /\ WordsKept
  /\ SettingsKept
  /\ TestKept
  /\ AcceptedRuns

(* One word more. *)
Accepts(word) ==
  /\ result = "scanning"
  /\ LegalWord(word) /\ Counters(word) \cap seen = {}
  /\ given' = given \cup {word}
  /\ seen' = seen \cup Counters(word)
  /\ opts' = Sets(word) ++ opts
  /\ parser' = parser /\ result' = result

(* A word means the same as long as the parser runs. *)
LEMMA SameWords ==
  ASSUME parser' = parser, NEW word
  PROVE  /\ LegalWord(word)' = LegalWord(word)
         /\ Says(word)' = Says(word)
         /\ Items(word)' = Items(word)
         /\ Counters(word)' = Counters(word)
PROOF
  <1>1. Says(word)' = Says(word) /\ OptionOf(word)' = OptionOf(word) /\ Overridden' = Overridden
    BY DEF Says, OptionOf, Overridden
  <1>2. LegalWord(word)' = LegalWord(word)
    BY <1>1 DEF LegalWord, Legal
  <1>3. Items(word)' = Items(word)
    BY <1>1 DEF Items
  <1>4. Counters(word)' = Counters(word)
    BY <1>1 DEF Counters
  <1> QED
    BY <1>1, <1>2, <1>3, <1>4

LEMMA ReadWords ==
  ASSUME LineInv, NEW word, Accepts(word)
  PROVE  WordsKept'
PROOF
  <1>1. parser' = parser /\ LegalWord(word) /\ Counters(word) \cap seen = {}
        /\ given' = given \cup {word} /\ seen' = seen \cup Counters(word)
    BY DEF Accepts
  <1>2. /\ \A w : LegalWord(w)' = LegalWord(w)
        /\ \A w : Counters(w)' = Counters(w)
    BY <1>1, SameWords
  <1>3. /\ \A w \in given : LegalWord(w) /\ Counters(w) \subseteq seen
        /\ \A c \in seen : \E w \in given : c \in Counters(w)
        /\ \A w1, w2 \in given : w1 # w2 => Counters(w1) \cap Counters(w2) = {}
    BY DEF LineInv, WordsKept
  <1>4. \A w \in given' : LegalWord(w)' /\ Counters(w)' \subseteq seen'
    BY <1>1, <1>2, <1>3
  <1>5. \A c \in seen' : \E w \in given' : c \in Counters(w)'
    BY <1>1, <1>2, <1>3
  <1>6. \A w1, w2 \in given' : w1 # w2 => Counters(w1)' \cap Counters(w2)' = {}
    BY <1>1, <1>2, <1>3
  <1> QED
    BY <1>4, <1>5, <1>6 DEF WordsKept

LEMMA OptsAre ==
  ASSUME NEW word, Accepts(word)
  PROVE  /\ DOMAIN opts' = DOMAIN opts \cup DOMAIN Says(word)
              \cup (IF word[1] = "random" /\ "dlc" \notin seen THEN {"dlc"} ELSE {})
         /\ \A x \in DOMAIN Says(word) : x # "dlc" \/ word[1] # "random" => opts'[x] = Says(word)[x]
         /\ word[1] = "random" /\ "dlc" \notin seen => opts'["dlc"] = 0
         /\ \A x \in DOMAIN opts :
              x \notin DOMAIN Says(word) /\ ~(x = "dlc" /\ word[1] = "random" /\ "dlc" \notin seen) =>
                opts'[x] = opts[x]
PROOF
  <1>1. PICK says, sets : says = Says(word) /\ sets = Sets(word)
    OBVIOUS
  <1>2. /\ DOMAIN sets = DOMAIN says
             \cup (IF word[1] = "random" /\ "dlc" \notin seen THEN {"dlc"} ELSE {})
        /\ \A x \in DOMAIN says : x # "dlc" \/ word[1] # "random" => sets[x] = says[x]
        /\ word[1] = "random" /\ "dlc" \notin seen => sets["dlc"] = 0
    BY <1>1, SetsAre
  <1>3. PICK old, new : old = opts /\ new = sets ++ old
    OBVIOUS
  <1>4. opts' = new
    BY <1>1, <1>3 DEF Accepts
  <1>5. /\ DOMAIN new = DOMAIN sets \cup DOMAIN old
        /\ \A x \in DOMAIN sets : new[x] = sets[x]
        /\ \A x \in DOMAIN old : x \notin DOMAIN sets => new[x] = old[x]
    BY <1>3 DEF ++
  <1>6. /\ DOMAIN new = DOMAIN old \cup DOMAIN says
             \cup (IF word[1] = "random" /\ "dlc" \notin seen THEN {"dlc"} ELSE {})
        /\ \A x \in DOMAIN says : x # "dlc" \/ word[1] # "random" => new[x] = says[x]
        /\ word[1] = "random" /\ "dlc" \notin seen => new["dlc"] = 0
        /\ \A x \in DOMAIN old :
             x \notin DOMAIN says /\ ~(x = "dlc" /\ word[1] = "random" /\ "dlc" \notin seen) =>
               new[x] = old[x]
    BY <1>2, <1>5
  <1> QED
    BY <1>1, <1>3, <1>4, <1>6

(* Only the parsers of can_test have --random. *)
LEMMA RandomTests ==
  ASSUME parser \in Parsers, NEW word, LegalWord(word), word[1] = "random"
  PROVE  parser \in Testers
PROOF
  <1>1. RowRuled(Kind(parser), word[1], OptionOf(word))
    BY WordIs
  <1>2. Kind(parser) = "test"
    BY <1>1 DEF RowRuled
  <1> QED
    BY <1>2 DEF Kind

LEMMA ReadSettings ==
  ASSUME LineInv, NEW word, Accepts(word)
  PROVE  SettingsKept'
PROOF
  <1>1. parser' = parser /\ LegalWord(word) /\ Counters(word) \cap seen = {}
        /\ given' = given \cup {word}
    BY DEF Accepts
  <1>2. parser \in Parsers
    BY DEF LineInv
  <1>3. \A w \in given : LegalWord(w) /\ Counters(w) \subseteq seen
    BY DEF LineInv, WordsKept
  <1>4. /\ \A w : Says(w)' = Says(w)
        /\ \A w : Items(w)' = Items(w)
    BY <1>1, SameWords
  <1>5. word[1] = "random" => parser \in Testers
    BY <1>1, <1>2, RandomTests
  <1>6. \A w : \A item \in Items(w) :
          /\ item \in DOMAIN Says(w) /\ item # "exit"
          /\ parser \in Testers => item \notin {"test", "time", "count", "dlc"}
    BY DEF Items, Overridden
  <1>7. DOMAIN opts = DOMAIN Defaults(parser) \cup UNION {DOMAIN Says(w) : w \in given}
    BY DEF LineInv, SettingsKept
  <1>8. ASSUME NEW w \in given', NEW item \in Items(w)
        PROVE  opts'[item] = Says(w)[item]
    <2>1. CASE w = word
      BY <1>5, <1>6, <2>1, OptsAre
    <2>2. CASE w \in given /\ w # word
      <3>1. Counters(w) \cap Counters(word) = {}
        BY <1>1, <1>3, <2>2
      <3>2. item \notin Items(word)
        BY <1>1, <1>2, <1>3, <2>2, <3>1, ItemShared
      <3>3. item \notin DOMAIN Says(word)
        BY <1>6, <3>2 DEF Items, Overridden
      <3>4. item \in DOMAIN opts
        BY <1>6, <1>7, <2>2
      <3>5. opts'[item] = opts[item]
        BY <1>5, <1>6, <3>3, <3>4, OptsAre
      <3> QED
        BY <2>2, <3>5 DEF LineInv, SettingsKept
    <2> QED
      BY <1>1, <2>1, <2>2
  <1>9. DOMAIN opts' = DOMAIN Defaults(parser) \cup UNION {DOMAIN Says(w) : w \in given'}
    <2> DEFINE new == DOMAIN opts'
               old == DOMAIN opts
               says == DOMAIN Says(word)
               defaults == DOMAIN Defaults(parser)
    <2>1. parser \in Testers => "dlc" \in defaults
      BY DEF Defaults
    <2>2. new = old \cup says \cup (IF word[1] = "random" /\ "dlc" \notin seen THEN {"dlc"} ELSE {})
      BY OptsAre, Zenon
    <2>3. \A x : x \in old <=> x \in defaults \/ \E w \in given : x \in DOMAIN Says(w)
      BY <1>7, Zenon
    <2>4. \A x : x \in new <=>
            x \in defaults \/ (\E w \in given : x \in DOMAIN Says(w)) \/ x \in says
      <3> HIDE DEF new, old, says, defaults
      <3> QED
        BY <1>5, <2>1, <2>2, <2>3
    <2>5. \A x : x \in new <=> x \in defaults \/ \E w \in given' : x \in DOMAIN Says(w)
      BY <1>1, <2>4, Zenon
    <2> QED
      BY <2>5, Zenon
  <1>10. ASSUME "bitrate" \in DOMAIN opts'
         PROVE  \/ opts'["bitrate"] = "index"
                \/ opts'["bitrate"] = "timing" /\ <<"bitrate", "timing">> \in given'
    <2>1. CASE "bitrate" \in DOMAIN Says(word)
      <3>1. Ruled(Kind(parser), word[1], OptionOf(word).counter, word[2], Says(word))
            /\ word = <<word[1], word[2]>>
        BY <1>1, <1>2, WordIs
      <3>2. /\ Says(word)["bitrate"] = word[2] /\ word[2] \in {"index", "timing"}
            /\ word[2] = "timing" => word[1] = "bitrate"
        BY <2>1, <3>1, Zenon DEF Ruled
      <3>3. opts'["bitrate"] = word[2]
        BY <2>1, <3>2, OptsAre
      <3> QED
        BY <1>1, <3>1, <3>2, <3>3
    <2>2. CASE "bitrate" \notin DOMAIN Says(word)
      <3>1. "bitrate" \in DOMAIN opts
        <4> DEFINE new == DOMAIN opts'
                   old == DOMAIN opts
                   says == DOMAIN Says(word)
        <4>1. new = old \cup says
                \cup (IF word[1] = "random" /\ "dlc" \notin seen THEN {"dlc"} ELSE {})
          BY OptsAre, Zenon
        <4>2. "bitrate" \in new /\ "bitrate" \notin says
          BY <1>10, <2>2
        <4> HIDE DEF new, old, says
        <4>3. "bitrate" \in old
          BY <4>1, <4>2
        <4> QED
          BY <4>3 DEF old
      <3>2. opts'["bitrate"] = opts["bitrate"]
        BY <2>2, <3>1, OptsAre
      <3> QED
        BY <1>1, <3>1, <3>2 DEF LineInv, SettingsKept
    <2> QED
      BY <2>1, <2>2
  <1> QED
    BY <1>1, <1>4, <1>8, <1>9, <1>10 DEF SettingsKept

LEMMA ReadTest ==
  ASSUME LineInv, NEW word, Accepts(word)
  PROVE  TestKept'
PROOF
  <1>1. parser' = parser /\ result' = result /\ result = "scanning" /\ LegalWord(word)
        /\ Counters(word) \cap seen = {} /\ given' = given \cup {word}
    BY DEF Accepts
  <1>2. parser \in Parsers
    BY DEF LineInv
  <1> SUFFICES ASSUME parser \in Testers
               PROVE  /\ opts'["dlc"] \in 0..64
                      /\ opts'["test"] \in {"rx", "time", "frames", "random"}
                      /\ opts'["test"] = "time" => "time" \in DOMAIN opts'
                      /\ opts'["test"] \in {"frames", "random"} => "count" \in DOMAIN opts'
                      /\ LengthKept'
    BY <1>1 DEF TestKept
  <1>3. /\ opts["dlc"] \in 0..64
        /\ opts["test"] \in {"rx", "time", "frames", "random"}
        /\ opts["test"] = "time" => "time" \in DOMAIN opts
        /\ opts["test"] \in {"frames", "random"} => "count" \in DOMAIN opts
        /\ LengthKept
    BY <1>1 DEF LineInv, TestKept
  <1>4. /\ "dlc" \in DOMAIN Says(word) =>
             word[1] = "dlc" /\ word[2] \in Lengths /\ Says(word)["dlc"] = word[2]
        /\ "test" \in DOMAIN Says(word) =>
             /\ Says(word)["test"] \in {"rx", "time", "frames", "random"}
             /\ Says(word)["test"] = "time" => "time" \in DOMAIN Says(word)
             /\ Says(word)["test"] \in {"frames", "random"} => "count" \in DOMAIN Says(word)
        /\ word[1] = "dlc" => "dlc" \in DOMAIN Says(word)
        /\ word = <<word[1], word[2]>>
    <2>1. /\ Ruled(Kind(parser), word[1], OptionOf(word).counter, word[2], Says(word))
          /\ word = <<word[1], word[2]>>
      BY <1>1, <1>2, WordIs
    <2>2. Kind(parser) = "test"
      BY DEF Kind
    <2> QED
      BY <2>1, <2>2, Zenon DEF Ruled
  <1>5. "dlc" \in DOMAIN opts /\ "test" \in DOMAIN opts
    <2>1. "dlc" \in DOMAIN Defaults(parser) /\ "test" \in DOMAIN Defaults(parser)
      BY DEF Defaults
    <2>2. DOMAIN Defaults(parser) \subseteq DOMAIN opts
      BY Zenon DEF LineInv, SettingsKept
    <2> QED
      BY <2>1, <2>2
  <1>6. "dlc" \in seen <=> Names("dlc")
    <2>1. /\ \A w \in given : LegalWord(w) /\ Counters(w) \subseteq seen
          /\ \A c \in seen : \E w \in given : c \in Counters(w)
      BY DEF LineInv, WordsKept
    <2>2. \A w \in given : "dlc" \in Counters(w) <=> w[1] = "dlc"
      BY <1>2, <2>1, CountersAre
    <2> QED
      BY <2>1, <2>2 DEF Names
  <1>7. \A o : Names(o)' <=> Names(o) \/ word[1] = o
    BY <1>1 DEF Names
  <1>8. DOMAIN opts \subseteq DOMAIN opts' /\ DOMAIN Says(word) \subseteq DOMAIN opts'
    <2>1. DOMAIN opts' = DOMAIN opts \cup DOMAIN Says(word)
            \cup (IF word[1] = "random" /\ "dlc" \notin seen THEN {"dlc"} ELSE {})
      BY OptsAre, Zenon
    <2> QED
      BY <2>1, Zenon
  <1>9. /\ opts'["test"] \in {"rx", "time", "frames", "random"}
        /\ opts'["test"] = "time" => "time" \in DOMAIN opts'
        /\ opts'["test"] \in {"frames", "random"} => "count" \in DOMAIN opts'
    <2>1. CASE "test" \in DOMAIN Says(word)
      <3>1. opts'["test"] = Says(word)["test"]
        BY <2>1, OptsAre
      <3> QED
        BY <1>4, <1>8, <2>1, <3>1
    <2>2. CASE "test" \notin DOMAIN Says(word)
      <3>1. opts'["test"] = opts["test"]
        BY <1>5, <2>2, OptsAre
      <3> QED
        BY <1>3, <1>8, <3>1
    <2> QED
      BY <2>1, <2>2
  <1>10. opts'["dlc"] \in 0..64 /\ LengthKept'
    <2>1. CASE word[1] = "dlc"
      <3>1. opts'["dlc"] = word[2]
        BY <1>4, <2>1, OptsAre
      <3>2. Names("dlc")' /\ <<"dlc", opts'["dlc"]>> \in given'
        BY <1>1, <1>4, <1>7, <2>1, <3>1
      <3> QED
        BY <1>4, <2>1, <3>1, <3>2, LengthsAssumption DEF LengthKept
    <2>2. CASE word[1] = "random" /\ "dlc" \notin seen
      <3>1. opts'["dlc"] = 0
        BY <2>2, OptsAre
      <3>2. ~Names("dlc")' /\ Names("random")'
        BY <1>6, <1>7, <2>2
      <3> QED
        BY <3>1, <3>2 DEF LengthKept
    <2>3. CASE word[1] # "dlc" /\ ~(word[1] = "random" /\ "dlc" \notin seen)
      <3>1. opts'["dlc"] = opts["dlc"]
        BY <1>4, <1>5, <2>3, OptsAre
      <3>2. /\ Names("dlc")' <=> Names("dlc")
            /\ word[1] = "random" => Names("dlc")
            /\ word[1] # "random" => (Names("random")' <=> Names("random"))
        BY <1>6, <1>7, <2>3
      <3>3. LengthKept'
        BY <1>1, <1>3, <3>1, <3>2 DEF LengthKept
      <3> QED
        BY <1>3, <3>1, <3>3
    <2> QED
      BY <2>1, <2>2, <2>3
  <1> QED
    BY <1>9, <1>10

(* The words and the settings stay, and nothing is accepted. *)
LEMMA Stopped ==
  ASSUME LineInv, UNCHANGED <<parser, given, seen, opts>>, result' \in {"shown", "refused"}
  PROVE  LineInv'
PROOF
  <1>1. parser' = parser /\ given' = given /\ seen' = seen /\ opts' = opts
    OBVIOUS
  <1>2. /\ \A w : LegalWord(w)' = LegalWord(w)
        /\ \A w : Says(w)' = Says(w)
        /\ \A w : Items(w)' = Items(w)
        /\ \A w : Counters(w)' = Counters(w)
    BY <1>1, SameWords
  <1>3. WordsKept'
    BY <1>1, <1>2 DEF LineInv, WordsKept
  <1>4. SettingsKept'
    BY <1>1, <1>2 DEF LineInv, SettingsKept
  <1>5. TestKept'
    BY <1>1 DEF LineInv, TestKept
  <1>6. AcceptedRuns'
    BY DEF AcceptedRuns, LengthFits
  <1> QED
    BY <1>1, <1>3, <1>4, <1>5, <1>6 DEF LineInv

LEMMA Reading ==
  ASSUME LineInv, NEW word \in Words(parser), Read(word)
  PROVE  LineInv'
PROOF
  <1>1. CASE Counters(word) \cap seen = {} /\ Legal(word)
    <2>1. Accepts(word)
      BY <1>1 DEF Read, Accepts, LegalWord
    <2>2. AcceptedRuns' /\ parser' \in Parsers /\ result' = "scanning"
      BY <2>1 DEF LineInv, Accepts, AcceptedRuns, LengthFits
    <2> QED
      BY <2>1, <2>2, ReadWords, ReadSettings, ReadTest DEF LineInv
  <1>2. CASE ~(Counters(word) \cap seen = {} /\ Legal(word))
    <2>1. result' = "refused" /\ UNCHANGED <<parser, given, seen, opts>>
      BY <1>2 DEF Read
    <2> QED
      BY <2>1, Stopped
  <1> QED
    BY <1>1, <1>2

(* CAN FD operation comes from a word of the line, and can_simu has none. *)
LEMMA FormatAsked ==
  ASSUME parser \in Parsers, WordsKept, SettingsKept, "fdoe" \in DOMAIN opts
  PROVE  "bitrate" \in DOMAIN opts
PROOF
  <1>1. DOMAIN opts = DOMAIN Defaults(parser) \cup UNION {DOMAIN Says(w) : w \in given}
    BY DEF SettingsKept
  <1>2. "fdoe" \notin DOMAIN Defaults(parser)
    BY DEF Defaults
  <1>3. PICK w \in given : "fdoe" \in DOMAIN Says(w)
    BY <1>1, <1>2
  <1>4. LegalWord(w)
    BY DEF WordsKept
  <1>5. /\ w[1] \in DOMAIN Table[parser]
        /\ Ruled(Kind(parser), w[1], OptionOf(w).counter, w[2], Says(w))
    BY <1>4, WordIs
  <1>6. w[1] \in {"mode", "list_bitrates"}
    BY <1>3, <1>5, Zenon DEF Ruled
  <1>7. parser # "simu_p"
    BY <1>5, <1>6, ModeOffered
  <1>8. "bitrate" \in DOMAIN Defaults(parser)
    BY <1>7 DEF Defaults
  <1> QED
    BY <1>1, <1>8

(* The length of a line is that of its only --dlc. *)
LEMMA OneLength ==
  ASSUME parser \in Parsers, WordsKept, LengthKept,
         NEW length, <<"dlc", length>> \in given
  PROVE  opts["dlc"] = length
PROOF
  <1> DEFINE w == <<"dlc", length>>
             v == <<"dlc", opts["dlc"]>>
  <1>1. v \in given
    BY DEF LengthKept, Names
  <1>2. LegalWord(w) /\ LegalWord(v) /\ w[1] = "dlc" /\ v[1] = "dlc"
    BY <1>1 DEF WordsKept
  <1> HIDE DEF w, v
  <1>3. "dlc" \in Counters(w) /\ "dlc" \in Counters(v)
    BY <1>2, CountersAre
  <1>4. w \in given
    BY DEF w
  <1>5. w = v
    BY <1>1, <1>3, <1>4 DEF WordsKept
  <1> QED
    BY <1>5 DEF w, v

LEMMA Accepting ==
  ASSUME LineInv, NEW args \in Arguments, Finish(args), ~Refused(args)
  PROVE  LineInv'
PROOF
  <1>1. /\ result = "scanning" /\ result' = "accepted"
        /\ parser' = parser /\ given' = given /\ seen' = seen
        /\ opts' = IF parser \in Testers /\ Checked(args)
                   THEN [opts EXCEPT !.dlc = Dlc(opts["dlc"])] ELSE opts
    BY DEF Finish
  <1>2. parser \in Parsers /\ WordsKept /\ SettingsKept /\ TestKept
    BY DEF LineInv
  <1>3. /\ \A w : LegalWord(w)' = LegalWord(w)
        /\ \A w : Says(w)' = Says(w)
        /\ \A w : Items(w)' = Items(w)
        /\ \A w : Counters(w)' = Counters(w)
    BY <1>1, SameWords
  <1>4. DOMAIN opts' = DOMAIN opts /\ \A x \in DOMAIN opts : x # "dlc" => opts'[x] = opts[x]
    BY <1>1
  <1>5. parser \notin Testers => opts' = opts
    BY <1>1
  <1>6. DOMAIN opts = DOMAIN Defaults(parser) \cup UNION {DOMAIN Says(w) : w \in given}
    BY <1>2 DEF SettingsKept
  <1>7. parser \in Testers => "dlc" \in DOMAIN opts /\ "test" \in DOMAIN opts
    <2>1. parser \in Testers =>
            "dlc" \in DOMAIN Defaults(parser) /\ "test" \in DOMAIN Defaults(parser)
      BY DEF Defaults
    <2> QED
      BY <1>6, <2>1
  <1>8. WordsKept'
    BY <1>1, <1>2, <1>3 DEF WordsKept
  <1>9. SettingsKept'
    <2>1. ASSUME NEW w \in given, NEW item \in Items(w)
          PROVE  opts'[item] = Says(w)[item]
      <3>1. opts[item] = Says(w)[item] /\ item \in DOMAIN Says(w)
        BY <1>2 DEF SettingsKept, Items
      <3>2. parser \in Testers => item # "dlc"
        BY DEF Items, Overridden
      <3>3. item \in DOMAIN opts
        BY <1>6, <3>1
      <3> QED
        BY <1>4, <1>5, <3>1, <3>2, <3>3
    <2>2. DOMAIN opts' = DOMAIN Defaults(parser) \cup UNION {DOMAIN Says(w) : w \in given}
      BY <1>4, <1>6
    <2>3. "bitrate" \in DOMAIN opts' =>
            \/ opts'["bitrate"] = "index"
            \/ opts'["bitrate"] = "timing" /\ <<"bitrate", "timing">> \in given
      BY <1>2, <1>4 DEF SettingsKept
    <2> QED
      BY <1>1, <1>3, <2>1, <2>2, <2>3 DEF SettingsKept
  <1>10. parser \in Testers => Dlc(opts["dlc"]) \in 0..15
    BY <1>2, DlcIs DEF TestKept
  <1>11. parser \in Testers => opts'["dlc"] \in 0..64
    BY <1>1, <1>2, <1>7, <1>10 DEF TestKept
  <1>12. TestKept'
    BY <1>1, <1>2, <1>4, <1>7, <1>11 DEF TestKept
  <1>13. \A x \in {"exit", "fdoe", "mon", "nxtd", "xtd"} : On(x)' <=> On(x)
    BY <1>4 DEF On
  <1>14. ASSUME ~On("exit")
         PROVE  AcceptedRuns'
    <2>1. args # <<>>
      BY <1>14 DEF Refused, Counted
    <2>2. Checked(args)
      BY <2>1 DEF Checked
    <2>3. ~IndexWithFD /\ (parser \in Testers => Fits /\ ~SilentTest)
      BY <1>14 DEF Refused
    <2>4. On("fdoe") => <<"bitrate", "timing">> \in given
      <3>1. ASSUME On("fdoe")
            PROVE  <<"bitrate", "timing">> \in given
        <4>1. "bitrate" \in DOMAIN opts
          BY <1>2, <3>1, FormatAsked DEF On
        <4>2. opts["bitrate"] # "index"
          BY <2>3, <3>1 DEF IndexWithFD
        <4> QED
          BY <1>2, <4>1, <4>2 DEF SettingsKept
      <3> QED
        BY <3>1
    <2>5. ASSUME parser \in Testers
          PROVE  /\ opts'["dlc"] <= IF On("fdoe") THEN 15 ELSE 8
                 /\ opts'["test"] # "rx" => ~On("mon") /\ ~(On("nxtd") /\ On("xtd"))
                 /\ \A length \in Lengths : <<"dlc", length>> \in given =>
                      /\ Dlc2Len[opts'["dlc"] + 1] >= length
                      /\ opts'["dlc"] > 0 => Dlc2Len[opts'["dlc"]] < length
      <3>1. PICK asked \in 0..64 : opts["dlc"] = asked
        BY <1>2, <2>5 DEF TestKept
      <3>2. opts'["dlc"] = Dlc(asked)
        BY <1>1, <1>7, <2>2, <2>5, <3>1
      <3>3. On("fdoe") \/ asked <= 8
        BY <2>3, <2>5, <3>1 DEF Fits
      <3>4. opts'["dlc"] <= IF On("fdoe") THEN 15 ELSE 8
        BY <3>2, <3>3, DlcIs
      <3>5. opts'["test"] # "rx" => ~On("mon") /\ ~On("nxtd")
        BY <1>4, <1>7, <2>3, <2>5 DEF SilentTest
      <3>6. \A length \in Lengths : <<"dlc", length>> \in given => length = asked
        <4>1. LengthKept
          BY <1>1, <1>2, <2>5 DEF TestKept
        <4> QED
          BY <1>2, <3>1, <4>1, OneLength
      <3>7. Dlc2Len[Dlc(asked) + 1] >= asked /\ (Dlc(asked) > 0 => Dlc2Len[Dlc(asked)] < asked)
        BY DlcIs
      <3> QED
        BY <3>2, <3>4, <3>5, <3>6, <3>7
    <2>6. LengthFits'
      BY <1>1, <2>5 DEF LengthFits
    <2> QED
      BY <1>1, <1>13, <2>4, <2>5, <2>6 DEF AcceptedRuns
  <1>15. ASSUME On("exit")
         PROVE  AcceptedRuns'
    BY <1>13, <1>15 DEF AcceptedRuns, LengthFits
  <1> QED
    BY <1>1, <1>2, <1>8, <1>9, <1>12, <1>14, <1>15 DEF LineInv

LEMMA Finishing ==
  ASSUME LineInv, NEW args \in Arguments, Finish(args)
  PROVE  LineInv'
PROOF
  <1>1. CASE Refused(args)
    <2>1. result' = "refused" /\ UNCHANGED <<parser, given, seen, opts>>
      BY <1>1 DEF Finish
    <2> QED
      BY <2>1, Stopped
  <1>2. CASE ~Refused(args)
    BY <1>2, Accepting
  <1> QED
    BY <1>1, <1>2

LEMMA LineStarts ==
  ASSUME Init
  PROVE  LineInv
PROOF
  <1>1. /\ parser \in Parsers /\ given = {} /\ seen = {}
        /\ opts = Defaults(parser) /\ result = "scanning"
    BY DEF Init
  <1>2. WordsKept
    BY <1>1 DEF WordsKept
  <1>3. SettingsKept
    <2>1. "bitrate" \in DOMAIN Defaults(parser) => Defaults(parser)["bitrate"] = "index"
      BY DEF Defaults
    <2> QED
      BY <1>1, <2>1 DEF SettingsKept
  <1>4. TestKept
    <2>1. parser \in Testers => Defaults(parser)["dlc"] = 8 /\ Defaults(parser)["test"] = "rx"
      BY DEF Defaults
    <2>2. ~Names("dlc") /\ ~Names("random")
      BY <1>1 DEF Names
    <2> QED
      BY <1>1, <2>1, <2>2 DEF TestKept, LengthKept
  <1>5. AcceptedRuns
    BY <1>1 DEF AcceptedRuns, LengthFits
  <1> QED
    BY <1>1, <1>2, <1>3, <1>4, <1>5 DEF LineInv

LEMMA LineKept ==
  ASSUME LineInv, [Next]_vars
  PROVE  LineInv'
PROOF
  <1>1. ASSUME NEW word \in Words(parser), Read(word)
        PROVE  LineInv'
    BY <1>1, Reading
  <1>2. CASE Unknown \/ Show
    <2>1. result' \in {"shown", "refused"} /\ UNCHANGED <<parser, given, seen, opts>>
      BY <1>2 DEF Unknown, Show
    <2> QED
      BY <2>1, Stopped
  <1>3. ASSUME NEW args \in Arguments, Finish(args)
        PROVE  LineInv'
    BY <1>3, Finishing
  <1>4. CASE UNCHANGED vars
    <2>1. /\ \A w : LegalWord(w)' = LegalWord(w)
          /\ \A w : Says(w)' = Says(w)
          /\ \A w : Items(w)' = Items(w)
          /\ \A w : Counters(w)' = Counters(w)
      BY <1>4, SameWords DEF vars
    <2>2. parser' = parser /\ given' = given /\ seen' = seen /\ opts' = opts /\ result' = result
      BY <1>4 DEF vars
    <2>3. WordsKept'
      BY <2>1, <2>2 DEF LineInv, WordsKept
    <2>4. SettingsKept'
      BY <2>1, <2>2 DEF LineInv, SettingsKept
    <2>5. TestKept'
      BY <2>2 DEF LineInv, TestKept, LengthKept, Names
    <2>6. AcceptedRuns'
      BY <2>2 DEF LineInv, AcceptedRuns, LengthFits, On
    <2> QED
      BY <2>2, <2>3, <2>4, <2>5, <2>6 DEF LineInv
  <1> QED
    BY <1>1, <1>2, <1>3, <1>4 DEF Next

(* Every counter that is not zero is one of the parser's table. *)
LEMMA CountersOffered ==
  ASSUME LineInv
  PROVE  seen \subseteq {Table[parser][o].counter : o \in DOMAIN Table[parser]}
PROOF
  <1>1. ASSUME NEW c \in seen
        PROVE  \E o \in DOMAIN Table[parser] : c = Table[parser][o].counter
    <2>1. PICK w \in given : c \in Counters(w)
      BY DEF LineInv, WordsKept
    <2>2. LegalWord(w) /\ parser \in Parsers
      BY DEF LineInv, WordsKept
    <2>3. w[1] \in DOMAIN Table[parser] /\ OptionOf(w) = Table[parser][w[1]]
      BY <2>2, WordIs
    <2>4. CASE c = OptionOf(w).counter
      BY <2>3, <2>4
    <2>5. CASE c = "mode" /\ w[1] = "list_bitrates"
      <3>1. parser # "simu_p" /\ "mode" \in DOMAIN Table[parser]
        BY <2>2, <2>3, <2>5, ModeOffered
      <3>2. RowRuled(Kind(parser), "mode", Table[parser]["mode"])
        BY <2>2, <3>1, TablesRuled DEF TableRuled
      <3>3. Table[parser]["mode"].counter = "mode"
        BY <3>2 DEF RowRuled
      <3> QED
        BY <2>5, <3>1, <3>3
    <2> QED
      BY <2>1, <2>2, <2>4, <2>5, CountersAre
  <1> QED
    BY <1>1

(* The settings of a line are what its words say, in whatever order they   *)
(* stand and whichever of their forms they take.                           *)
THEOREM SettingsAreDeclared == Spec => []SettingsDeclared
PROOF
  <1>1. LineInv => SettingsDeclared
    <2> SUFFICES ASSUME LineInv
                 PROVE  SettingsDeclared
      OBVIOUS
    <2>1. TypeOK
      <3>1. given \subseteq Words(parser)
        BY DEF LineInv, WordsKept, LegalWord
      <3> QED
        BY <3>1, CountersOffered DEF LineInv, TestKept, TypeOK
    <2>2. \A w1, w2 \in given : w1 # w2 => Items(w1) \cap Items(w2) = {}
      <3>1. /\ \A w \in given : LegalWord(w)
            /\ \A w1, w2 \in given : w1 # w2 => Counters(w1) \cap Counters(w2) = {}
        BY DEF LineInv, WordsKept
      <3>2. parser \in Parsers
        BY DEF LineInv
      <3> QED
        BY <3>1, <3>2, ItemShared
    <2>3. parser \in Testers /\ result = "scanning" => LengthKept
      BY DEF LineInv, TestKept
    <2> QED
      BY <2>1, <2>2, <2>3 DEF LineInv, SettingsKept, LengthKept, SettingsDeclared
  <1> QED
    BY <1>1, LineStarts, LineKept, PTL DEF Spec

(* What a parser accepts can be done, for every line of every length: CAN  *)
(* FD operation has its timing values, and the frames that can_test is to  *)
(* write are none that the wrapper refuses.                                *)
THEOREM AcceptedLinesRun == Spec => []AcceptedRuns
PROOF
  <1>1. LineInv => AcceptedRuns
    BY DEF LineInv
  <1> QED
    BY <1>1, LineStarts, LineKept, PTL DEF Spec
===============================================================================
