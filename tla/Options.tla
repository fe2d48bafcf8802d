------------------------------- MODULE Options -------------------------------
(***************************************************************************)
(* The command lines of the utilities: ScanCommanline of                   *)
(* src/Utilities/can_*/Sources/Options_p.cpp (getopt_long, "_p") and       *)
(* Options_w.cpp (Windows, "_w").  Each of the nine parsers has a table of *)
(* options; the words of a line are read one by one in any order, and the  *)
(* line is checked when all are read.                                      *)
(*                                                                         *)
(* A word is an option with an argument, by its long name.  Arguments that *)
(* an option takes for the same thing are one value here, all that it      *)
(* refuses are "bad", and "none" is no argument at all.  The protocol and  *)
(* search-path options are not in these builds.                            *)
(***************************************************************************)
EXTENDS Integers, FiniteSets, Sequences

CONSTANTS
  none, bad,     \* no argument, and one that the option refuses
  Shared, Trace, \* build options CAN_SHARED_SUPPORTED and CAN_TRACE_SUPPORTED
  Lengths,       \* arguments of --dlc that are tried
  MaxWords       \* bound on the options of a line

ASSUME LengthsAssumption == Lengths \subseteq 0..64

Setting(item, value) == [i \in {item} |-> value]

(* Both of two functions, where the first one counts: settings over those  *)
(* that there were, and tables of options put together.                    *)
f ++ g == [x \in DOMAIN f \cup DOMAIN g |-> IF x \in DOMAIN f THEN f[x] ELSE g[x]]

(* An option: the counter that is to find it twice, and what each legal    *)
(* argument sets.                                                          *)
Option(counter, legal) == [counter |-> counter, legal |-> legal]

Flag(counter, item) == Option(counter, Setting(none, Setting(item, TRUE)))

Choice(counter, item, values) == Option(counter, [v \in values |-> Setting(item, v)])

Switch(counter, item, on) == Option(counter, [v \in {"yes", "no"} |-> Setting(item, v = on)])

Quit(item) == Setting(item, TRUE) ++ Setting("exit", TRUE)

Leaving(item) == Option(item, Setting(none, Quit(item)))

Built(supported, table) == IF supported THEN table ELSE <<>>
-------------------------------------------------------------------------------
(* Options that parsers have in common. *)

Rates == [baudrate |-> Choice("bitrate", "bitrate", {"index"}),
          bitrate  |-> Choice("bitrate", "bitrate", {"timing"})]

(* The counter of --verbose is tested and never counted. *)
Verbose == [verbose |-> Flag("uncounted", "verbose")]

Formats == [cc |-> <<>>, fd |-> [fdoe |-> TRUE], brs |-> [fdoe |-> TRUE, brse |-> TRUE]]

Mode == [mode |-> Option("mode", Formats)]

SharedAccess == Built(Shared, [shared |-> Flag("shared", "shrd")])

ErrorFrames == [error_frames |-> Flag("error_frames", "err")]

ListenOnly == [listen_only |-> Flag("listen_only", "mon")]

Suppress == [no_extended_frames |-> Flag("extended_frames", "nxtd"),
             no_remote_frames   |-> Flag("remote_frames", "nrtr")]

(* The Windows forms with an argument. *)
ErrorSwitch == [err |-> Switch("error_frames", "err", "yes")]

MonSwitch == [mon |-> Switch("listen_only", "mon", "yes")]

SuppressSwitches == [xtd |-> Switch("extended_frames", "nxtd", "no"),
                     rtr |-> Switch("remote_frames", "nrtr", "no")]

Filters == [code     |-> Choice("code", "code", {"id"}),
            mask     |-> Choice("mask", "mask", {"id"}),
            xtd_code |-> Choice("xtd_code", "xtd_code", {"id"}),
            xtd_mask |-> Choice("xtd_mask", "xtd_mask", {"id"})]

TraceMode == Built(Trace, [trace |-> Choice("trace", "trace", {"off", "vendor"})])

(* The argument of --list-bitrates is an operation mode. *)
Listing == [list_bitrates |-> Option("list_bitrates",
             [m \in DOMAIN Formats \cup {none} |->
                (IF m = none THEN <<>> ELSE Formats[m]) ++ Quit("list_bitrates")]),
          list_boards |-> Leaving("list_boards"), test_boards |-> Leaving("test_boards"),
          json |-> Option("json", Setting("file", Quit("json")))]

(* On Windows an argument of these two is not looked at. *)
Ignoring(item) == Option(item, [v \in {none, bad} |-> Quit(item)])

ListsIgnoring ==
  [list_boards |-> Ignoring("list_boards"), test_boards |-> Ignoring("test_boards")] ++ Listing

Layout == [time  |-> Choice("time", "time", {"abs", "rel", "zero"}),
           id    |-> Choice("id", "id", {"hex", "dec", "oct"}),
           data  |-> Choice("data", "data", {"hex", "dec", "oct"}),
           ascii |-> Choice("ascii", "ascii", {"on", "off"}),
           wrap  |-> Choice("wrap", "wrap", {"no", "8", "10", "16", "32", "64"})]

Exclusion == [exclude |-> Choice("exclude", "exclude", {"ids"})]

Server == [logging |-> Choice("logging", "logging", {"level"}),
           security_risks |-> Choice("risks", "accepted", {"accept", bad})]

(* The tests of can_test: the last one named is the one to run. *)
Tests ==
  [receive  |-> Option("receive", Setting(none, [test |-> "rx"])),
   number   |-> Choice("number", "number", {"n"}),
   stop     |-> Flag("stop", "stop"),
   transmit |-> Option("transmit", Setting("n", [test |-> "time", time |-> "n"])),
   frames   |-> Option("frames", Setting("n", [test |-> "frames", count |-> "n"])),
   random   |-> Option("random", Setting("n", [test |-> "random", count |-> "n"]))]

(* --cycle and --usec set one delay. *)
Message ==
  [cycle    |-> Choice("cycle", "delay", {"ms"}),
   usec     |-> Choice("cycle", "delay", {"us"}),
   dlc      |-> Choice("dlc", "dlc", Lengths),
   id       |-> Choice("id", "id", {"std", "xtd"}),
   extended |-> Flag("extended", "xtd")]
-------------------------------------------------------------------------------
(* What each parser has of these. *)

moni_p_rates   == Rates ++ Verbose
moni_p_modes   == Mode ++ SharedAccess ++ ListenOnly ++ ErrorFrames ++ Suppress
moni_p_filters == Filters ++ TraceMode
moni_p_layout  == Layout ++ Exclusion
moni_p_lists   == Listing

moni_w_rates   == Rates ++ Verbose
moni_w_modes   == Mode ++ SharedAccess ++ ListenOnly ++ MonSwitch ++ ErrorFrames ++ ErrorSwitch
moni_w_filters == SuppressSwitches ++ Filters ++ TraceMode
moni_w_layout  == Layout ++ Exclusion
moni_w_lists   == ListsIgnoring

test_p_rates   == Rates ++ Verbose
test_p_modes   == Mode ++ SharedAccess ++ ListenOnly ++ ErrorFrames ++ Suppress
test_p_filters == Filters ++ TraceMode
test_p_tests   == Tests
test_p_message == Message
test_p_lists   == Listing

test_w_rates   == Rates ++ Verbose
test_w_modes   == Mode ++ SharedAccess ++ ListenOnly ++ MonSwitch ++ ErrorFrames ++ ErrorSwitch
test_w_filters == SuppressSwitches ++ Filters ++ TraceMode
test_w_tests   == Tests
test_w_message == Message
test_w_lists   == ListsIgnoring

port_p_rates   == Rates ++ Verbose
port_p_modes   == Mode ++ SharedAccess ++ ListenOnly ++ ErrorFrames ++ Suppress
port_p_filters == Filters ++ TraceMode
port_p_server  == Server
port_p_lists   == Listing

port_w_rates   == Rates ++ Verbose
port_w_modes   == Mode ++ ErrorFrames ++ ErrorSwitch ++ TraceMode
port_w_server  == Server
port_w_lists   == ListsIgnoring

send_p_rates   == Rates ++ Verbose
send_p_modes   == Mode ++ SharedAccess ++ ListenOnly ++ ErrorFrames ++ Suppress
send_p_filters == Filters ++ TraceMode
send_p_lists   == Listing

send_w_rates   == Rates ++ Verbose
send_w_modes   == Mode ++ SharedAccess ++ ListenOnly ++ MonSwitch ++ ErrorFrames ++ ErrorSwitch
send_w_filters == SuppressSwitches ++ Filters ++ TraceMode
send_w_lists   == ListsIgnoring

simu_p_server  == Server

(* The tables of the nine parsers, and the counters of their options. *)
moni_p == moni_p_rates ++ moni_p_modes ++ moni_p_filters ++ moni_p_layout ++ moni_p_lists
moni_w == moni_w_rates ++ moni_w_modes ++ moni_w_filters ++ moni_w_layout ++ moni_w_lists
test_p == test_p_rates ++ test_p_modes ++ test_p_filters ++ test_p_tests
            ++ test_p_message ++ test_p_lists
test_w == test_w_rates ++ test_w_modes ++ test_w_filters ++ test_w_tests
            ++ test_w_message ++ test_w_lists
port_p == port_p_rates ++ port_p_modes ++ port_p_filters ++ port_p_server ++ port_p_lists
port_w == port_w_rates ++ port_w_modes ++ port_w_server ++ port_w_lists
send_p == send_p_rates ++ send_p_modes ++ send_p_filters ++ send_p_lists
send_w == send_w_rates ++ send_w_modes ++ send_w_filters ++ send_w_lists
simu_p == simu_p_server

Table == [moni_p |-> moni_p, moni_w |-> moni_w, test_p |-> test_p,
          test_w |-> test_w, port_p |-> port_p, port_w |-> port_w,
          send_p |-> send_p, send_w |-> send_w, simu_p |-> simu_p]

Parsers == DOMAIN Table

Posix == {"moni_p", "test_p", "port_p", "send_p", "simu_p"}

Testers == {"test_p", "test_w"}
-------------------------------------------------------------------------------
VARIABLES
  parser, \* whose ScanCommanline runs
  given,  \* the words read so far (ghost)
  seen,   \* the counters that are not zero
  opts,   \* the settings that differ from the constructor's, and the defaults
  result  \* "scanning", "shown" after help or version, "accepted" or "refused"

vars == <<parser, given, seen, opts, result>>

(* The constructor's settings that a check below reads. *)
Defaults(p) ==
  IF p \in Testers THEN [bitrate |-> "index", test |-> "rx", dlc |-> 8]
  ELSE IF p = "simu_p" THEN <<>> ELSE [bitrate |-> "index"]

Init ==
  /\ parser \in Parsers
  /\ given = {}
  /\ seen = {}
  /\ opts = Defaults(parser)
  /\ result = "scanning"

Words(p) == UNION {{o} \X (DOMAIN Table[p][o].legal \cup {none, bad}) : o \in DOMAIN Table[p]}

OptionOf(word) == Table[parser][word[1]]

Says(word) == OptionOf(word).legal[word[2]]

Legal(word) == word[2] \in DOMAIN OptionOf(word).legal

(* An operation mode in --list-bitrates counts as one in --mode. *)
Counters(word) ==
  ({OptionOf(word).counter} \ {"uncounted"})
    \cup (IF word[1] = "list_bitrates" /\ word[2] # none THEN {"mode"} ELSE {})

(* Mutant: --random overrides a --dlc before it. *)
Sets_zero(word) ==
  (IF word[1] = "random" THEN Setting("dlc", 0) ELSE <<>>) ++ Says(word)

(* --random lets the test choose the lengths, unless --dlc came before. *)
Sets(word) ==
  (IF word[1] = "random" /\ "dlc" \notin seen THEN Setting("dlc", 0) ELSE <<>>)
    ++ Says(word)

Read(word) ==
  /\ result = "scanning"
  /\ Cardinality(given) < MaxWords
  /\ IF Counters(word) \cap seen = {} /\ Legal(word)
     THEN /\ given' = given \cup {word}
          /\ seen' = seen \cup Counters(word)
          /\ opts' = Sets(word) ++ opts
          /\ UNCHANGED <<parser, result>>
     ELSE /\ result' = "refused"
          /\ UNCHANGED <<parser, given, seen, opts>>

(* A word that no table has, help and version. *)
Unknown ==
  /\ result = "scanning"
  /\ parser \in Posix
  /\ result' = "refused"
  /\ UNCHANGED <<parser, given, seen, opts>>

Show ==
  /\ result = "scanning"
  /\ result' = "shown"
  /\ UNCHANGED <<parser, given, seen, opts>>

On(item) == item \in DOMAIN opts /\ opts[item] = TRUE

(* What is no option is the interface.  can_port takes the part behind '@' *)
(* from it: "plain" has no '@' and "open" nothing behind it.               *)
Arguments == {<<>>} \cup {<<a>> : a \in {"plain", "open", "port"}} \cup {<<"plain", "port">>}

Counted(args) == Len(args) = 1 \/ (args = <<>> /\ On("exit"))

PortGiven(args) ==
  CASE parser = "port_p" -> args \in {<<>>, <<"open">>, <<"port">>}
    [] parser = "port_w" -> args = <<"port">> \/ On("exit")
    [] OTHER             -> TRUE

(* Mutant: any option of the bit-rate will do. *)
IndexWithFD_unset == On("fdoe") /\ "bitrate" \notin seen

IndexWithFD == On("fdoe") /\ opts.bitrate = "index"

Fits == On("fdoe") \/ opts.dlc <= 8

SilentTest == opts.test # "rx" /\ \E item \in {"mon", "err", "nxtd", "nrtr"} : On(item)

(* Without an interface the POSIX parsers check nothing more. *)
Checked(args) == ~(parser \in Posix /\ args = <<>>)

Refused(args) ==
  \/ ~Counted(args)
  \/ ~PortGiven(args)
  \/ /\ ~On("exit")
     /\ IndexWithFD \/ (parser \in Testers /\ (~Fits \/ SilentTest))

(* The DLC of a length: nine and more stand for the lengths of CAN FD. *)
Dlc(length) ==
  IF length <= 8 THEN length
  ELSE 9 + Cardinality({bound \in {12, 16, 20, 24, 32, 48} : bound < length})

Finish(args) ==
  /\ result = "scanning"
  /\ result' = IF Refused(args) THEN "refused" ELSE "accepted"
  /\ opts' = IF parser \in Testers /\ Checked(args) /\ ~Refused(args)
             THEN [opts EXCEPT !.dlc = Dlc(opts.dlc)] ELSE opts
  /\ UNCHANGED <<parser, given, seen>>

Next ==
  \/ \E word \in Words(parser) : Read(word)
  \/ Unknown
  \/ Show
  \/ \E args \in Arguments : Finish(args)

Spec == Init /\ [][Next]_vars
-------------------------------------------------------------------------------
Names(option) == \E word \in given : word[1] = option

(* Type correctness, and a transmit test has the number it counts to. *)
TypeOK ==
  /\ parser \in Parsers
  /\ result \in {"scanning", "shown", "accepted", "refused"}
  /\ given \subseteq Words(parser)
  /\ seen \subseteq {Table[parser][o].counter : o \in DOMAIN Table[parser]}
  /\ parser \in Testers =>
       /\ opts.dlc \in 0..64
       /\ opts.test = "time" => "time" \in DOMAIN opts
       /\ opts.test \in {"frames", "random"} => "count" \in DOMAIN opts

(* The tests of can_test override one another: only the last one counts. *)
Overridden == IF parser \in Testers THEN {"test", "time", "count", "dlc"} ELSE {}

Items(word) == DOMAIN Says(word) \ (Overridden \cup {"exit"})

(* A setting is what the words of the line say, in whatever order they     *)
(* stand, and no two words set one thing: each of the aliases, the         *)
(* switches with and without an argument, and the mode inside              *)
(* --list-bitrates goes through a counter that another option must share.  *)
(* The length is that of --dlc, or free for --random without --dlc.        *)
SettingsDeclared ==
  /\ TypeOK
  /\ \A word \in given : \A item \in Items(word) : opts[item] = Says(word)[item]
  /\ \A w1, w2 \in given : w1 # w2 => Items(w1) \cap Items(w2) = {}
  /\ DOMAIN opts = DOMAIN Defaults(parser) \cup UNION {DOMAIN Says(word) : word \in given}
  /\ parser \in Testers /\ result = "scanning" =>
       IF Names("dlc") THEN <<"dlc", opts.dlc>> \in given
       ELSE opts.dlc = IF Names("random") THEN 0 ELSE 8

(* The length of a DLC, as the API defines it. *)
Dlc2Len == <<0, 1, 2, 3, 4, 5, 6, 7, 8, 12, 16, 20, 24, 32, 48, 64>>

(* can_test sends the shortest frame that holds the length asked for. *)
LengthFits ==
  result = "accepted" /\ parser \in Testers /\ ~On("exit") =>
    \A length \in Lengths : <<"dlc", length>> \in given =>
      /\ Dlc2Len[opts.dlc + 1] >= length
      /\ opts.dlc > 0 => Dlc2Len[opts.dlc] < length

(* What is accepted can be done: the wrapper starts CAN FD operation only  *)
(* with timing values, not with an index, and a transmit test writes no    *)
(* frame that the operation mode, or a listening controller, refuses, in   *)
(* the length asked for.                                                   *)
AcceptedRuns ==
  /\ LengthFits
  /\ result = "accepted" /\ ~On("exit") =>
    /\ On("fdoe") => <<"bitrate", "timing">> \in given
    /\ parser \in Testers =>
         /\ opts.dlc <= IF On("fdoe") THEN 15 ELSE 8
         /\ opts.test # "rx" => ~On("mon") /\ ~(On("nxtd") /\ On("xtd"))
===============================================================================
