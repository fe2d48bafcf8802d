------------------------------ MODULE MsgFormat -----------------------------
(***************************************************************************)
(* The message formatter of src/Sources/CANAPI/can_msg.c: its options, its *)
(* time stamps and the layout of the line of a message.                    *)
(*                                                                         *)
(* Of a line the model keeps the columns: how wide each part is, and which *)
(* bytes of the data, by their number, stand in which row. A second has    *)
(* Parts parts, which stand for the nanoseconds.                           *)
(***************************************************************************)
EXTENDS Integers, SequencesExt

CONSTANTS
  Configurations,  \* what programs set at a time: values of some of the options
  Messages,        \* the messages: id, xtd, fdf, rtr, dlc
  Stamps,          \* the time stamps: sec and part
  CounterDigits,   \* the widths of the message counter
  Channels,        \* the channel numbers
  MaxSets          \* how often options are set

Parts == 2

ASSUME FormatAssumption ==
  /\ Messages \subseteq [id : Nat, xtd : BOOLEAN, fdf : BOOLEAN, rtr : BOOLEAN, dlc : 0..15]
  /\ \A m \in Messages : m.fdf \/ m.dlc <= 8  \* the driver's LEN of a CAN 2.0 frame
  /\ Stamps \subseteq [sec : Nat, part : 0 .. Parts - 1]
  /\ CounterDigits \subseteq 1..20
  /\ Channels \subseteq Nat
  /\ MaxSets \in Nat

NoStamp == [sec |-> -1, part |-> 0]

NoLine == [of |-> {}, indent |-> 0, rows |-> << >>, width |-> 0]

-----------------------------------------------------------------------------
Numerals == {"hex", "dec", "oct"}

(* Mutant: rows of four bytes are allowed. *)
Wraparounds_four == {0, 4, 8, 10, 16, 32, 64}

(* Zero is no wraparound. *)
Wraparounds == {0, 8, 10, 16, 32, 64}

(* What each option may be set to; of the prompts, how long they may be. *)
Legal ==
  [time_stamp   |-> {"zero", "absolute", "relative"},
   time_usec    |-> BOOLEAN,
   time_format  |-> {"hhmmss", "sec", "djd"},
   id           |-> Numerals,
   id_xtd       |-> BOOLEAN,
   dlc          |-> Numerals,
   dlc_format   |-> {"dlc", "length"},
   dlc_brackets |-> {"none", "(", "["},
   flags        |-> BOOLEAN,
   data         |-> Numerals,
   ascii        |-> BOOLEAN,
   channel      |-> BOOLEAN,
   counter      |-> BOOLEAN,
   separator    |-> {"spaces", "tabs"},
   wraparound   |-> Wraparounds,
   end_of_line  |-> BOOLEAN,
   rx_prompt    |-> 0..6,
   tx_prompt    |-> 0..6]

Defaults ==
  [time_stamp |-> "zero", time_usec |-> FALSE, time_format |-> "sec",
   id |-> "hex", id_xtd |-> FALSE,
   dlc |-> "dec", dlc_format |-> "length", dlc_brackets |-> "none", flags |-> TRUE,
   data |-> "hex", ascii |-> TRUE, channel |-> FALSE, counter |-> TRUE,
   separator |-> "spaces", wraparound |-> 0, end_of_line |-> FALSE,
   rx_prompt |-> 0, tx_prompt |-> 0]

VARIABLES
  option,     \* msg_option
  laststamp,  \* the static variable of format_time, NoStamp while first is 1
  line,       \* msg_string: the line of the last message, NoLine once it is printed
  sets        \* how often options were set (bound)

formatVars == <<option, laststamp, line, sets>>

-----------------------------------------------------------------------------
(* A time before the last stamp is shown as zero. *)
elapsed(stamp, last) ==
  LET part == stamp.part - last.part
      sec  == stamp.sec - last.sec - (IF part < 0 THEN 1 ELSE 0)
  IN  IF sec < 0 THEN [sec |-> 0, part |-> 0]
      ELSE [sec |-> sec, part |-> IF part < 0 THEN part + Parts ELSE part]

(* The reference of the time that is shown: the first stamp counts from    *)
(* itself.                                                                 *)
Reference(stamp) == IF laststamp = NoStamp THEN stamp ELSE laststamp

Shown(stamp) ==
  IF option.time_stamp = "absolute" THEN stamp ELSE elapsed(stamp, Reference(stamp))

NewStamp(stamp) ==
  CASE option.time_stamp = "absolute" -> laststamp
    [] option.time_stamp = "relative" -> stamp
    [] option.time_stamp = "zero"     -> Reference(stamp)

(* The number of digits of n. *)
Digits(n, base) ==
  LET digits[k \in Nat] == IF k < base THEN 1 ELSE 1 + digits[k \div base]
  IN  digits[n]

Wider(m, n) == IF m > n THEN m ELSE n

(* The width of the time. *)
format_time(stamp) ==
  LET sec == Shown(stamp).sec
  IN  CASE option.time_format = "hhmmss" -> 8 + (IF option.time_usec THEN 7 ELSE 5)
        [] option.time_format = "djd"    -> Digits(sec \div 86400, 10)
                                            + (IF option.time_usec THEN 13 ELSE 10)
        [] option.time_format = "sec"    -> Wider(3, Digits(sec, 10))
                                            + (IF option.time_usec THEN 7 ELSE 5)

-----------------------------------------------------------------------------
DLC2LEN(dlc) == IF dlc <= 8 THEN dlc ELSE <<12, 16, 20, 24, 32, 48, 64>>[dlc - 8]

format_id(m) ==
  CASE option.id = "dec" -> Wider(IF option.id_xtd THEN 9 ELSE 4, Digits(m.id, 10))
    [] option.id = "oct" -> Wider(IF option.id_xtd THEN 10 ELSE 4, Digits(m.id, 8))
    [] option.id = "hex" -> Wider(IF option.id_xtd THEN 8 ELSE 3, Digits(m.id, 16))

(* A blank follows a short decimal or octal number of a CAN FD frame. *)
format_dlc(m) ==
  LET length == IF option.dlc_format = "dlc" THEN m.dlc ELSE DLC2LEN(m.dlc)
      blank  == \/ option.dlc = "dec" /\ length < 10
                \/ option.dlc = "oct" /\ length < 64
  IN  (IF option.dlc_brackets = "none" THEN 0 ELSE 2)
      + (CASE option.dlc = "dec" -> Digits(length, 10)
           [] option.dlc = "oct" -> Wider(2, Digits(length, 8))
           [] option.dlc = "hex" -> Digits(length, 16))
      + (IF m.fdf /\ blank THEN 1 ELSE 0)

Tabs == option.separator = "tabs"

Gap(spaces) == IF Tabs THEN 1 ELSE spaces

(* The prompt of received messages stands before a sent one, too, when     *)
(* that one has none.                                                      *)
Prompt(sent) ==
  LET n == IF sent /\ option.tx_prompt > 0 THEN option.tx_prompt ELSE option.rx_prompt
  IN  IF n > 0 THEN n + 1 ELSE 0

(* The columns before the data. *)
LineHead(m, sent, stamp, digits, channel) ==
  Prompt(sent)
  + (IF ~option.counter THEN 0 ELSE IF Tabs THEN digits + 1 ELSE Wider(7, digits) + 2)
  + format_time(stamp) + Gap(2)
  + (IF ~option.channel THEN 0
     ELSE IF Tabs THEN Digits(channel, 10) + 1 ELSE Wider(2, Digits(channel, 10)) + 2)
  + format_id(m) + Gap(2)
  + (IF option.flags THEN 5 + Gap(1) ELSE 0)
  + format_dlc(m)

-----------------------------------------------------------------------------
(* format_data_byte *)
ByteWidth == IF option.data = "hex" THEN 2 ELSE 3

(* format_fill_byte *)
FillWidth == IF option.data = "hex" THEN 2 ELSE 3

(* Bytes in a row. *)
Wraparound(m) ==
  IF option.wraparound = 0 THEN (IF m.fdf THEN 64 ELSE 8) ELSE option.wraparound

(* A row: what stands before it, its bytes, the bytes it is filled with    *)
(* and the bytes that it shows as characters.                              *)
Row(indent) == [indent |-> indent, bytes |-> << >>, fill |-> 0, ascii |-> << >>]

(* The bytes j, j + 1, ... *)
Characters(j, n) == [k \in 1..n |-> j + k - 1]

(* Mutant: the characters of every row start with the first byte. *)
Byte_again(s, i, length, wraparound, ascii, indent) ==
  LET row == [s.row EXCEPT !.bytes = Append(@, i)]
      n   == IF ascii THEN option.wraparound ELSE 0
  IN  IF i + 1 < length /\ s.col + 1 = wraparound
      THEN [rows |-> Append(s.rows, [row EXCEPT !.ascii = Characters(s.j, n)]),
            row  |-> Row(IF Tabs THEN 1 ELSE indent),
            j    |-> s.j,
            col  |-> 0]
      ELSE [s EXCEPT !.row = row, !.col = @ + 1]

(* One pass of the loop over the bytes: i is the number of the byte, j the *)
(* first one that has not been shown as a character, col the column.       *)
Byte(s, i, length, wraparound, ascii, indent) ==
  LET row == [s.row EXCEPT !.bytes = Append(@, i)]
      n   == IF ascii THEN option.wraparound ELSE 0
  IN  IF i + 1 < length /\ s.col + 1 = wraparound
      THEN [rows |-> Append(s.rows, [row EXCEPT !.ascii = Characters(s.j, n)]),
            row  |-> Row(IF Tabs THEN 1 ELSE indent),
            j    |-> s.j + n,
            col  |-> 0]
      ELSE [s EXCEPT !.row = row, !.col = @ + 1]

format_data(m, ascii, indent) ==
  LET length     == DLC2LEN(m.dlc)
      wraparound == Wraparound(m)
      start      == [rows |-> << >>, row |-> Row(indent), j |-> 0, col |-> 0]
      loop[i \in 0..length] ==
        IF i = 0 THEN start ELSE Byte(loop[i - 1], i - 1, length, wraparound, ascii, indent)
      s == loop[length]
  IN  Append(s.rows,
             IF ascii THEN [s.row EXCEPT !.fill  = wraparound - s.col,
                                         !.ascii = Characters(s.j, length - s.j)]
             ELSE s.row)

(* One pass of the loop of format_ascii, which keeps the bytes of its rows. *)
AsciiByte(s, i, length, wraparound) ==
  IF i + 1 < length /\ s.col + 1 = wraparound
  THEN [rows |-> Append(s.rows, Append(s.row, i)), row |-> << >>, col |-> 0]
  ELSE [s EXCEPT !.row = Append(@, i), !.col = @ + 1]

(* msg_format_ascii: the bytes of each row. *)
format_ascii(m) ==
  LET length == DLC2LEN(m.dlc)
      loop[i \in 0..length] ==
        IF i = 0 THEN [rows |-> << >>, row |-> << >>, col |-> 0]
        ELSE AsciiByte(loop[i - 1], i - 1, length, Wraparound(m))
  IN  Append(loop[length].rows, loop[length].row)

(* The column at which the characters of a row start, and the row's end. *)
AsciiColumn(row) ==
  row.indent + Len(row.bytes) * (ByteWidth + 1) - 1
  + (IF row.fill > 0 THEN row.fill * (FillWidth + 1) ELSE 0) + Gap(2)

RowEnd(row) ==
  IF option.ascii THEN AsciiColumn(row) + Len(row.ascii)
  ELSE row.indent + Len(row.bytes) * (ByteWidth + 1) - 1

(* The characters of a line, those that end a row or the line included. *)
LineWidth(head, rows) ==
  LET ends[r \in 0 .. Len(rows)] ==
        IF r = 0 THEN Len(rows) - 1 ELSE ends[r - 1] + RowEnd(rows[r])
  IN  (IF rows = << >> THEN head ELSE ends[Len(rows)]) + (IF option.end_of_line THEN 1 ELSE 0)

-----------------------------------------------------------------------------
FormatInit == option = Defaults /\ laststamp = NoStamp /\ line = NoLine /\ sets = 0

(* Setters are called; what is not legal for its option is refused. *)
SetOptions(values) ==
  /\ line = NoLine /\ sets < MaxSets
  /\ option' = [o \in DOMAIN option |->
                  IF o \in DOMAIN values /\ values[o] \in Legal[o] THEN values[o] ELSE option[o]]
  /\ sets' = sets + 1
  /\ UNCHANGED <<laststamp, line>>

msg_format_message(m, sent, stamp, digits, channel) ==
  LET head   == LineHead(m, sent, stamp, digits, channel)
      indent == head + Gap(2)
      rows   == IF m.dlc > 0 /\ ~m.rtr THEN format_data(m, option.ascii, indent) ELSE << >>
  IN  /\ line = NoLine
      /\ line' = [of |-> {m}, indent |-> indent, rows |-> rows, width |-> LineWidth(head, rows)]
      /\ laststamp' = NewStamp(stamp)
      /\ UNCHANGED <<option, sets>>

(* The caller writes the line out before it calls the formatter again. *)
WriteOut == line # NoLine /\ line' = NoLine /\ UNCHANGED <<option, laststamp, sets>>

FormatNext ==
  \/ \E values \in Configurations : SetOptions(values)
  \/ WriteOut
  \/ \E m \in Messages, sent \in BOOLEAN, stamp \in Stamps, digits \in CounterDigits,
        channel \in Channels : msg_format_message(m, sent, stamp, digits, channel)

FormatSpec == FormatInit /\ [][FormatNext]_formatVars

-----------------------------------------------------------------------------
(* The options have values of their setters' ranges. *)
FormatTypeOK ==
  /\ DOMAIN option = DOMAIN Legal
  /\ \A o \in DOMAIN option : option[o] \in Legal[o]
  /\ laststamp \in Stamps \cup {NoStamp}
  /\ line.width \in Nat

(* The line fits into the buffer MSG_STRING_LENGTH with its final zero,    *)
(* whatever the options: strcat does not look at the length.               *)
LineFits == line.width < 1024

(* The rows of a line show every byte of the data once and in order, and   *)
(* the characters at the end of a row are those of its own bytes, although *)
(* bytes and characters are counted by two variables and against two       *)
(* limits.                                                                 *)
RowsShowAll ==
  \A r \in DOMAIN line.rows :
    LET row   == line.rows[r]
        first == IF r = 1 THEN 0 ELSE Last(line.rows[r - 1].bytes) + 1
    IN  /\ row.bytes # << >> /\ row.bytes = Characters(first, Len(row.bytes))
        /\ r = Len(line.rows) => \A m \in line.of : Last(row.bytes) = DLC2LEN(m.dlc) - 1
        /\ option.ascii => row.ascii = row.bytes

(* The characters of all rows of a line start at the same column. *)
AsciiAligned ==
  ~Tabs /\ option.ascii =>
    \A r \in DOMAIN line.rows : AsciiColumn(line.rows[r]) = AsciiColumn(line.rows[1])

(* The number of the length does not shift the data: frames of the same    *)
(* format have their data at the same column, unless lengths are shown in  *)
(* hexadecimal digits.                                                     *)
LengthColumnSteady ==
  option.dlc # "hex" =>
    \A m \in line.of, n \in Messages : m.fdf = n.fdf => format_dlc(m) = format_dlc(n)

Ticks(stamp) == stamp.sec * Parts + stamp.part

(* The time that is shown is the one that has passed since the reference,  *)
(* and none if the stamp is before it.                                     *)
TimesTell ==
  laststamp # NoStamp =>
    \A stamp \in Stamps :
      LET shown == elapsed(stamp, laststamp)
      IN  /\ shown.part \in 0 .. Parts - 1
          /\ Ticks(shown) = Wider(0, Ticks(stamp) - Ticks(laststamp))

(* A row of the data and one of msg_format_ascii hold the same bytes. *)
RowsAgree ==
  \A m \in line.of :
    line.rows # << >> => format_ascii(m) = [r \in DOMAIN line.rows |-> line.rows[r].bytes]

(* What a line shows is true and stands in its column, under every option. *)
LineTells ==
  /\ FormatTypeOK /\ RowsShowAll /\ RowsAgree
  /\ AsciiAligned /\ LengthColumnSteady /\ TimesTell
=============================================================================
