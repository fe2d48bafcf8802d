------------------------------- MODULE CanTest -------------------------------
(***************************************************************************)
(* Two programs at the ends of one CAN bus: the transmitter tests of       *)
(* src/Utilities/can_test/Sources/main.cpp, or the message sender of       *)
(* src/Utilities/can_send/Sources/main.cpp, at one end, the receiver test  *)
(* of can_test at the other.  The transmitter tests number their messages  *)
(* and the receiver test checks the numbers.                               *)
(*                                                                         *)
(* The numbers are 64 bits wide and wrap.  A number is sent in as many     *)
(* data bytes as the message has.  Here a unit of width is one bit instead *)
(* of one byte: a message of width w carries a number modulo 2^w, MaxWidth *)
(* stands for all eight bytes and LineWidth for the four that can_send     *)
(* counts.                                                                 *)
(***************************************************************************)
EXTENDS Utility, FiniteSets

CONSTANTS
  tx, rx,             \* the two programs
  MinWidth, MaxWidth, \* widths of the number in a message
  LineWidth,          \* width of the number that can_send counts
  Numbers,            \* start numbers that the command lines may give the programs
  Count,              \* messages to send, in the tests that count them
  MaxFrames,          \* bound on the messages of the test by time
  MaxLines,           \* bound on the lines for can_send
  QueueSize,          \* messages the receiver's driver keeps
  Lines               \* lines for can_send: records of count, data, incr

ASSUME ProgramsAssumption == Programs = {tx, rx} /\ tx # rx
ASSUME WidthAssumption ==
  /\ MinWidth \in Nat /\ MaxWidth \in Nat /\ MinWidth <= MaxWidth
  /\ LineWidth \in MinWidth..MaxWidth
ASSUME BoundsAssumption == MaxFrames \in Nat /\ MaxLines \in Nat /\ QueueSize \in Nat

(* How many numbers the data of a message can tell apart.  The assumption  *)
(* is for the prover, which does not know powers.                          *)
Values(width) == 2^width

ASSUME PowersAssumption ==
  \A v, w \in MinWidth..MaxWidth : v <= w =>
    /\ Values(v) \in Nat \ {0} /\ Values(w) % Values(v) = 0
    /\ v < w => Values(v) < Values(w)

ASSUME NumbersAssumption == Numbers \subseteq [Programs -> 0..(Values(MaxWidth) - 1)]

(* The parser of can_send refuses a count of zero. *)
ASSUME LinesAssumption ==
  Lines \subseteq [count : Nat \ {0}, data : 0..(Values(LineWidth) - 1), incr : -1..1]

VARIABLES
  job,      \* the sender's: "time", "frames", "random" or "send"
  faulty,   \* writes and reads may fail
  acks,     \* somebody on the bus acknowledges
  stop,     \* the receiver test stops on the first error
  number,   \* start number of the program: the first one sent or expected
  frames,   \* messages the transmitter test has sent, lines that can_send has read
  timeUp,   \* the test by time has run its duration
  line,     \* the line can_send works on: messages left, data of the next one, increment
  batch,    \* history: data of the messages sent for that line
  busy,     \* the transmitter is busy
  sent,     \* history: the number in the last frame on the bus
  rxq,      \* frames in the receiver's driver
  expected, \* the number that the receiver test expects next
  judged    \* history: the last two frames received, and whether there was an alarm

jobVars == <<job, faulty, acks, stop, number>>
txVars  == <<frames, timeUp, line, batch, busy, sent>>
rxVars  == <<rxq, expected, judged>>
vars    == <<mainVars, jobVars, txVars, rxVars>>

(* What the data of a message keeps of a number. *)
Carried(n, width) == n % Values(width)

(* A number in a variable of the type uint64_t. *)
Uint64(n) == n % Values(MaxWidth)

(* What the receiver test takes for received before the first message. *)
Start(n) == [n |-> Uint64(n), width |-> MaxWidth]

NoLine == [left |-> 0, count |-> 0, data |-> 0, first |-> 0, incr |-> 0]

Init ==
  /\ job \in {"time", "frames", "random", "send"}
  /\ tool = [p \in Programs |-> IF p = tx /\ job = "send" THEN "send" ELSE "test"]
  /\ Main
  /\ faulty \in BOOLEAN /\ acks \in BOOLEAN /\ stop \in BOOLEAN /\ number \in Numbers
  /\ frames = 0 /\ timeUp = FALSE /\ line = NoLine /\ batch = <<>> /\ busy = FALSE
  /\ sent = Uint64(number[tx] - 1)
  /\ rxq = <<>> /\ expected = number[rx]
  /\ judged = [prev |-> Start(number[rx] - 2), now |-> Start(number[rx] - 1), alarm |-> FALSE]

(* The signal handler.  It ends a select that waits for a message.         *)
Signal(p) ==
  /\ pc[p] # "exit" /\ running[p] /\ running' = [running EXCEPT ![p] = FALSE]
  /\ IF pc[p] = "wait" THEN Goto(p, "check") ELSE UNCHANGED pc
  /\ UNCHANGED <<tool, walkVars, fExit, chan, retVal, jobVars, txVars, rxVars>>

JobStep(p, from, to) == Step(p, from, to) /\ UNCHANGED <<tool, walkVars, fExit, chan, retVal, running, jobVars>>
-------------------------------------------------------------------------------
(* A frame goes over the bus, if somebody acknowledges it, and into the    *)
(* receiver's driver, if its channel is on and its queue not full.         *)
Put(frame) ==
  /\ sent' = IF acks THEN frame.n ELSE sent
  /\ rxq' = IF acks /\ chan[rx] = "on" /\ Len(rxq) < QueueSize THEN Append(rxq, frame) ELSE rxq
  /\ busy' \in IF acks THEN BOOLEAN ELSE {TRUE}
  /\ UNCHANGED <<expected, judged>>

Drain ==
  /\ busy /\ acks /\ busy' = FALSE
  /\ UNCHANGED <<mainVars, jobVars, frames, timeUp, line, batch, sent, rxVars>>

TimeUp ==
  /\ job = "time" /\ pc[tx] \in {"job", "write", "check"} /\ ~timeUp /\ timeUp' = TRUE
  /\ UNCHANGED <<mainVars, jobVars, frames, line, batch, busy, sent, rxVars>>

(* Mutant: the test goes on until it is stopped. *)
More_stopped == running[tx]

More == IF job = "time" THEN ~timeUp ELSE frames < Count

(* The head of the loop of a transmitter test: the next number, or the end. *)
TxLoop ==
  /\ job # "send"
  /\ \/ More /\ frames < MaxFrames /\ JobStep(tx, "job", "write")
     \/ ~More /\ JobStep(tx, "job", "teardown")
  /\ UNCHANGED <<txVars, rxVars>>

Width == IF job = "random" THEN MinWidth..MaxWidth ELSE {MinWidth}

(* Mutant: the call is repeated until the transmitter is free. *)
GivesUp_never == faulty

(* The transmitter is busy: the call is repeated, unless the program is to *)
(* stop.  It fails for good then, or when the device fails.                *)
GivesUp == faulty \/ (busy /\ ~running[tx])

(* Mutant: a message that could not be sent is counted. *)
Failed_counted == frames + 1

Failed == frames

(* WriteMessage in a transmitter test, with its repetitions.               *)
TxWrite ==
  /\ job # "send" /\ JobStep(tx, "write", "check")
  /\ \/ /\ ~busy
        /\ frames' = frames + 1
        /\ \E w \in Width : Put([n |-> Uint64(number[tx] + frames), width |-> w])
     \/ /\ GivesUp
        /\ frames' = Failed
        /\ UNCHANGED <<busy, sent, rxVars>>
  /\ UNCHANGED <<timeUp, line, batch>>

TxCheck ==
  /\ \/ running[tx] /\ JobStep(tx, "check", "job")
     \/ ~running[tx] /\ JobStep(tx, "check", "teardown")
  /\ UNCHANGED <<txVars, rxVars>>
-------------------------------------------------------------------------------
(* can_send reads a line.  It notices a signal only between two of them.   *)
SendLoop ==
  /\ job = "send"
  /\ \/ running[tx] /\ JobStep(tx, "job", "line")
     \/ ~running[tx] /\ JobStep(tx, "job", "teardown")
  /\ UNCHANGED <<txVars, rxVars>>

(* The line is a message to send one or more times, the end of the input,  *)
(* or nothing that could be sent.                                          *)
ReadLine ==
  /\ frames < MaxLines /\ frames' = frames + 1
  /\ \/ \E l \in Lines :
          /\ JobStep(tx, "line", "write")
          /\ line' = [left |-> l.count, count |-> l.count, data |-> l.data, first |-> l.data, incr |-> l.incr]
          /\ batch' = <<>>
     \/ /\ JobStep(tx, "line", "job") \/ JobStep(tx, "line", "teardown")
        /\ UNCHANGED <<line, batch>>
  /\ UNCHANGED <<timeUp, busy, sent, rxVars>>

(* Mutant: data is only counted up. *)
Counted_up(data, incr) == IF incr = 0 THEN 0 ELSE (data + 1) % Values(LineWidth)

(* The first four data bytes of the next message: counted up or down, or   *)
(* set to zero.                                                            *)
Counted(data, incr) == IF incr = 0 THEN 0 ELSE (data + incr) % Values(LineWidth)

(* Mutant: after an error the number expected stays where it was. *)
Compare_kept(frame) ==
  LET data  == Carried(frame.n, frame.width)
      alarm == data # expected
  IN  /\ judged' = [prev |-> judged.now, now |-> frame, alarm |-> alarm]
      /\ expected' = Uint64(IF alarm THEN expected + 1 ELSE data + 1)
      /\ JobStep(rx, "job", IF alarm /\ stop THEN "teardown" ELSE "check")

(* One message of a line, with the bytes that are counted; an error ends   *)
(* the line.                                                               *)
SendWrite ==
  /\ job = "send" /\ pc[tx] = "write"
  /\ \/ /\ ~busy
        /\ JobStep(tx, "write", IF line.left = 1 THEN "job" ELSE "write")
        /\ batch' = Append(batch, line.data)
        /\ line' = [line EXCEPT !.left = @ - 1, !.data = Counted(@, line.incr)]
        /\ Put([n |-> line.data, width |-> LineWidth])
     \/ /\ GivesUp
        /\ JobStep(tx, "write", "job")
        /\ UNCHANGED <<batch, line, busy, sent, rxVars>>
  /\ UNCHANGED <<frames, timeUp>>
-------------------------------------------------------------------------------
(* The number of a message against the one expected; the next one is       *)
(* expected to follow what was received.                                   *)
Compare(frame) ==
  LET data  == Carried(frame.n, frame.width)
      alarm == data # expected
  IN  /\ judged' = [prev |-> judged.now, now |-> frame, alarm |-> alarm]
      /\ expected' = IF alarm /\ stop THEN expected ELSE Uint64(data + 1)
      /\ JobStep(rx, "job", IF alarm /\ stop THEN "teardown" ELSE "check")

RxRead ==
  /\ \/ /\ rxq # <<>> /\ Compare(Head(rxq)) /\ rxq' = Tail(rxq)
     \/ /\ rxq = <<>> /\ JobStep(rx, "job", "wait") /\ UNCHANGED rxVars
     \/ /\ faulty /\ JobStep(rx, "job", "check") /\ UNCHANGED rxVars
  /\ UNCHANGED txVars

RxWait == rxq # <<>> /\ JobStep(rx, "wait", "job") /\ UNCHANGED <<txVars, rxVars>>

RxCheck ==
  /\ \/ running[rx] /\ JobStep(rx, "check", "job")
     \/ ~running[rx] /\ JobStep(rx, "check", "teardown")
  /\ UNCHANGED <<txVars, rxVars>>
-------------------------------------------------------------------------------
InMain(p) == MainStep(p) /\ UNCHANGED <<jobVars, txVars, rxVars>>

Sender   == InMain(tx) \/ TxLoop \/ TxWrite \/ TxCheck \/ SendLoop \/ SendWrite
Receiver == InMain(rx) \/ RxRead \/ RxWait \/ RxCheck

Next == Sender \/ ReadLine \/ Receiver \/ Drain \/ TimeUp \/ \E p \in Programs : Signal(p)

(* The operating system runs both programs, the bus takes the frames of    *)
(* the transmitter where somebody acknowledges them, time goes on.  Nobody *)
(* has to type a line or to press ^C.                                      *)
Spec ==
  /\ Init /\ [][Next]_vars
  /\ WF_vars(Sender) /\ WF_vars(Receiver) /\ WF_vars(Drain) /\ WF_vars(TimeUp)
-------------------------------------------------------------------------------
TypeOK ==
  /\ MainTypeOK
  /\ \A p \in Programs : pc[p] \in Places(tool[p]) \cup {"write", "check", "line", "wait", "exit"}
  /\ frames \in 0..(IF job = "send" THEN MaxLines ELSE MaxFrames)
  /\ line.data \in 0..(Values(LineWidth) - 1) /\ Len(batch) <= line.count
  /\ Len(rxq) <= QueueSize
  /\ expected \in 0..(Values(MaxWidth) - 1)

(* The programs keep to their way through main, whatever the bus does: the *)
(* walks through the channel list are complete, the channel is given back. *)
MainOrderly == TypeOK /\ WalkComplete /\ ChannelReleased

Fits(frame) == frame.n < Values(frame.width)

Lesser(v, w) == IF v <= w THEN v ELSE w

(* The messages of a transmitter test carry consecutive numbers on the     *)
(* bus, from the first one on: none is left out and none comes twice,      *)
(* however often a write was refused, repeated or given up.                *)
NumbersConsecutive == [][job # "send" /\ sent' # sent => sent' = Uint64(sent + 1)]_vars

(* What the alarms of the receiver test tell of the messages missing       *)
(* between the last two that it received.                                  *)

(* Where both numbers fit into their data: an alarm exactly if any is.     *)
AlarmsExact(prev, now) ==
  Fits(prev) /\ Fits(now) => (judged.alarm <=> now.n # Uint64(prev.n + 1))

(* At any two widths: without an alarm none is, or a multiple of as many   *)
(* as the shorter data can tell apart.                                     *)
QuietTells(prev, now) ==
  ~judged.alarm => (now.n - prev.n - 1) % Values(Lesser(prev.width, now.width)) = 0

(* Where none is and the width did not change: an alarm exactly if the     *)
(* data has come round to zero before the number did.  It is a false one,  *)
(* of which the code says "depending on DLC received data may wrap around  *)
(* while number is counting up!"                                           *)
FalseAlarms(prev, now) ==
  prev.width = now.width /\ now.n = Uint64(prev.n + 1) =>
    (judged.alarm <=> now.width < MaxWidth /\ Carried(now.n, now.width) = 0)

AlarmsTell ==
  LET prev == judged.prev
      now  == judged.now
  IN  AlarmsExact(prev, now) /\ QuietTells(prev, now) /\ FalseAlarms(prev, now)

(* The messages sent for a line that counts have the numbers of the line   *)
(* in order, from the one typed on, also where they wrap.                  *)
LineCounted ==
  line.incr # 0 =>
    batch = [i \in 1..(line.count - line.left) |->
               (line.first + (i - 1) * line.incr) % Values(LineWidth)]

(* A signal ends a program, whatever the bus and the device do, unless it  *)
(* waits for a line of the user or for a message on a silent bus.          *)
SignalEndsProgram ==
  \A p \in Programs : ~running[p] ~> pc[p] \in {"exit", "line", "wait"}

(* A transmitter test comes to its end by itself, by its duration or its   *)
(* number of messages, where the bus acknowledges and the device works.    *)
TestEnds == (acks /\ ~faulty /\ job # "send") ~> pc[tx] = "exit"
===============================================================================
