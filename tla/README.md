# Formal verification of the PCBUSB wrapper (CAN API V3 for PEAK PCAN-USB)

This directory holds a TLA+ development for the code under `src/`: models of
the wrapper library, of the C++ class, the TCP server and the utilities built
on it, TLC runs that check them on small instances, and theorems proved with
TLAPS for every size of the parameters.

## 1. The system

Clients (the utilities, the C++ class `CPeakCAN`, Python and C programs) call
the CAN API V3 functions of `Sources/Wrapper/can_api.c`. The wrapper keeps a
table of handles and forwards to PEAK's PCANBasic library (`libPCBUSB`), a
binary that owns the hardware channels and their receive queues. Beside it,
`Sources/CANIPC` carries CAN messages over TCP, and `can_port` bridges the two.

| Component | State | Operations | Interacts with |
|---|---|---|---|
| Wrapper (`can_api.c`) | `init` flag, `can[]` table of handles: channel, mode, filter, status register, error code, counters, descriptor for blocking reads | `can_test/init/exit/kill/start/reset/write/read/status/busload/bitrate/property` | driver calls; client threads and callbacks share the table without a lock |
| Driver (`PCBUSB.h`, binary) | per channel: initialized, receiver, listen-only, filter, queue | `CAN_Initialize`, `CAN_Uninitialize`, `CAN_SetValue`, `CAN_Read`, ... | called by the wrapper; readiness of a descriptor |
| Loader (`PCBUSB.c`) | library handle, function pointers | lazy resolution of each driver call | wrapper calls through it |
| Bit-rate conversion (`can_btr.c`) | none | index, register, speed and string conversions, comparison | `can_start`, `can_bitrate`, utilities |
| Message parser and formatter (`can_msg.c`) | format options, last time stamp, a static line buffer | text to message, message to text | `can_send`, `can_moni` |
| `CPeakCAN` | one handle, -1 if none | forwards to the wrapper | wrapper, utilities |
| Channel list (`can_api.c`) | one index of the library | first and next entry | walks of the utilities |
| TCP server (`tcp_server_p.c`) | set of descriptors, mutex, thread | start, stop, send to all; thread: accept, receive, close | callback into `can_port` |
| TCP client, RocketCAN | socket, packet counter | connect, send, receive, pack, unpack | TCP server |
| `main` of the five utilities | `running` flag, channel, result | lists, search, set-up, job, teardown | all of the above |
| Jobs of `can_moni`, `can_port`, `can_test`, `can_send` | counters, time, expected number | reception and transmission loops, signal handler | wrapper, TCP server |
| Option parsers (`Options_p.cpp`, `Options_w.cpp`) | counters of the options, settings | one word after the other, final checks | `main` |

What makes it hard:

* *Partial failure.* `can_init`, `can_start`, `can_reset` and `can_exit(-1)`
  make up to six driver calls, each of which can fail and end the call, with no
  roll-back except for a `CAN_Uninitialize` whose result is ignored. The mains
  have a dozen steps and two labels to leave by.
* *Stale state.* Slots of the table are used again and keep part of what the
  last owner left; the status register mixes bits that are replaced with bits
  that accumulate; the receive buffer outlives a refused frame; the channel
  index outlives a walk; descriptors are given out again by the system.
* *Long legal call sequences* by which the initialization flag, the table and
  the driver could come apart, or an object and its handle.
* *Waiting.* A blocking read against signals, `can_kill` and time limits; a
  send to a client that does not read; a write to a bus that never acknowledges.
* *Threads.* `can_port` writes from the TCP thread while the main thread reads;
  the TCP server sends outside its lock and is stopped by an asynchronous cancel.
* *Streams.* TCP may cut a packet in two; the code takes a `recv` for a packet.
* *Tables kept twice* that must agree: bit-rate indexes, option counters, rows
  of bytes and rows of characters.

`PROJECT.json` lists the components with what is and is not modelled, and every
hazard at its line with the properties that look after it.

## 2. Modules

| Module | Models |
|---|---|
| `PcanDriver` | what the wrapper relies on of the driver: a channel's state, `CAN_Initialize`, the outcomes of `CAN_Read` |
| `ChannelStates` | abstract: the operation states `can_api.h` promises per channel (offline, stopped, running) and who owns a channel |
| `CanApi` | the wrapper: handle table, initialization flag and calls, with every failure; its properties; the refinement of `ChannelStates` |
| `PeakCan` | objects of the C++ class, composed with `CanApi` |
| `CanReader` | the blocking read, the reception loop of `can_moni` that calls it, its signal handler, and the driver's receive queue |
| `TcpServer` | the POSIX server: listening thread, senders, stop, sockets and descriptors |
| `CanPort` | the bridge: two threads on one CAN handle, packets of the clients as a stream |
| `Utility` | `main` of the utilities, the channel list |
| `CanTools` | extends `Utility`: exclude list of `can_moni`, server of `can_port` and `can_simu` |
| `CanTest` | extends `Utility`: the transmitter tests or `can_send` on one end of a bus, the receiver test on the other |
| `Options` | nine command-line parsers |
| `CanBtr` | bit-rate conversions, and a bit-rate's way through `can_start` and `can_bitrate` |
| `MsgParse`, `MsgFormat` | the two directions of `can_msg.c` |
| `CanApiClaims` | a sentence of the header that the code does not keep |
| `CanApiProofs`, `PeakCanProofs`, `CanReaderProofs`, `TcpServerProofs`, `CanPortProofs`, `UtilityProofs` (`Utility`, `CanTools`, `CanTest`), `OptionsProofs`, `ConvertProofs` (`CanBtr`, `MsgParse`, `MsgFormat`) | the theorems |
| `MCCanApi`, `MCPeakCan`, `MCCanTest`, `MCConvert`, `MCOptions` | values for TLC |

Two MC modules hold machines that have nothing in common but the run:
`MCConvert` (bit rates, parser, formatter) and `MCOptions` (parsers, and the
courses of the mains from `CanTools`). A variable `machine`, chosen at the start, says which of them moves.

### CanApi: correspondence with the code

* `can[h]` is `can_interface_t`: `board` (NONEBUS when unused), `brd` for
  type, port and interrupt, `fdes` (the descriptor, named by the channel it was
  obtained for), `mode`, `filter`, `status` (the set bits of the status
  register), `lec` (whether an error code is stored), `tx`, `rx`, `err`.
* `init` is the flag of that name; `pcan` the driver's channels; `call` the
  `can_read` in progress with its receive buffer. `ret` records what the last
  call returned; it stands for no variable of the code and no action reads it.
* Each API function is one operator of the same name and one disjunct of `Next`.
  Its disjuncts are the early returns and the exits after each failing driver
  call, in the order of the code, with the effects accumulated so far.
  `can_read` takes one step per pass of its loop (`Reading`), because a refused
  frame updates the status register and then reads on.
* `Table` is the table after the `var_init` that `can_init` and `can_test` do on
  an uninitialized library; `FirstFree` the search for an unused slot.
* Driver failures: `Errors(name, up)` gives `PCAN_ERROR_INITIALIZE` on a channel
  that is not up and, when `name` is in the constant `Faults`, a device error.
* Mode bits, filter values, frames, status words, bit-rates, properties and
  messages are small sets of attributes: exactly those the code branches on.
* The build is that of macOS with the options' defaults:
  `ISSUE_303_WORKAROUND` defined, `ISSUE_276_UNSOLVED` not,
  `OPTION_CANAPI_RETVALS` disabled.

Assumptions about the driver (external, `PcanDriver`): a failing call has no
effect; `CAN_Uninitialize` returns a channel to its defaults and fails on a
channel that is not up; the receive status and listen-only values set before
`CAN_Initialize` hold after it; `CAN_Read` writes the buffer only when it
delivers a frame; the filter parameters need an initialized channel.

What the abstraction leaves out of these calls: text and version properties,
time stamps and payload, the bus-load value, the trace session, vendor values
passed to and from the driver, and the receive queue with the waiting for it.
The mode bit `ERR` is never in the driver's capabilities (`pcan_capability`), so
no handle has it, and the branch of `can_read` that counts error frames cannot
run; the model keeps it.

### PeakCan

`m_Handle[o]` is the member of object `o`; the methods call the operators of
`CanApi` and look at what they returned. `asked` (the filter an object set last)
and `hidden` (handles an object forgot without closing them: initialized again,
or destroyed while the teardown failed) are history. Objects are the only
callers of the library here.

### CanReader

`CanApi` says what one pass of `can_read` does with the handle; `CanReader` says
when the passes happen. The two abstract the same function from different sides
and are not composed: `CanReader` has one handle that stays open and running,
and a frame is only "handed over" or "refused" (the four kinds of refusal lead
to the same label).

* `pc` is the place in the program: the test of `running` (`Test`), before
  `CAN_Read` (`ReadFrame`, `ReadEmpty`, `ReadError`), in `select` (`Wake`,
  `Tick`, `Expire`), or ended. `Test` also does the set-up of `can_read`, which
  reads nothing that the others change.
* `timeout` (one of `Timeouts`) and `countsDown` are chosen at the start and
  stay: the time limit of the program's calls, and whether `select` leaves the
  remaining time in its `timeval`: Linux does, macOS does not.
* `tv` is the `timeval`, filled once per call, before the label `repeat`.
  `waited` and `elapsed` are clocks in ticks of which the code sees only that
  `select` returns.
* `buf` is the receive buffer, zeroed once per call: it tells what `can_read`
  judges when `CAN_Read` reports an error without a frame.
* `Signal` is the handler on the program's only thread, between any two steps. In
  `select` it makes the call return (`EINTR`); elsewhere it only clears the flag.
* The driver (external): `Arrive` puts a frame into a queue of `QueueSize` or
  drops it; `Fail` is a device that reports an error from then on. Assumed: the
  descriptor is readable from a frame's arrival until `CAN_Read` finds the queue
  empty; a failed device's `CAN_Read` reports an error without
  `PCAN_ERROR_QRCVEMPTY`; the notice of a loss comes with the next frame read.

`can_kill` has no action: outside Windows it checks its handle and changes
nothing, so it cannot end a read.

### TcpServer

* `srv` is the descriptor's memory, `prog` the process, `sock` what the system
  has behind each descriptor, `master` and `fdmax` the fields of the descriptor,
  `mutex` its owner. The listening thread is `thread` (its place, the
  descriptor in hand, what `select` left to serve), a sender `snd[s]`, the call
  of `tcp_server_stop` is `stop`. `client`, `hung` and `inbox` are the world
  outside; `got` and the `due` fields are history.
* Steps are cut where threads can come between: at the mutex, and between the
  descriptors of a loop. The step that takes the mutex is one with the first
  access under it, the last access one with its release, so that the two writes
  of "close, then remove from the set" and "add, then raise `fdmax`" are apart.
* A free descriptor is chosen by the system: any of `Fds`, also one that was
  closed a moment ago and is still in somebody's copy of the set.
* `Die` is the asynchronous cancel: from `StopCancel` on it takes effect at any
  point, also between two accesses under the mutex, which then stays locked
  (`StopFree` aborts by the assertion of `pthread_mutex_destroy`).
* The first send to a client that has gone makes its side reset the connection;
  the next one fails or raises `SIGPIPE`, which nothing blocks or ignores.

### CanPort

* `main` is the main thread in `ReceptionLoop` (place, frame in hand, clients
  that are still to get it), `server` the server's thread in the callback
  `TransmitMessage`. Each access to the status register is a load (`Read`,
  `Status`, `Write`) and a store (`Store`, `Refresh`, `Written`) of the byte the
  bit-field lives in, as the compiler has to do it; `reg` is its loss bit.
* A packet is two pieces in a stream. A `recv` takes one or two of them where
  `Cut` allows it; only two pieces of one packet pass the checks of size and
  checksum. `torn` notes whose stream has lost its alignment.
* The transmitter is busy, refuses or takes a frame; the callback repeats while
  it is busy, for 100 ms (`late`).

### Utility, CanTools, CanTest

* A program's way through `main` is a sequence of places, `Course`: what the
  command line may ask for, the steps to a running controller, the job, the
  teardown. `Utility` has one action per kind of place; each fails to the label
  the code jumps to. What the command line says is chosen when `main` looks at it.
* `idx_board` is the library's index into the channel list; `iter` the loop of
  the walk. The lists and the search for the interface share the index.
* `CanTools` adds `get_exclusion` as a scan of the list's identifiers (`Scan`,
  a recursive function), among them one beyond the standard ones, which the code
  passes over (`main.cpp:735`); a range from or to such a one walks out of the
  array `can_id`, which is undefined and left out. It adds also the acceptance of the risks and the server's start and
  stop, where the job is one step (its inside is `CanReader`, `CanPort`,
  `TcpServer`).
* `CanTest` adds the loops of the tests. Numbers are 64 bits wide, begin with the
  start number of the command line (`Numbers`) and wrap (`Uint64`). A number is
  sent in as many data bytes as the message has; here a unit of width is one bit
  instead of one byte, so that `MaxWidth` bits stand for the 64, the data of a
  message tells `2^width` numbers apart (`Values(width)`; `PowersAssumption` says
  of powers what the proofs need), and `LineWidth` stands for the four bytes that
  `can_send` counts. Its messages have these bytes and no others. A line repeats
  at least once (`LinesAssumption`): the parser refuses a count of zero.

### Options

A parser is a table: option name to the counter that is to find it twice and to
what each legal argument sets (`Option(counter, legal)`). Reading a word tests
and counts its counter and puts its settings over those there were (`Sets(word)
++ opts` in `Read`), in any order of the words; `Finish` is the checks after the
loop. `seen` are the counters that are not zero; `given`, the words read so far,
is a history variable: a word can be read twice only if its counter does not
count (`verbose`), and changes nothing then. Arguments are classes: all that an option
takes for the same thing are one value, all that it refuses are `bad`. The
builds have neither the protocol options (`OPTION_CANAPI_LIBRARY`, serial) nor
trace and sharing; the constants `Trace` and `Shared` switch the last two on in
the run, so that their rows are exercised too.

### CanBtr, MsgParse, MsgFormat

* A bit-rate is one record of a frequency and timing values, an index when the
  frequency is not positive. A bit-rate string is its sequence of key=value
  pairs; `ScanPair` is one pass of the scanner's loop.
* A line of `can_send` is read part by part (`at`); an identifier is its number
  of digits and the bits its value needs, the data its number of bytes.
* A formatted line is its columns and rows: how wide each part is and which
  bytes stand where. A second has two parts, which stand for the nanoseconds.
  A CAN 2.0 message has at most eight bytes (`FormatAssumption`), as the driver
  delivers it.

### Properties

*CanApi*: `TableConsistent` is `BoardsDistinct` (no two open handles on one
channel), `ClosedUnlessInit` (a cleared flag means no open handle, or the next
`var_init` would wipe it) and `NoOrphanChannel` (a channel initialized in the
driver has a handle that can release it). `RunningOnBus` (a running handle's
channel is up, has the handle's filter and listen-only setting, and reads wait on
that channel); `StoppedIsSilent` (a stopped handle's channel is down or listens
only); `OthersUntouched` (a call on one handle changes no other open handle or
its channel); `LossIsLatched`; `CountersTell` (counters move exactly with the
calls that returned success, and a start clears them); `FilterFrozen`.
`ImplementsStates` maps each channel to its owner and state and says that the
wrapper implements `ChannelStates`.

*PeakCan*: `HandlesAccounted` (an object has the handle it was given or none, no
two objects the same, and no open handle is nobody's but those hidden);
`FilterReadBack` (a filter set comes back as it was set).

*CanReader*: `OnceInOrder` (every data frame the driver kept is handed over or
waits, once and in the order of the bus); `LossTold` (a dropped frame is told,
even if the next frame read is refused); `CountedLimitKept` (where `select`
counts down, a call keeps its limit); `FrameHandedOver`; `ProgramEnds`, which is
`FrameEndsProgram` (a signal the loop missed takes effect with the next data
frame) and `LimitEndsProgram` (with a time limit a signal at any point ends the
program).

*TcpServer*: `ConnectionsKept` (the set of descriptors matches the open sockets,
`fdmax` covers it whenever the mutex is free, and a stop leaves none open);
`SentOnceToAll` (a packet goes to every client connected throughout the send,
none twice or out of order, whatever descriptors are used again); `ClientsServed`
(who connects is accepted and who has gone is closed, although a sender waits for
a client that does not read).

*CanPort*: `PacketsKept` (packets of the clients come to the bus in order, none
twice, none vanishes while the stream is whole); `FramesComplete` (a client has
every frame, or it is on its way whole and in order, whoever else does not
read); `LossKept` (a loss once told stays in the status register through any
calls of the two threads that do not overlap in it; once both are between load
and store, the update can be lost, and the property claims nothing any more);
`PacketsServed`, `SignalEndsBridge`.

*CanTest, Utility, CanTools*: `NumbersConsecutive` (the numbers on the bus have
no gap and none comes twice, from any start number and over the wrap of 64 bits,
through busy retries and failures); `AlarmsTell`, in three parts: where the
numbers of the last two messages fit into their data, an alarm comes exactly if
messages between them are missing (`AlarmsExact`); for any two widths, without an
alarm none is missing, or a multiple of what the shorter data tells apart
(`QuietTells`); and where none is missing and the width stays, an alarm comes
exactly if data of less
than eight bytes has wrapped, a false one (`FalseAlarms`); `LineCounted` (the
messages of a line that counts do so as its increment says, over four bytes);
`TestEnds`, `SignalEndsProgram`; `MainOrderly` and `CoursesKept` (no job without
a running controller, no channel left open, the server gone before its channel,
the walks through the channel list complete).

*Options*: `SettingsDeclared` (the settings are what the words say, in any
order; no two words set one thing, apart from the tests of `can_test`, where the
last one counts); `AcceptedRuns` (what the checks let through, the wrapper can
start and write).

*CanBtr, MsgParse, MsgFormat*: `StringKept` (a string of pairs in any order gives
the values it names, or is refused); `ReportedAsStarted` (what `can_bitrate`
reports of a started channel is what was asked for, and a bit-rate that the
utilities list can be started); `CompareOrders` (the comparison changes its sign
with its sides and never contradicts the exact speeds, for frequencies of whole
MHz: the products of others are beyond TLC's 32-bit integers); `ParsedWritable` (a
line accepted becomes a message that `can_write` does not refuse for its form:
range of the identifier, length, flags of CAN FD only; and that holds all its
data. An RTR frame of CAN FD passes both, see section 5); `LineTells` (the rows
tell every byte once and in order up to the last, the characters beside them are
theirs and stand in one column, the times are those that have passed);
`LineFits` (a line fits into its buffer).

## 3. Runs

| Run | Instance | Shows |
|---|---|---|
| `life` | 2 handles, 2 channels, monitor mode or not, every driver call may fail except an unprovoked `CAN_Uninitialize` | table and driver stay consistent in all orders of test, init, start, reset, exit, kill; refinement |
| `channel` | 1 handle, 2 channels, CAN 2.0 and FD, bad arguments of every kind, all faults, frames of each kind, losses, counters up to 2 | a full table and refused or half-done calls leave nothing behind; status bits and counters |
| `peak` | 2 objects, 2 channels, filters within 11 and 29 bits | objects and handles; filters through set, reset, start and the reuse of a slot |
| `reader` | limits 0, 2, 3 ticks and none, `select` counts down or not, queue of 2, 4 frames, the device may fail | order, losses, limits, and what ends a read |
| `server` | 2 connections, 2 descriptors, 1 sender with 2 packets | the connections through descriptors used again, senders and stop |
| `port` | 2 clients, one of which sends 2 packets in pieces, 2 frames, a window of 3 pieces, the device may break | both directions of the bridge |
| `test` | 2 channels, numbers of 1 to 3 units, 3 messages, a transmitter queue of 1, 1 line | the tests between two programs, from `main` to `main` |
| `options` | 3 words per line, lists of 3 items, identifiers up to 3 and one beyond, 2 channels | nine parsers; the courses of five programs |
| `convert` | all indexes, bit-rates of a few values per field, every combination of 2 changed format options | the conversions |
| `claim_*` | instances of the above | one counterexample each, see section 5 |

Bounds. Two handles and two channels are the least with which a slot can be
used again while another handle keeps the library initialized, a channel can be
asked for twice, and `can_exit(-1)` can succeed in part; a third adds no new
relation because every property speaks of at most two handles. One handle and
two channels make the table full. `MaxCount` bounds the frame counters by a
guard on the calls that count: two lets a counter move twice, and no guard of the
code reads a counter. In `reader` a queue of two is full and then not, four
frames let two be dropped and others come after them, and limits of two and
three ticks let a frame interrupt a wait that has begun and one that is nearly
over. In `server` two descriptors for two clients are used again after the first
close, and two packets show an order; a second sender multiplies the states and
is covered by the theorems. In `port` a window of three pieces leaves a client
half a packet of room, two packets can be torn into each other, and the second
client is one that may never read. In `test` the transmitter starts with
the largest number, so that numbers wrap at every width within the messages sent,
and the receiver expects one that looks the same in the shortest data: missing
messages that it cannot tell, and false alarms, happen. Words of an option line matter to each other only through
shared counters and settings: three words have a pair and one before, between or
after it. The theorems cover every size.

`life` sets no filter, so that the filter of `RunningOnBus` is the
initial one there; `peak` has others, and the theorem covers all.

`VIEW` drops `ret`, which no action of `CanApi` reads; the action properties that
mention `ret'` are still evaluated on every step. Channels, and objects of
`PeakCan`, are symmetric (no operator orders them); no liveness property is
checked under symmetry.

Fairness, and why the code has it:

* `CanReader`: weak fairness of the program's thread, time in `select` included.
  The system schedules it, and `select` returns when its descriptor is ready or
  its time is up. Frames, signals and failures have none.
* `TcpServer`: weak fairness of the listening thread, and of the step with which
  a sender gives the mutex back. None for the send itself: its client may not
  read.
* `CanPort`: weak fairness of the main thread and of a write; strong fairness of
  the end of the 100 ms of a retry (a clock), and of a `recv` of each sending
  client (`select` reports every descriptor that is ready, and the loop serves
  them all). None for the clients.
* `CanTest`: weak fairness of each program's thread, of the transmitter's queue
  (where the bus acknowledges) and of the end of the test's time.
* `CanApi`, `PeakCan` and the conversions state none: they are about safety, and
  their clients may stop calling at any time.

The bound on frames is in the guards of arrivals; `LimitEndsProgram` needs it,
because refused frames that never stop would keep a call on macOS going for ever.
Runs of programs that end, or wait for ever on a silent bus, do not check for
deadlock; those of the library do, it always accepts another call.

Every property of every passing run has a mutant of the modelled code that
breaks it (`PROJECT.json`, "mutants"); the mutated forms stand before their
originals.

## 4. Proofs

Eight modules hold the theorems; `PROJECT.json` lists those a reader should know
of ("theorems"). Every constant keeps its general value, under the assumptions
that the modules state by name and TLC evaluates in the runs; what a theorem
assumes beyond them stands in its ASSUME and is given below.

`CanApiProofs` proves, from `CanApiAssumption` (handles at least one,
NONEBUS and BADCHANNEL not channels, arguments within their kinds):

* `TypeCorrect`: `Spec => []TypeOK`
* `TableMatchesDriver`: `TableConsistent`
* `RunningHandlesOnBus`: `RunningOnBus`
* `StoppedHandlesSilent`: `StoppedIsSilent`, given that `CAN_Uninitialize` does
  not fail on a channel that is up (the `life` run makes the same exception;
  `can_start` ignores the result of its clean-up, so without it the property
  does not hold)
* `LibraryImplementsStates`: `ImplementsStates`
* of every step: `CallsTouchOneHandle` (`OthersUntouched`),
  `FilterOnlyWhenStopped` (`FilterFrozen`), `LossNewsKept` (`LossIsLatched`) and
  `CountersTellClients` (`CountersTell`)

The argument. `Next` has twelve disjuncts with some sixty exits between them.
They are first reduced to nine kinds of step (lemma `Effects`): a call prepares
or refuses, opens a slot, closes a set of handles, acts on one handle's slot and
channel, aborts a start, starts, stops, carries traffic, or sets a filter; one
lemma per call shows which kinds it can be. The inductive invariant is
`Inv == TypeOK /\ ClosedUnlessInit /\ BoardsDistinct /\ NoOrphanChannel /\
RunningOnBus`: `ClosedUnlessInit` is needed for every other conjunct (the
`var_init` of the next call must find nothing open), and `BoardsDistinct` for
`NoOrphanChannel` and `RunningOnBus` (a call on one handle must not touch the
channel of another). That a free slot found by the search exists and is the
first one is lemma `FreeHandle`, by the least-element principle of
`WellFoundedInduction`'s natural numbers. The four properties of steps are proved
of the kinds, or of each call where they speak of what it returned.

`PeakCanProofs` proves, from `PeakCanAssumption` and those of `CanApi`, for every
number of objects:

* `ObjectsOwnHandles`: `HandlesAccounted`
* `ClassKeepsFilters`: `FilterFrozen` under the calls of the class
* `FiltersReadBack`: `FilterReadBack`, given again that `CAN_Uninitialize` does
  not fail on a channel that is up. Without it a failed `can_start` can leave the
  channel up with another filter, and the property does not hold.

Every step is of one kind of a few (`MethodKinds`): it gives an object a handle,
takes it away, sets or resets a filter, or leaves filters and handles as they are.
`Owned` says without counting who has which handle; the cardinalities of
`HandlesAccounted` follow from it (`Accounting`). `FiltersKept` adds the filter
that wrapper and driver have for each object; what is read back is its mask
inverted twice (`InvertedTwice`).

`CanReaderProofs` proves, from `CanReaderAssumption` (a queue of at least one,
limits not above the infinite one), for every queue size, limit and number of frames:

* `ReaderTypeCorrect`: `Spec => []TypeOK`
* `FramesOnceInOrder`: `OnceInOrder`
* `LossesTold`: `LossTold`, inductive as it stands
* `LimitKept`: `CountedLimitKept`

Only three actions touch the frames (`FrameSteps`). What they do to the line of
frames handed over and frames waiting is said by three lemmas on sequences: a
data frame's move leaves the line as it is (`HeadMoves`), a refused frame leaves
it (`HeadLeaves`), a new one joins at its end with the greatest number
(`TailJoins`). For the limit, the property is not inductive; `TimeLeft` adds that
what has passed and what `select` may still take together stay within it.

`TcpServerProofs` proves, from `TcpServerAssumption`, for every number of
descriptors, clients and senders:

* `ServerTypeCorrect`: `Spec => []TypeOK`
* `ServerKeepsConnections`: `ConnectionsKept`
* `PacketsSentOnceToAll`: `SentOnceToAll`

`MaxCoversSet` is not inductive: while the listening thread is between "add" and
"raise `fdmax`" the set has a descriptor beyond it. `Covered` allows exactly that
one, also after a cancel, and `Owner` says who is between two accesses, so that
nobody else can have the mutex then. `Sockets` says that no two descriptors lead
to one client, without which a client could get a packet twice; `StopReaches`
that the connections a stop still has to close lie before it. That a packet
reaches everybody needs `CopyingAll`: while a sender copies, under the mutex, the
set still holds all whom it owes the packet.

`CanPortProofs` proves, from `CanPortAssumption`, for every number of clients,
frames and packets, and for streams cut in both directions:

* `PacketsAreKept`: `PacketsKept`
* `LossesKept`: `LossKept`

A client's packets are a procession: on their way in order (`WayInOrder`), ahead
of them what the callback holds (`HandInOrder`), ahead of that what is on the bus
(`BusBehind`). Every step of the two threads and the clients is one of seven kinds
(`Moves`): it leaves the procession alone, ends it, delivers, refuses, takes or
tears at its head, or adds to its end. The balance (`Accounted`) is an equation as
long as nothing was torn, and an inequality afterwards, which bounds what can be
refused. For the register, `LossCarried` follows the bit into the byte that a
thread has loaded but not stored yet.

* `FramesReachClients`: `FramesComplete`

Its invariant, `StreamsInOrder`, follows each client's stream apart from the
others (`StreamOf`): behind the frames it has taken the next ones are on the way,
each in its two pieces, up to the last one sent to it (`Sendable`), and then at
most an abort packet. `MainSends` ties the packet in the main thread's hand to the
frame it has read last, without which the next packet could have any number.

`UtilityProofs` proves for every length of the channel list, every walk asked for
and, given `MaxId \in Nat`, every exclude list of `ExcludeLists`:

* `CoursesTaken`: `CoursesKept`
* `CoursesEnd`: every step of a program brings that program nearer to its end and
  leaves the others where they are

The places of each course are computed once (`MoniCourse`, `PortCourse`, ...).
`Orderly` ties the library's index to the entries a walk has come by and the
channel's state to the place in the course; `ToolsInv` adds, for every program,
the server and the exclude list. `get_exclusion` is a recursive function, and
what it computes for a list of any length is proved by induction on the
beginnings of the list (`ExclusionIsNamed`). The library's induction theorem
takes an operator, which the provers cannot instantiate; `Induction` is the same
principle for a set, from `WellFoundedInduction`'s least elements.

`CoursesEnd` is the safety half of termination, whose other half, the ENABLED of
liveness, is out of the prover's reach. Its measure `StepsLeft` counts the places
still to come (`Rank`, one order for all five courses) and, for less than a place,
the calls that a walk can still make (`CallsLeft`). It falls with every step
because `After` only leads to later places (`RankAfter`) and because a walk has
not passed the end of the list (`ToolsInv`); the job is one step of it.

It proves, from the assumptions of `CanTest`, for every width of the numbers, every
start number, queue and line:

* `ProgramsOrderly`: `MainOrderly`, by the lemmas on the courses
* `NumbersFollowOn`: `NumbersConsecutive`
* `AlarmsAreTrue`: `AlarmsTell`, all three parts
* `LinesCounted`: `LineCounted`

The invariant is `Inv == Types /\ NumbersFollow /\ ExpectsNext /\ AlarmsTell /\
BatchCounted`. `NumbersFollow` says that the number the sender puts in next is the
one after the last on the bus, also while a busy frame is tried again;
`ExpectsNext` that the receiver expects the one after what the data of the last
message kept, without which `AlarmsTell` is not inductive; `BatchCounted` which
number each message of a line has. What an alarm means is arithmetic: lemma
`Expecting` follows a number through two truncations of different widths, where
the modulus of the shorter one divides the other (`PowersAssumption`, `Nested`).

`OptionsProofs` proves of the nine parsers:

* `SettingsAreDeclared`: `SettingsDeclared`
* `AcceptedLinesRun`: `AcceptedRuns`

Both hold, from `LengthsAssumption` alone, for lines of any number of words, for
any lengths, and for every setting of the build options `Shared` and `Trace`. The
argument is about rows, then tables, then lines. Every item that an option sets has
one counter that owns it (`Owner`), and an option that sets it counts that counter,
except `verbose` and, in `can_test`, what the tests override (`Ruled`). This is
shown of each block of options and survives putting blocks together
(`TablesMerged`), whichever build options are on (`TableBuilt`), so it holds for all
nine tables (`TablesRuled`). Two words of a line count different counters, so they
set different items (`ItemShared`), and a word cannot disturb what another said.
The invariant of a line, `LineInv`, says that besides (`WordsKept`, `SettingsKept`);
that a counter that is not zero is that of a word, because `--random` looks at the
counter of `--dlc` and not at the words; and that the bit-rate is either the index
the constructor set, or one the words name (`SettingsKept`), which the check of
CAN FD operation needs. `TestKept` has the number a transmit test counts to. For
the length, the word that names it is unique (`OneLength`), and `DlcIs` computes
the DLC of all 65 lengths.

`ConvertProofs` proves, from `NumbersAssumption`, `ParseAssumption` and
`FormatAssumption`:

* `StringsAreKept`: `StringKept`
* `StartedIsReported`: `ReportedAsStarted`
* `ComparisonIsAnOrder`: `CompareOrders`
* `LinesAreWritable`: `ParsedWritable`
* `LinesTell`: `LineTells`
* `LinesFit`: `LineFits`, given that identifiers have 29 bits, seconds at most
  twelve digits (thirty thousand years) and channel numbers two

*Bit rates.* `BtrInv` says that a scan has read exactly the pairs before it, each
key once and within its limit (`Reads`), which is proved of strings of any length
by induction on their beginnings; that is also why a listed bit-rate starts
whatever the order of its pairs. A register is taken apart by divisions
(`RegisterReads`), and each row of the tables is looked at. For the comparison, both
sides are quotients that are cut and then rounded; where the rounded ones differ,
so do the exact ones, in the same direction (`RoundingOrders`).

*Parser.* `ParseInv` adds to the types that what has been read of a line so far
passes the checks of `can_write` (`Passes`), and that the length is the shortest
one that holds the data (`Fits`, by `ShortestLength`).

*Formatter.* `FormatInv` says that the options are legal and that the line is that
of some message, whose rows tell its bytes (`RowsTell`). Those rows come out of a
loop, and the loop of `format_ascii` runs beside it: `LoopsRun` shows by induction
that after every byte the rows so far are whole, in order and the same in both.
`Digits` divides its argument instead of counting down; it is tied to a function on
all numbers up to n, whose existence and uniqueness are proved (`DigitsExist`,
`DigitsAgree`). For `LineFits`, a head has at most 83 columns (`HeadFits`), a row
of w bytes ends 5w + 1 columns behind its indentation (`RowEndIs`), all rows but
the last are whole (`RowsCount`), and so the longest line has eight rows of eight
bytes, at most 1016 of 1024 characters (`LongestLine`). The hypotheses take the
place of a check: the formatter looks at the width neither of a time nor of a
channel number.

Only model-checked: all liveness properties, because liveness under fairness and
ENABLED are beyond the prover. Every invariant and every action property of the
passing runs is a theorem.

## 5. Where code and documentation disagree

Three sentences have a `claim_*` run with an execution that shows that they do
not hold (`PROJECT.json`, "findings"):

1. `claim_phantom`: `can_read` returns a zeroed message as received when
   `CAN_Read` reports an error other than the three it looks for.
2. `claim_failure`: `can_port`'s loop waits for two error codes that `can_read`
   never returns, so that a broken device does not end the bridge.
3. `claim_stop`: `tcp_server_stop` does not wait for its thread, as the comment
   says, before it frees what the thread uses.

Seen while modelling, and visible in the actions, without a run of their own.
The library:

* A slot used again keeps the acceptance filter of its previous owner
  (`can_api.c:405`).
* A handle whose `can_start` failed after `CAN_Uninitialize` cannot be closed:
  `can_exit` returns "library not initialized". `can_exit(-1)` drops the results
  of `exit_channel` and returns success with such a handle open (`can_api.c:448`).
* `can_init` on a full table returns "library not initialized"
  (`can_api.c:356`); `can_api.h:258` says "no free handle found".
* `can_kill` cannot end a blocking read outside Windows (`can_api.c:460`);
  `can_api.h:288` says that it can be used for that.
* After a refused frame, a device that keeps reporting an error keeps `can_read`
  in its loop, even in a poll (`ReadError`, `can_api.c:837`). This is why the
  liveness properties of `CanReader` except a failed device. On macOS each refused
  frame starts the limit of a read again.
* Enabling `OPTION_PCAN_BIT_TIMING` gives the indexes of 100, 50, 20 and 10
  kbit/s other timing values than the table of `can_btr.c`; the default build
  agrees. Index -9 (5 kbit/s) passes all checks of the utilities and is refused by
  `can_start`. A refused bit-rate string leaves the values before its error.

The server and the utilities:

* A send to a client that has gone twice raises `SIGPIPE`, which nothing blocks:
  it ends the process (`prog = "killed"`).
* A signal between the test of `running` and `select` or `fgets` is slept through.
* `main` returns what its teardown returned, so that a failed start can end with
  0; `can_simu` always does. `can_port` skips the end of the trace when its server
  does not stop.
* The frame test on a failing device loops until a signal; a busy retry does not
  look at the time.
* The receiver test expects the number after the last one in 64 bits, the data of
  a shorter message wraps before it: with consecutive numbers there is an alarm at
  every wrap, and with `--stop` the test ends there. A comment says that
  the data may wrap (`can_test/Sources/main.cpp:931`), nothing is done about it.
* `can_test` takes an identifier above 7FFh without `--extended` (noted as a
  TODO, `Options_p.cpp:695`); every write then fails and the frame test never ends.
* `can_send` zeroes the data of a repeated message without an increment;
  `can_msg.h:544` says "0 = none".
* `can_msg.c` takes `##4R`, and `_9` for any length, which the grammar of
  `can_msg.h:524` does not have; three digits of an identifier may be `0x1`.
* Messages sent without a prompt of their own show that of received ones; from
  lengths of 16 on the data column moves by one.
* The parsers accept a repeated `verbose`, for which they have a message; Windows
  reads code and mask in any base, POSIX as hexadecimal; the Windows tables
  misspell `WRAPAROUND`, and take any other word for the interface.
* Of the exclude list `1-3-5` (not in its grammar) the first part is lost.

## 6. Not modelled, and what is left

* The loader `PCBUSB.c`: it forwards, and its failures are failing driver calls.
* Of the TCP parts: connecting and closing of the client (one thread, no state
  but a socket), the Windows server (threads of its own, not part of the macOS
  build), statistics; of RocketCAN the layout of the fields and the checksum's
  arithmetic.
* `can_simu`'s loop over its lines (that of `can_send` with a send to the clients
  in place of the write), and its Windows parser, which does not compile.
* Text: version and property strings, help, the characters in a column; time
  stamps and clocks beyond what the formatter does with them; the trace session.
* The examples, the trial program and the test suites: straight-line clients of
  the wrapper, read as documentation.

Left to do: a composition of `CanPort` with `TcpServer`, which now share only the
clients' point of view.
