------------------------------- MODULE CanReader -------------------------------
(***************************************************************************)
(* The blocking read of src/Sources/Wrapper/can_api.c and the program that *)
(* calls it in a loop (ReceptionLoop of can_moni), against everything that *)
(* happens meanwhile: frames the driver receives into its bounded queue, a *)
(* signal handled at any point of the loop, and a device that fails.  One  *)
(* handle, running throughout.  On POSIX systems can_kill only checks its  *)
(* handle: no action.                                                      *)
(*                                                                         *)
(* The checks of can_read and the status bits it sets are in CanApi; here  *)
(* a frame is one that can_read hands over or one it refuses.              *)
(***************************************************************************)
EXTENDS Naturals, Sequences

CONSTANTS
  Timeouts,     \* the time limits given to can_read, in ticks
  Infinite,     \* CANWAIT_INFINITE
  QueueSize,    \* the capacity of the driver's receive queue
  MaxFrames,    \* bound of the frames on the bus
  MayFail       \* whether the device may fail

ASSUME CanReaderAssumption ==
  /\ Infinite \in Nat /\ Timeouts \subseteq 0 .. Infinite
  /\ MayFail \in BOOLEAN
  /\ QueueSize \in Nat \ {0} /\ MaxFrames \in Nat

Kind == {"data", "refused"}

VARIABLES
  timeout,   \* the time limit of this program's reads
  countsDown,\* select leaves the remaining time in its timeval (Linux, not macOS)
  running,   \* the flag the signal handler clears
  pc,        \* where the program is
  buf,       \* can_read's receive buffer: zeroed, or a refused frame
  tv,        \* the time limit as the next select gets it
  waited,    \* the time passed in the current select
  elapsed,   \* the time passed in the current call
  queue,     \* the driver's receive queue: the numbers of frames
  readable,  \* the readiness of the receive descriptor
  overrun,   \* the driver has dropped frames and not yet told
  failed,    \* the device has failed
  bus,       \* history: the kinds of the frames that came from the bus
  dropped,   \* history: the frames the driver dropped
  got,       \* history: the frames handed over
  told       \* the status bit queue_overrun

readerVars == <<pc, buf, tv, waited, elapsed, got, told>>
driverVars == <<queue, readable, overrun, failed, bus, dropped>>
(* Chosen once: what the program was told and the system it runs on. *)
setup == <<timeout, countsDown>>
vars == <<running, readerVars, driverVars, setup>>

Init ==
  /\ timeout \in Timeouts /\ countsDown \in BOOLEAN
  /\ running = TRUE /\ pc = "test" /\ buf = "zero"
  /\ tv = timeout /\ waited = 0 /\ elapsed = 0
  /\ queue = <<>> /\ readable = FALSE /\ overrun = FALSE /\ failed = FALSE
  /\ bus = <<>> /\ dropped = {} /\ got = <<>> /\ told = FALSE
-------------------------------------------------------------------------------
(* The program: while(running) can_read(...).                              *)
Test ==
  /\ pc = "test"
  /\ IF running THEN pc' = "read" /\ buf' = "zero" /\ tv' = timeout /\ elapsed' = 0
                ELSE pc' = "done" /\ UNCHANGED <<buf, tv, elapsed>>
  /\ UNCHANGED <<running, waited, got, told, driverVars>>

(* can_read returns to the loop. *)
Returns == pc' = "test" /\ waited' = 0

(* Mutant: the loss is noted only for a frame handed over. *)
Notice_data == told' = (told \/ (overrun /\ bus[Head(queue)] = "data"))

Notice == told' = (told \/ overrun)

(* Mutant: with a loss there is no frame. *)
HandOver_lossy == got' = IF overrun THEN got ELSE Append(got, Head(queue))

HandOver == got' = Append(got, Head(queue))

(* The driver hands out the oldest frame, with notice of those it dropped  *)
(* before.  A refused frame leads back to the label repeat.                *)
ReadFrame ==
  /\ pc = "read" /\ ~failed /\ queue # <<>>
  /\ queue' = Tail(queue)
  /\ overrun' = FALSE
  /\ Notice
  /\ \/ /\ bus[Head(queue)] = "refused"
        /\ buf' = "refused"
        /\ UNCHANGED <<pc, waited, got>>
     \/ /\ bus[Head(queue)] = "data"
        /\ HandOver
        /\ Returns
        /\ UNCHANGED buf
  /\ UNCHANGED <<running, tv, elapsed, readable, failed, bus, dropped>>

(* An empty queue: a call with a time limit waits, unless the driver       *)
(* reports a bus error beside the empty queue.                             *)
ReadEmpty ==
  /\ pc = "read" /\ ~failed /\ queue = <<>>
  /\ readable' = FALSE
  /\ \/ Returns
     \/ timeout # 0 /\ pc' = "wait" /\ UNCHANGED <<waited>>
  /\ UNCHANGED <<running, buf, tv, elapsed, got, told,
                 queue, overrun, failed, bus, dropped>>

(* A failed device: the error is not noticed and the buffer is judged.     *)
ReadError ==
  /\ pc = "read" /\ failed
  /\ \/ buf = "refused" /\ UNCHANGED <<pc, waited>>
     \/ buf = "zero" /\ Returns
  /\ UNCHANGED <<running, buf, tv, elapsed, got, told, driverVars>>

(* Mutant: select is not told of the last descriptor, the handle's own. *)
Wake_unseen == FALSE /\ UNCHANGED vars

(* Mutant: every select gets the whole time limit. *)
Wake_restart ==
  /\ pc = "wait" /\ readable
  /\ pc' = "read" /\ waited' = 0
  /\ UNCHANGED <<running, buf, tv, elapsed, got, told, driverVars>>

(* select returns a positive number; the call reads again.                 *)
Wake ==
  /\ pc = "wait" /\ readable
  /\ pc' = "read" /\ waited' = 0
  /\ tv' = IF countsDown THEN tv - waited ELSE tv
  /\ UNCHANGED <<running, buf, elapsed, got, told, driverVars>>

(* Mutant: one tick beyond the limit. *)
Tick_late ==
  /\ pc = "wait" /\ timeout # Infinite /\ waited <= tv
  /\ waited' = waited + 1
  /\ elapsed' = IF elapsed <= timeout THEN elapsed + 1 ELSE elapsed
  /\ UNCHANGED <<running, pc, buf, tv, got, told, driverVars>>

(* Time passes in select; without a limit it is not measured.              *)
Tick ==
  /\ pc = "wait" /\ timeout # Infinite /\ waited < tv
  /\ waited' = waited + 1
  /\ elapsed' = IF elapsed <= timeout THEN elapsed + 1 ELSE elapsed
  /\ UNCHANGED <<running, pc, buf, tv, got, told, driverVars>>

(* select returns zero; the call returns CANERR_RX_EMPTY.                  *)
Expire ==
  /\ pc = "wait" /\ timeout # Infinite /\ waited = tv /\ ~readable
  /\ Returns
  /\ UNCHANGED <<running, buf, tv, elapsed, got, told, driverVars>>

(* The signal handler, on the program's thread: it interrupts a select,    *)
(* which returns -1 and ends the call; can_kill in it does nothing.        *)
Signal ==
  /\ pc # "done"
  /\ running' = FALSE
  /\ IF pc = "wait" THEN Returns ELSE UNCHANGED <<pc, waited>>
  /\ UNCHANGED <<buf, tv, elapsed, got, told, driverVars>>

(* The driver: a frame on the bus; the device fails.                       *)
Arrive(kind) ==
  /\ pc # "done" /\ ~failed /\ Len(bus) < MaxFrames
  /\ bus' = Append(bus, kind)
  /\ \/ /\ Len(queue) < QueueSize
        /\ queue' = Append(queue, Len(bus'))
        /\ readable' = TRUE
        /\ UNCHANGED <<overrun, dropped>>
     \/ /\ Len(queue) = QueueSize
        /\ overrun' = TRUE
        /\ dropped' = dropped \cup {Len(bus')}
        /\ UNCHANGED <<queue, readable>>
  /\ UNCHANGED <<running, readerVars, failed>>

Fail ==
  /\ MayFail /\ ~failed /\ pc # "done"
  /\ failed' = TRUE
  /\ readable' \in {readable, TRUE}
  /\ UNCHANGED <<running, readerVars, queue, overrun, bus, dropped>>

(* What the program's thread does by itself. *)
Reader == Test \/ ReadFrame \/ ReadEmpty \/ ReadError \/ Wake \/ Tick \/ Expire

Next ==
  /\ \/ Reader
     \/ Signal
     \/ \E kind \in Kind : Arrive(kind)
     \/ Fail
  /\ UNCHANGED setup

(* The program's thread is scheduled; no frame, signal or failure is due.  *)
Spec == Init /\ [][Next]_vars /\ WF_vars(Reader /\ UNCHANGED setup)
-------------------------------------------------------------------------------
TypeOK ==
  /\ timeout \in Timeouts /\ countsDown \in BOOLEAN
  /\ running \in BOOLEAN
  /\ pc \in {"test", "read", "wait", "done"}
  /\ buf \in {"zero", "refused"}
  /\ tv \in 0 .. timeout /\ waited \in 0 .. tv /\ elapsed \in 0 .. timeout + 1
  /\ bus \in Seq(Kind) /\ Len(bus) <= MaxFrames
  /\ queue \in Seq(1 .. Len(bus)) /\ Len(queue) <= QueueSize
  /\ got \in Seq(1 .. Len(bus))
  /\ dropped \subseteq 1 .. Len(bus)
  /\ overrun \in BOOLEAN /\ told \in BOOLEAN
  /\ readable \in BOOLEAN /\ failed \in BOOLEAN

(* The frames handed over so far and those waiting, oldest first. *)
Line == got \o queue

Data(n) == bus[n] = "data"

(* Every data frame the driver kept is handed over once and in the order   *)
(* of the bus, whatever refused frames, losses, waits and signals come in  *)
(* between: it is among those handed over or still waits behind them.      *)
OnceInOrder ==
  /\ \A i, j \in DOMAIN Line : i < j => Line[i] < Line[j]
  /\ {n \in 1 .. Len(bus) : Data(n)} \ dropped
       = {n \in {Line[i] : i \in DOMAIN Line} : Data(n)}
  /\ \A i \in DOMAIN got : Data(got[i])

(* A loss in the driver's queue is never silent: the status bit tells of   *)
(* it, or the next frame read will, be it a refused one.                   *)
LossTold == dropped # {} => overrun \/ told

(* can_api.h:382: 'any other value means the time to wait': a call waits no  *)
(* longer, however often it is woken by frames it refuses.                 *)
WaitsWithinLimit == timeout # Infinite => elapsed <= timeout

(* Where select counts its timeval down (Linux) the limit is kept. *)
CountedLimitKept == countsDown => WaitsWithinLimit

(* A data frame in the queue is handed over, unless the program is told to *)
(* stop or the device fails first.                                         *)
FrameHandedOver ==
  \A n \in 1 .. MaxFrames :
    (\E i \in DOMAIN queue : queue[i] = n /\ Data(n))
      ~> (~running \/ failed \/ \E i \in DOMAIN got : got[i] = n)

(* A program that missed its signal ends with the next data frame. *)
FrameEndsProgram ==
  (~running /\ \E i \in DOMAIN queue : Data(queue[i])) ~> (pc = "done" \/ failed)

(* With a time limit the program ends after a signal at any point of its   *)
(* loop (the bound on frames: refused ones do not come for ever).          *)
LimitEndsProgram == (~running /\ timeout # Infinite) ~> (pc = "done" \/ failed)

(* A program told to stop ends, unless its device has failed: with the     *)
(* next frame, or with the end of its time limit.                          *)
ProgramEnds == FrameEndsProgram /\ LimitEndsProgram
===============================================================================
