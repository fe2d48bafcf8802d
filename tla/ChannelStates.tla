---------------------------- MODULE ChannelStates ----------------------------
(***************************************************************************)
(* What src/Sources/CANAPI/can_api.h promises of the operation states: a   *)
(* channel is 'offline' until can_init gives a handle for it, then         *)
(* 'stopped', 'running' between can_start and can_reset, and 'offline'     *)
(* again after can_exit.  A channel has one owner from can_init to         *)
(* can_exit, and a handle owns one channel.                                *)
(***************************************************************************)
EXTENDS Integers

CONSTANTS Boards, Handle

VARIABLE chan   \* of each channel, its owner (-1 if none) and its state

Offline == [owner |-> -1, state |-> "offline"]

Owns(h, b) == chan[b].owner = h

ChanInit == chan = [b \in Boards |-> Offline]

Move(b, from, to) ==
  /\ chan[b].state = from
  /\ chan' = [chan EXCEPT ![b].state = to]

Open(b, h) ==
  /\ chan[b] = Offline
  /\ \A c \in Boards : ~Owns(h, c)
  /\ chan' = [chan EXCEPT ![b] = [owner |-> h, state |-> "stopped"]]

Start(b) == Move(b, "stopped", "running")

Stop(b) == Move(b, "running", "stopped")

Close(bs) == chan' = [b \in Boards |-> IF b \in bs THEN Offline ELSE chan[b]]

ChanNext ==
  \/ \E b \in Boards, h \in Handle : Open(b, h)
  \/ \E b \in Boards : Start(b) \/ Stop(b)
  \/ \E bs \in SUBSET Boards : Close(bs)

ChanSpec == ChanInit /\ [][ChanNext]_chan
===============================================================================
