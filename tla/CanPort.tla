-------------------------------- MODULE CanPort --------------------------------
(***************************************************************************)
(* The bridge can_port between a CAN bus and the clients of its TCP server *)
(* (src/Utilities/can_port/Sources/main.cpp): the main thread reads frames *)
(* and sends them to all clients, the server's thread receives packets of  *)
(* the clients and writes them to the bus.  Both use one CAN handle and    *)
(* its status register, without a lock.                                    *)
(*                                                                         *)
(* TCP is a stream: a packet is two pieces of it, and a recv may give one  *)
(* or two.  A packet joined from pieces of two packets is taken to fail    *)
(* its checksum.  Who connects and leaves, and the descriptors, are the    *)
(* matter of TcpServer.                                                    *)
(***************************************************************************)
EXTENDS Naturals, Sequences

CONSTANTS
  Clients,     \* the clients, all connected from the start
  Senders,     \* those of them that send packets
  MaxFrames,   \* bound of the frames that come on the bus
  MaxPackets,  \* bound of the packets each of them sends
  Cut,         \* bound: the directions in which a recv may cut a packet, "up", "down"
  Window,      \* pieces that fit on the way to a client before send waits
  ErrorFrames, \* whether the operation mode has error frames enabled
  Fails        \* whether the device may break

ASSUME CanPortAssumption ==
  /\ Senders \subseteq Clients
  /\ MaxFrames \in Nat /\ MaxPackets \in Nat /\ Cut \subseteq {"up", "down"}
  /\ Window \in Nat /\ Window >= 2
  /\ ErrorFrames \in BOOLEAN /\ Fails \in BOOLEAN

VARIABLES
  running,  \* the flag that the signal handler clears
  broken,   \* the device fails from now on
  rx,       \* frames that came on the bus
  main,     \* the main thread: place, packet to send and to whom, byte in hand
  server,   \* the server's thread: place, packet, byte in hand
  reg,      \* the loss bit of the status register, in a byte that threads share
  up, down, \* the pieces on the way from and to each client
  sent,     \* packets each client has sent
  onBus,    \* the packets of each client that were written to the bus
  wasted,   \* packets that came whole but were refused, or busy for 100 ms
  torn,     \* clients whose stream lost its alignment, at either end
  taken,    \* the last frame each client received
  owed      \* history: "told" after the driver told the main thread of a loss,
            \* "void" once both threads changed the register at the same time

cpu    == <<main, server>>
net    == <<up, down>>
clientVars == <<sent, taken>>
result == <<onBus, wasted, torn>>
vars   == <<running, broken, rx, cpu, reg, net, clientVars, result, owed>>

Piece(n, h) == [num |-> n, half |-> h]
Packet(n)   == <<Piece(n, 1), Piece(n, 2)>>

(* Frames are numbered from 1.  Ghost is the frame can_read makes of an    *)
(* error status and an empty buffer, Abort the packet of SendAbort.        *)
Ghost == 0
Abort == MaxFrames + 1
Frames == 1 .. MaxFrames

Ready   == [pc |-> "test", num |-> Ghost, to |-> {}, byte |-> FALSE]
Waiting == [pc |-> "recv", msg |-> <<>>, ok |-> FALSE, byte |-> FALSE]
Dead    == [Waiting EXCEPT !.pc = "dead"]

Init ==
  /\ running = TRUE /\ broken = FALSE /\ rx = 0
  /\ main = Ready
  /\ server = Waiting
  /\ reg = FALSE
  /\ up = [c \in Clients |-> <<>>] /\ down = [c \in Clients |-> <<>>]
  /\ sent = [c \in Clients |-> 0] /\ taken = [c \in Clients |-> 0]
  /\ onBus = [c \in Clients |-> <<>>] /\ wasted = [c \in Clients |-> 0]
  /\ torn = {}
  /\ owed = "none"

Storing(thread) == thread.pc \in {"store", "refresh"}

Owed(other, lost) ==
  IF Storing(other) \/ owed = "void" THEN "void" ELSE IF lost THEN "told" ELSE owed
-------------------------------------------------------------------------------
(* The main thread, CCanDevice::ReceptionLoop.                             *)
Main(place) == main.pc = place

(* Mutant: the loop does not test the flag of the handler. *)
Test_blind ==
  /\ Main("test")
  /\ main' = [main EXCEPT !.pc = "read"]
  /\ UNCHANGED <<running, broken, rx, server, reg, net, clientVars, result, owed>>

Test ==
  /\ Main("test")
  /\ main' = [main EXCEPT !.pc = IF running THEN "read" ELSE "leave"]
  /\ UNCHANGED <<running, broken, rx, server, reg, net, clientVars, result, owed>>

(* can_read without time limit: a frame, with or without the notice of a   *)
(* loss; what it does to the status register is a load and a store of its  *)
(* byte.  A broken device makes it return a ghost.                         *)
Read ==
  /\ Main("read")
  /\ \/ rx < MaxFrames /\ ~broken /\ rx' = rx + 1
     \/ broken /\ UNCHANGED rx
  /\ \E lost \in BOOLEAN :
       /\ main' = [main EXCEPT !.pc = "store", !.num = IF broken THEN Ghost ELSE rx + 1,
                               !.byte = reg \/ lost]
       /\ owed' = Owed(server, lost)
  /\ UNCHANGED <<running, broken, server, reg, net, clientVars, result>>

(* Any error of can_read leads back to the test of the flag: it never      *)
(* returns the two errors that the loop looks for.                         *)
ReadFails ==
  /\ Main("read") /\ broken
  /\ main' = [main EXCEPT !.pc = "test"]
  /\ UNCHANGED <<running, broken, rx, server, reg, net, clientVars, result, owed>>

Store ==
  /\ Main("store")
  /\ reg' = main.byte
  /\ main' = [main EXCEPT !.pc = "status", !.byte = FALSE]
  /\ UNCHANGED <<running, broken, rx, server, net, clientVars, result, owed>>

(* Mutant: a refresh replaces the loss bit by that of the device. *)
Status_fresh ==
  /\ Main("status")
  /\ \E lost \in BOOLEAN :
       /\ main' = [main EXCEPT !.pc = "refresh", !.byte = lost]
       /\ owed' = Owed(server, lost)
  /\ UNCHANGED <<running, broken, rx, server, reg, net, clientVars, result>>

(* can_status adds what the device reports to the register. *)
Status ==
  /\ Main("status")
  /\ \E lost \in BOOLEAN :
       /\ main' = [main EXCEPT !.pc = "refresh", !.byte = reg \/ lost]
       /\ owed' = Owed(server, lost)
  /\ UNCHANGED <<running, broken, rx, server, reg, net, clientVars, result>>

Refresh ==
  /\ Main("refresh")
  /\ reg' = main.byte
  /\ main' = [main EXCEPT !.pc = "send", !.to = Clients, !.byte = FALSE]
  /\ UNCHANGED <<running, broken, rx, server, net, clientVars, result, owed>>

(* Mutant: a client that does not read is skipped in the middle of a packet. *)
Put_part(c) == IF Len(down[c]) + 2 <= Window THEN Packet(main.num) ELSE <<Piece(main.num, 1)>>

Put(c) == Packet(main.num)

(* send to one client after the other; it waits while the stream to the    *)
(* client is full.                                                         *)
SendTo(c) ==
  /\ main.pc \in {"send", "abort"} /\ c \in main.to
  /\ Len(down[c]) + Len(Put(c)) <= Window
  /\ down' = [down EXCEPT ![c] = @ \o Put(c)]
  /\ main' = [main EXCEPT !.to = @ \ {c}]
  /\ UNCHANGED <<running, broken, rx, server, reg, up, clientVars, result, owed>>

Sent ==
  /\ main.pc \in {"send", "abort"} /\ main.to = {}
  /\ main' = [Ready EXCEPT !.pc = IF Main("send") THEN "test" ELSE "stop"]
  /\ UNCHANGED <<running, broken, rx, server, reg, net, clientVars, result, owed>>

(* The abort packet goes out only if error frames are enabled. *)
Leave ==
  /\ Main("leave")
  /\ main' = IF ErrorFrames THEN [main EXCEPT !.pc = "abort", !.num = Abort, !.to = Clients]
             ELSE [main EXCEPT !.pc = "stop"]
  /\ UNCHANGED <<running, broken, rx, server, reg, net, clientVars, result, owed>>

(* The server is stopped, the channel torn down, and the process ends; its *)
(* cancelled thread may do some steps before that.                         *)
Stop ==
  /\ Main("stop")
  /\ main' = [main EXCEPT !.pc = "end"] /\ server' = Dead
  /\ UNCHANGED <<running, broken, rx, reg, net, clientVars, result, owed>>

(* The handler clears the flag.  A read that waits in select returns, one  *)
(* that is about to wait does not notice; send goes on by itself.          *)
Signal ==
  /\ running /\ running' = FALSE
  /\ \/ UNCHANGED main
     \/ Main("read") /\ main' = [main EXCEPT !.pc = "test"]
  /\ UNCHANGED <<broken, rx, server, reg, net, clientVars, result, owed>>

Break ==
  /\ Fails /\ ~broken /\ broken' = TRUE
  /\ UNCHANGED <<running, rx, cpu, reg, net, clientVars, result, owed>>
-------------------------------------------------------------------------------
(* The server's thread: the callback TransmitMessage with what a recv of   *)
(* one client gave.                                                        *)
Server(place) == server.pc = place

Chunks(direction) == IF direction \in Cut THEN 1 .. 2 ELSE {2}

Whole(chunk) == Len(chunk) = 2 /\ chunk = Packet(chunk[1].num)

Taken(chunk) == Whole(chunk)

Recv(c) ==
  /\ Server("recv")
  /\ \E n \in Chunks("up") :
       /\ n <= Len(up[c])
       /\ LET chunk == SubSeq(up[c], 1, n)
          IN  IF Taken(chunk)
              THEN /\ server' = [server EXCEPT !.pc = "write",
                                   !.msg = [from |-> c, num |-> chunk[n].num]]
                   /\ UNCHANGED torn
              ELSE torn' = torn \cup {<<c, "up">>} /\ UNCHANGED server
       /\ up' = [up EXCEPT ![c] = SubSeq(@, n + 1, Len(@))]
  /\ UNCHANGED <<running, broken, rx, main, reg, down, clientVars, onBus, wasted, owed>>

(* can_write: the driver takes the frame, is busy, or refuses it for any   *)
(* other reason, a channel torn down among them.  The first two change the *)
(* transmitter bit of the status register: a load and a store of its byte. *)
Write ==
  /\ Server("write")
  /\ \/ \E ok \in BOOLEAN :
          /\ ~broken
          /\ server' = [server EXCEPT !.pc = "store", !.ok = ok, !.byte = reg]
          /\ onBus' = IF ok THEN [onBus EXCEPT ![server.msg.from] = Append(@, server.msg.num)]
                      ELSE onBus
          /\ owed' = Owed(main, FALSE)
          /\ UNCHANGED wasted
     \/ /\ server' = Waiting
        /\ wasted' = [wasted EXCEPT ![server.msg.from] = @ + 1]
        /\ UNCHANGED <<onBus, owed>>
  /\ UNCHANGED <<running, broken, rx, main, reg, net, clientVars, torn>>

(* The loop repeats a frame that finds the transmitter busy, until it is   *)
(* late: the 100 ms are over.                                              *)

(* Mutant: the loop has no time limit. *)
Again_always(late) == ~server.ok

(* Mutant: the loop goes on after a frame that was sent. *)
Again_sent(late) == ~late

Again(late) == ~server.ok /\ ~late

Written(late) ==
  /\ Server("store")
  /\ reg' = server.byte
  /\ server' = IF Again(late) THEN [server EXCEPT !.pc = "write", !.byte = FALSE] ELSE Waiting
  /\ wasted' = IF server.ok \/ Again(late) THEN wasted
               ELSE [wasted EXCEPT ![server.msg.from] = @ + 1]
  /\ UNCHANGED <<running, broken, rx, main, net, clientVars, onBus, torn, owed>>

-------------------------------------------------------------------------------
(* The clients, through CCanTcpClient.                                     *)
Open == main.pc # "end"

ClientSend(c) ==
  /\ Open /\ sent[c] < MaxPackets
  /\ sent' = [sent EXCEPT ![c] = @ + 1]
  /\ up' = [up EXCEPT ![c] = @ \o Packet(sent[c] + 1)]
  /\ UNCHANGED <<running, broken, rx, cpu, reg, down, taken, result, owed>>

Accepted(chunk) == Whole(chunk)

(* tcp_client_recv takes what is there, and fails if it is not a whole     *)
(* packet; Receive checks the packet.                                      *)
ClientReceive(c) ==
  /\ \E n \in Chunks("down") :
       /\ n <= Len(down[c])
       /\ LET chunk == SubSeq(down[c], 1, n)
          IN  IF Accepted(chunk)
              THEN /\ taken' = [taken EXCEPT ![c] = IF chunk[n].num \in Frames THEN chunk[n].num ELSE @]
                   /\ UNCHANGED torn
              ELSE torn' = torn \cup {<<c, "down">>} /\ UNCHANGED taken
       /\ down' = [down EXCEPT ![c] = SubSeq(@, n + 1, Len(@))]
  /\ UNCHANGED <<running, broken, rx, cpu, reg, up, sent, onBus, wasted, owed>>

MainThread ==
  \/ Test \/ Read \/ ReadFails \/ Store \/ Status \/ Refresh \/ Sent
  \/ Leave \/ Stop
  \/ \E c \in Clients : SendTo(c)

Next ==
  \/ Test \/ Read \/ ReadFails \/ Store \/ Status \/ Refresh \/ Sent
  \/ Leave \/ Stop \/ Signal \/ Break
  \/ Write \/ \E late \in BOOLEAN : Written(late)
  \/ \E c \in Clients : SendTo(c) \/ ClientReceive(c)
  \/ \E c \in Senders : Recv(c) \/ ClientSend(c)

(* Both threads are scheduled and time passes; select serves every client  *)
(* that has sent something.  Nothing says that a client reads.             *)
Spec ==
  /\ Init /\ [][Next]_vars
  /\ WF_vars(MainThread) /\ WF_vars(Write) /\ SF_vars(Written(TRUE))
  /\ \A c \in Senders : SF_vars(Recv(c))
-------------------------------------------------------------------------------
TypeOK ==
  /\ running \in BOOLEAN /\ broken \in BOOLEAN /\ rx \in 0 .. MaxFrames
  /\ main \in [pc : {"test", "read", "store", "status", "refresh", "send", "leave",
                     "abort", "stop", "end"},
               num : 0 .. Abort, to : SUBSET Clients, byte : BOOLEAN]
  /\ server.pc \in {"recv", "write", "store", "dead"}
  /\ server.pc \in {"write", "store"} => server.msg \in [from : Clients, num : 1 .. MaxPackets]
  /\ server.ok \in BOOLEAN /\ server.byte \in BOOLEAN
  /\ reg \in BOOLEAN
  /\ up \in [Clients -> Seq([num : 1 .. MaxPackets, half : 1 .. 2])]
  /\ down \in [Clients -> Seq([num : 0 .. Abort, half : 1 .. 2])]
  /\ \A c \in Clients : Len(down[c]) <= Window
  /\ sent \in [Clients -> 0 .. MaxPackets] /\ taken \in [Clients -> 0 .. MaxFrames]
  /\ onBus \in [Clients -> Seq(1 .. MaxPackets)] /\ wasted \in [Clients -> 0 .. MaxPackets]
  /\ torn \subseteq Clients \X {"up", "down"}
  /\ owed \in {"none", "told", "void"}

(* The bus gets the packets of a client in its order and none twice, with  *)
(* any mix of busy retries, refusals and torn packets between them.        *)
BusInOrder ==
  \A c \in Clients : \A i, j \in DOMAIN onBus[c] : i < j => onBus[c][i] < onBus[c][j]

InHand(c) ==
  IF (server.pc = "write" \/ (server.pc = "store" /\ ~server.ok)) /\ server.msg.from = c
  THEN 1 ELSE 0

(* As long as no packet of a client was torn each one is on the way, in    *)
(* the callback, on the bus, or refused: none vanishes, none is made up.   *)
PacketsAccounted ==
  \A c \in Clients : <<c, "up">> \notin torn /\ server.pc # "dead" =>
    2 * sent[c] = 2 * (Len(onBus[c]) + wasted[c] + InHand(c)) + Len(up[c])

(* The packets of the clients come to the bus, in order and none lost. *)
PacketsKept == TypeOK /\ BusInOrder /\ PacketsAccounted

Sendable(c) == IF main.pc \in {"store", "status", "refresh"} \/ (Main("send") /\ c \in main.to)
               THEN rx - 1 ELSE rx

(* As long as the device works and no packet to it was torn a client has   *)
(* received every frame, or it is on the way, whole and in order, with     *)
(* nothing between or behind but an abort packet at the end; whichever     *)
(* other clients do not read.                                              *)
FramesComplete ==
  ~broken => \A c \in Clients : <<c, "down">> \notin torn =>
    LET left        == Sendable(c) - taken[c]
        whole(k, n) == down[c][2 * k - 1] = Piece(n, 1) /\ down[c][2 * k] = Piece(n, 2)
    IN  /\ taken[c] <= Sendable(c) /\ Len(down[c]) \in {2 * left, 2 * left + 2}
        /\ \A k \in 1 .. left : whole(k, taken[c] + k)
        /\ Len(down[c]) # 2 * left => whole(left + 1, Abort)

(* A loss that the driver told stays in the status sent to the clients,    *)
(* unless both threads changed the register at the same time.              *)
LossKept ==
  owed = "told" =>
    IF Storing(main) THEN main.byte ELSE reg

(* What a client sends is taken from its stream, although a frame of       *)
(* another one finds the transmitter busy for ever, and although other     *)
(* clients do not read.                                                    *)
PacketsServed == \A c \in Senders : up[c] # <<>> ~> up[c] = <<>> \/ ~Open

Blocked == main.pc \in {"send", "abort"} /\ \E c \in main.to : Len(down[c]) + 2 > Window

Silent == Main("read") /\ rx = MaxFrames /\ ~broken

(* A signal ends the program, but for a silent bus or a client that does   *)
(* not read.                                                               *)
SignalEndsBridge == ~running ~> main.pc = "end" \/ Silent \/ Blocked

(* main.cpp:488: 'abort the reception loop' after 'something went terribly *)
(* wrong': a broken device ends the bridge.                                *)
FailureEndsBridge == broken ~> main.pc = "end" \/ Blocked
===============================================================================
