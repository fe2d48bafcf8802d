---------------------------- MODULE CanPortProofs ----------------------------
(***************************************************************************)
(* Theorems about the bridge, for every set of clients, any number of      *)
(* frames and packets, any window, and packets cut in either direction.    *)
(***************************************************************************)
EXTENDS CanPort, SequenceTheorems, TLAPS

Pieces == [num : 1 .. MaxPackets, half : 1 .. 2]

(***************************************************************************)
(* The parts of the invariant.                                             *)
(***************************************************************************)
TypeMain ==
  /\ running \in BOOLEAN /\ broken \in BOOLEAN /\ rx \in 0 .. MaxFrames /\ reg \in BOOLEAN
  /\ main \in [pc : {"test", "read", "store", "status", "refresh", "send", "leave",
                     "abort", "stop", "end"},
               num : 0 .. Abort, to : SUBSET Clients, byte : BOOLEAN]
  /\ owed \in {"none", "told", "void"}

TypeServer ==
  /\ server \in [pc : {"recv", "write", "store", "dead"},
                 msg : {<<>>} \cup [from : Clients, num : 1 .. MaxPackets],
                 ok : BOOLEAN, byte : BOOLEAN]
  /\ server.pc \in {"write", "store"} => server.msg \in [from : Clients, num : 1 .. MaxPackets]

TypeUp ==
  /\ up \in [Clients -> Seq(Pieces)]
  /\ sent \in [Clients -> 0 .. MaxPackets]

TypeDown ==
  /\ down \in [Clients -> Seq([num : 0 .. Abort, half : 1 .. 2])]
  /\ taken \in [Clients -> 0 .. MaxFrames]
  /\ torn \subseteq Clients \X {"up", "down"}

TypeBus ==
  /\ onBus \in [Clients -> Seq(1 .. MaxPackets)]
  /\ wasted \in [Clients -> Nat]

(* No client has more on its way than the stream to it holds. *)
Windows == \A c \in Clients : Len(down[c]) <= Window

Types == TypeMain /\ TypeServer /\ TypeUp /\ TypeDown /\ TypeBus /\ Windows

Holding(c) ==
  /\ server.pc = "write" \/ (server.pc = "store" /\ ~server.ok)
  /\ server.msg.from = c

(* The number of the packet of a client that the callback holds, 0 if none. *)
Held(c) == IF Holding(c) THEN server.msg.num ELSE 0

Before(p, q) == p.num < q.num \/ (p.num = q.num /\ p.half < q.half)

(* The packets of a client pass the bridge as a procession: what it sent   *)
(* is on the way in order, before that what the callback holds, and before *)
(* that what is on the bus.                                                *)
WayOf(c) ==
  /\ \A i, j \in 1 .. Len(up[c]) : i < j => Before(up[c][i], up[c][j])
  /\ \A i \in 1 .. Len(up[c]) : up[c][i].num <= sent[c]

WayInOrder == \A c \in Clients : WayOf(c)

HandOf(c) ==
  Held(c) # 0 =>
    /\ Held(c) <= sent[c]
    /\ \A i \in 1 .. Len(up[c]) : Held(c) < up[c][i].num
    /\ \A i \in 1 .. Len(onBus[c]) : onBus[c][i] < Held(c)

HandInOrder == \A c \in Clients : HandOf(c)

BusOf(c) ==
  \A i \in 1 .. Len(onBus[c]) :
    /\ onBus[c][i] <= sent[c]
    /\ \A j \in 1 .. Len(up[c]) : onBus[c][i] < up[c][j].num

BusBehind == \A c \in Clients : BusOf(c)

(* No packet is counted twice, torn streams and the end included; and none *)
(* is missing as long as the stream is whole and the thread lives.         *)
Total(b, w, h, u) == 2 * (b + w + h) + u

Counted(c) == Total(Len(onBus[c]), wasted[c], InHand(c), Len(up[c]))

AccountOf(c) ==
  /\ Counted(c) <= 2 * sent[c]
  /\ <<c, "up">> \notin torn /\ server.pc # "dead" => Counted(c) = 2 * sent[c]

Accounted == \A c \in Clients : AccountOf(c)

(* While a loss is owed no two threads are between load and store, and the *)
(* one that is has the bit in its byte.                                    *)
LossCarried ==
  owed = "told" =>
    /\ ~(Storing(main) /\ Storing(server))
    /\ IF Storing(main) THEN main.byte
       ELSE reg /\ (Storing(server) => server.byte)

Inv ==
  /\ Types /\ WayInOrder /\ HandInOrder /\ BusBehind /\ BusInOrder
  /\ Accounted /\ LossCarried

-------------------------------------------------------------------------------
(***************************************************************************)
(* Sequences: what a send adds to a stream and a recv takes from it.       *)
(***************************************************************************)
LEMMA PacketIsTwo ==
  ASSUME NEW T, NEW n, Piece(n, 1) \in T, Piece(n, 2) \in T
  PROVE  /\ Packet(n) \in Seq(T)
         /\ Len(Packet(n)) = 2
         /\ Packet(n)[1] = Piece(n, 1) /\ Packet(n)[2] = Piece(n, 2)
PROOF
  BY DEF Packet

(* A stream after another packet. *)
LEMMA Sending ==
  ASSUME NEW T, NEW n, Piece(n, 1) \in T, Piece(n, 2) \in T, NEW s \in Seq(T)
  PROVE  /\ s \o Packet(n) \in Seq(T)
         /\ Len(s \o Packet(n)) = Len(s) + 2
         /\ \A i \in 1 .. Len(s) : (s \o Packet(n))[i] = s[i]
         /\ (s \o Packet(n))[Len(s) + 1] = Piece(n, 1)
         /\ (s \o Packet(n))[Len(s) + 2] = Piece(n, 2)
PROOF
  <1>1. /\ Packet(n) \in Seq(T) /\ Len(Packet(n)) = 2
        /\ Packet(n)[1] = Piece(n, 1) /\ Packet(n)[2] = Piece(n, 2)
    BY PacketIsTwo
  <1>2. Len(s) \in Nat
    BY LenProperties
  <1>3. /\ s \o Packet(n) \in Seq(T)
        /\ Len(s \o Packet(n)) = Len(s) + Len(Packet(n))
        /\ \A i \in 1 .. Len(s) + Len(Packet(n)) :
             (s \o Packet(n))[i] = IF i <= Len(s) THEN s[i] ELSE Packet(n)[i - Len(s)]
    BY <1>1, ConcatProperties
  <1> QED
    BY <1>1, <1>2, <1>3

(* What a recv of n pieces leaves, and what it takes. *)
LEMMA Receiving ==
  ASSUME NEW S, NEW s \in Seq(S), NEW n \in 1 .. 2, n <= Len(s)
  PROVE  /\ SubSeq(s, n + 1, Len(s)) \in Seq(S)
         /\ Len(SubSeq(s, n + 1, Len(s))) = Len(s) - n
         /\ \A i \in 1 .. Len(s) - n : SubSeq(s, n + 1, Len(s))[i] = s[n + i]
         /\ Len(SubSeq(s, 1, n)) = n
         /\ \A i \in 1 .. n : SubSeq(s, 1, n)[i] = s[i]
PROOF
  <1>1. Len(s) \in Nat /\ \A i \in 1 .. Len(s) : s[i] \in S
    BY LenProperties, ElementOfSeq
  <1>2. \A i \in (n + 1) .. Len(s) : s[i] \in S
    BY <1>1
  <1>3. \A i \in 1 .. n : s[i] \in S
    BY <1>1
  <1>4. /\ SubSeq(s, n + 1, Len(s)) \in Seq(S)
        /\ Len(SubSeq(s, n + 1, Len(s))) = IF n + 1 <= Len(s) THEN Len(s) - (n + 1) + 1 ELSE 0
        /\ \A i \in 1 .. Len(s) - (n + 1) + 1 : SubSeq(s, n + 1, Len(s))[i] = s[n + 1 + i - 1]
    <2>1. n + 1 \in Int /\ Len(s) \in Int
      BY <1>1
    <2> QED
      BY <1>2, <2>1, SubSeqProperties
  <1>5. /\ Len(SubSeq(s, 1, n)) = IF 1 <= n THEN n - 1 + 1 ELSE 0
        /\ \A i \in 1 .. n - 1 + 1 : SubSeq(s, 1, n)[i] = s[1 + i - 1]
    BY <1>3, SubSeqProperties
  <1> QED
    BY <1>1, <1>4, <1>5

(* A chunk that passes the checks is the two halves of one packet. *)
LEMMA ChunkIsPacket ==
  ASSUME NEW s \in Seq(Pieces), NEW n \in 1 .. 2, n <= Len(s), Taken(SubSeq(s, 1, n))
  PROVE  /\ n = 2 /\ SubSeq(s, 1, n)[n].num = s[1].num
         /\ s[2].num = s[1].num /\ s[2].half = 2
PROOF
  <1> DEFINE chunk == SubSeq(s, 1, n)
  <1>1. Len(chunk) = n /\ \A i \in 1 .. n : chunk[i] = s[i]
    BY Receiving
  <1>2. Len(chunk) = 2 /\ chunk = Packet(chunk[1].num)
    BY DEF Taken, Whole
  <1>3. Packet(chunk[1].num)[2] = [num |-> chunk[1].num, half |-> 2]
    BY DEF Packet, Piece
  <1>4. n = 2 /\ chunk[2] = [num |-> chunk[1].num, half |-> 2]
    BY <1>1, <1>2, <1>3
  <1>5. chunk[1] = s[1] /\ chunk[2] = s[2]
    BY <1>1, <1>4
  <1> QED
    BY <1>4, <1>5
-------------------------------------------------------------------------------
(***************************************************************************)
(* Types, part by part.                                                    *)
(***************************************************************************)
LEMMA NumbersInRange ==
  /\ Ghost \in 0 .. Abort /\ Abort \in 0 .. Abort
  /\ \A n \in 0 .. MaxFrames : n \in 0 .. Abort
  /\ 0 \in 0 .. MaxFrames /\ 0 \in 0 .. MaxPackets
PROOF
  BY CanPortAssumption DEF Ghost, Abort

LEMMA TypesInit == Init => Types
PROOF
  <1> SUFFICES ASSUME Init PROVE Types
    OBVIOUS
  <1> USE CanPortAssumption DEF Init
  <1>1. TypeMain
    BY NumbersInRange DEF TypeMain, Ready
  <1>2. TypeServer
    BY DEF TypeServer, Waiting
  <1>3. TypeUp /\ TypeDown /\ TypeBus
    BY EmptySeq, NumbersInRange DEF TypeUp, TypeDown, TypeBus
  <1>4. Windows
    <2>1. Len(<<>>) = 0
      BY EmptySeq
    <2>2. ASSUME NEW c \in Clients PROVE Len(down[c]) <= Window
      <3>1. down[c] = <<>>
        OBVIOUS
      <3>2. Len(down[c]) = 0
        BY <2>1, <3>1, Zenon
      <3> QED
        BY <3>2
    <2> QED
      BY <2>2 DEF Windows
  <1> QED
    BY <1>1, <1>2, <1>3, <1>4 DEF Types

(* The steps that touch neither the server's thread nor the packets of the *)
(* clients.                                                                *)
Aside ==
  \/ Test \/ Read \/ ReadFails \/ Store \/ Status \/ Refresh \/ Sent
  \/ Leave \/ Signal \/ Break
  \/ \E c \in Clients : SendTo(c) \/ ClientReceive(c)
  \/ UNCHANGED vars

LEMMA AsideKeeps ==
  ASSUME Aside
  PROVE  /\ UNCHANGED <<server, up, sent, onBus, wasted>>
         /\ \A c \in Clients : <<c, "up">> \in torn' <=> <<c, "up">> \in torn
PROOF
  <1> USE DEF cpu, net, clientVars, result
  <1>1. CASE Test \/ Read \/ ReadFails \/ Store \/ Status \/ Refresh \/ Sent \/ Leave
    BY <1>1 DEF Test, Read, ReadFails, Store, Status, Refresh, Sent, Leave
  <1>2. CASE Signal \/ Break
    BY <1>2 DEF Signal, Break
  <1>3. ASSUME NEW c \in Clients, SendTo(c) \/ ClientReceive(c)
        PROVE  /\ UNCHANGED <<server, up, sent, onBus, wasted>>
               /\ \A d \in Clients : <<d, "up">> \in torn' <=> <<d, "up">> \in torn
    BY <1>3 DEF SendTo, ClientReceive
  <1>4. CASE UNCHANGED vars
    BY <1>4 DEF vars
  <1> QED
    BY <1>1, <1>2, <1>3, <1>4 DEF Aside

(* The other steps. *)
LEMMA StepKinds ==
  ASSUME [Next]_vars
  PROVE  \/ Aside \/ Stop \/ Write \/ \E late \in BOOLEAN : Written(late)
         \/ \E c \in Clients : Recv(c) \/ ClientSend(c)
PROOF
  <1>1. Senders \subseteq Clients
    BY CanPortAssumption
  <1> QED
    BY <1>1 DEF Next, Aside

LEMMA TypeMainStep ==
  ASSUME Types, [Next]_vars
  PROVE  TypeMain'
PROOF
  <1> USE CanPortAssumption DEF Types, TypeMain, cpu, net, clientVars, result, Main
  <1>1. CASE Test \/ ReadFails \/ Leave \/ Signal \/ Break
    <2>1. CASE Test
      BY <2>1 DEF Test
    <2>2. CASE ReadFails \/ Signal \/ Break
      BY <2>2, ZenonT(90) DEF ReadFails, Signal, Break
    <2>3. CASE Leave
      BY <2>3, NumbersInRange DEF Leave
    <2> QED
      BY <1>1, <2>1, <2>2, <2>3
  <1>2. CASE Read
    <2>1. Owed(server, TRUE) \in {"none", "told", "void"} /\ Owed(server, FALSE) \in {"none", "told", "void"}
      BY DEF Owed
    <2>2. rx' \in 0 .. MaxFrames
      BY <1>2 DEF Read
    <2>3. (IF broken THEN Ghost ELSE rx + 1) \in 0 .. Abort
      BY DEF Ghost, Abort
    <2> QED
      BY <1>2, <2>1, <2>2, <2>3, ZenonT(90) DEF Read
  <1>3. CASE Store \/ Refresh
    BY <1>3, ZenonT(90) DEF Store, Refresh
  <1>4. CASE Status
    BY <1>4, ZenonT(90) DEF Status, Owed
  <1>5. CASE Sent
    BY <1>5, NumbersInRange DEF Sent, Ready
  <1>6. ASSUME NEW c \in Clients, SendTo(c) \/ ClientReceive(c) PROVE TypeMain'
    BY <1>6, SMTT(60) DEF SendTo, ClientReceive
  <1>7. CASE UNCHANGED vars
    BY <1>7 DEF vars
  <1>8. CASE Stop
    BY <1>8, SMTT(60) DEF Stop
  <1>9. CASE Write
    BY <1>9, ZenonT(90) DEF Write, Owed
  <1>10. ASSUME NEW late \in BOOLEAN, Written(late) PROVE TypeMain'
    BY <1>10 DEF Written, TypeServer
  <1>11. ASSUME NEW c \in Clients, Recv(c) \/ ClientSend(c) PROVE TypeMain'
    BY <1>11, ZenonT(90) DEF Recv, ClientSend
  <1> QED
    BY <1>1, <1>2, <1>3, <1>4, <1>5, <1>6, <1>7, <1>8, <1>9, <1>10, <1>11, StepKinds DEF Aside

LEMMA TypeServerStep ==
  ASSUME Types, [Next]_vars
  PROVE  TypeServer'
PROOF
  <1> USE DEF Types, TypeServer, TypeMain, Server
  <1>1. CASE Aside
    BY <1>1, AsideKeeps
  <1>2. CASE Stop
    BY <1>2 DEF Stop, Dead, Waiting
  <1>3. CASE Write
    <2>1. CASE server' = Waiting
      BY <2>1 DEF Waiting
    <2>2. ASSUME NEW ok \in BOOLEAN, Server("write"),
                 server' = [server EXCEPT !.pc = "store", !.ok = ok, !.byte = reg]
          PROVE  TypeServer'
      BY <2>2
    <2> QED
      BY <1>3, <2>1, <2>2 DEF Write
  <1>4. ASSUME NEW late \in BOOLEAN, Written(late) PROVE TypeServer'
    BY <1>4 DEF Written, Waiting
  <1>5. ASSUME NEW c \in Clients, ClientSend(c) PROVE TypeServer'
    BY <1>5 DEF ClientSend, cpu
  <1>6. ASSUME NEW c \in Clients, Recv(c) PROVE TypeServer'
    <2>1. PICK n \in Chunks("up") :
            /\ n <= Len(up[c])
            /\ IF Taken(SubSeq(up[c], 1, n))
               THEN server' = [server EXCEPT !.pc = "write",
                                 !.msg = [from |-> c, num |-> SubSeq(up[c], 1, n)[n].num]]
               ELSE UNCHANGED server
      BY <1>6 DEF Recv
    <2>2. up[c] \in Seq(Pieces) /\ n \in 1 .. 2
      BY <2>1 DEF TypeUp, Chunks
    <2>3. CASE ~Taken(SubSeq(up[c], 1, n))
      BY <2>1, <2>3, SMTT(60)
    <2>4. CASE Taken(SubSeq(up[c], 1, n))
      <3>1. n = 2 /\ SubSeq(up[c], 1, n)[n].num = up[c][1].num
        BY <2>1, <2>2, <2>4, ChunkIsPacket, SMTT(60)
      <3>2. 1 \in 1 .. Len(up[c])
        BY <2>1, <2>2, <3>1, LenProperties
      <3>3. up[c][1] \in Pieces
        BY <2>2, <3>2, ElementOfSeq
      <3>4. SubSeq(up[c], 1, n)[n].num \in 1 .. MaxPackets
        BY <3>1, <3>3 DEF Pieces
      <3>5. [from |-> c, num |-> SubSeq(up[c], 1, n)[n].num] \in [from : Clients, num : 1 .. MaxPackets]
        BY <3>4
      <3> QED
        BY <2>1, <2>4, <3>5, ZenonT(90)
    <2> QED
      BY <2>3, <2>4, SMTT(60)
  <1> QED
    BY <1>1, <1>2, <1>3, <1>4, <1>5, <1>6, StepKinds

LEMMA TypeUpStep ==
  ASSUME Types, [Next]_vars
  PROVE  TypeUp'
PROOF
  <1> USE DEF Types, TypeUp, net, clientVars
  <1>1. CASE Aside
    BY <1>1, AsideKeeps
  <1>2. CASE Stop
    BY <1>2, SMTT(60) DEF Stop
  <1>3. CASE Write
    BY <1>3 DEF Write
  <1>4. ASSUME NEW late \in BOOLEAN, Written(late) PROVE TypeUp'
    BY <1>4 DEF Written
  <1>5. ASSUME NEW c \in Clients, ClientSend(c) PROVE TypeUp'
    <2>1. sent[c] + 1 \in 1 .. MaxPackets /\ up[c] \in Seq(Pieces)
      BY <1>5, CanPortAssumption DEF ClientSend
    <2>2. up[c] \o Packet(sent[c] + 1) \in Seq(Pieces)
      <3>1. Piece(sent[c] + 1, 1) \in Pieces /\ Piece(sent[c] + 1, 2) \in Pieces
        BY <2>1 DEF Pieces, Piece
      <3> QED
        BY <2>1, <3>1, Sending
    <2>3. sent[c] + 1 \in 0 .. MaxPackets
      BY <2>1
    <2> QED
      BY <1>5, <2>2, <2>3 DEF ClientSend
  <1>6. ASSUME NEW c \in Clients, Recv(c) PROVE TypeUp'
    <2>1. PICK n \in Chunks("up") :
            n <= Len(up[c]) /\ up' = [up EXCEPT ![c] = SubSeq(up[c], n + 1, Len(up[c]))]
      BY <1>6 DEF Recv
    <2>2. up[c] \in Seq(Pieces) /\ n \in 1 .. 2
      BY <2>1 DEF Chunks
    <2>3. SubSeq(up[c], n + 1, Len(up[c])) \in Seq(Pieces)
      BY <2>1, <2>2, Receiving
    <2> QED
      BY <1>6, <2>1, <2>3 DEF Recv
  <1> QED
    BY <1>1, <1>2, <1>3, <1>4, <1>5, <1>6, StepKinds

LEMMA DownSteps ==
  ASSUME [Next]_vars
  PROVE  \/ UNCHANGED <<down, taken>>
         \/ \E c \in Clients : SendTo(c) \/ ClientReceive(c)
PROOF
  <1> USE DEF cpu, net, clientVars, result
  <1>1. CASE Test \/ Read \/ ReadFails \/ Store \/ Status \/ Refresh \/ Sent \/ Leave
    BY <1>1, ZenonT(90) DEF Test, Read, ReadFails, Store, Status, Refresh, Sent, Leave
  <1>2. CASE Signal \/ Break \/ Stop \/ Write
    BY <1>2 DEF Signal, Break, Stop, Write
  <1>3. ASSUME NEW late \in BOOLEAN, Written(late) PROVE UNCHANGED <<down, taken>>
    BY <1>3 DEF Written
  <1>4. ASSUME NEW c \in Clients, Recv(c) \/ ClientSend(c) PROVE UNCHANGED <<down, taken>>
    BY <1>4 DEF Recv, ClientSend
  <1>5. CASE UNCHANGED vars
    BY <1>5 DEF vars
  <1> QED
    BY <1>1, <1>2, <1>3, <1>4, <1>5, StepKinds DEF Aside

(* A packet is sent only where the stream has room for it. *)
LEMMA WindowsStep ==
  ASSUME Types, [Next]_vars
  PROVE  Windows' /\ down' \in [Clients -> Seq([num : 0 .. Abort, half : 1 .. 2])]
PROOF
  <1> DEFINE T == [num : 0 .. Abort, half : 1 .. 2]
  <1>0. down \in [Clients -> Seq(T)] /\ Windows
    BY DEF Types, TypeDown
  <1>1. CASE UNCHANGED <<down, taken>>
    BY <1>0, <1>1 DEF Windows
  <1>2. ASSUME NEW c \in Clients, SendTo(c) PROVE Windows' /\ down' \in [Clients -> Seq(T)]
    <2>1. /\ down' = [down EXCEPT ![c] = down[c] \o Packet(main.num)]
          /\ Len(down[c]) + Len(Packet(main.num)) <= Window
      BY <1>2 DEF SendTo, Put
    <2>2. main.num \in 0 .. Abort /\ down[c] \in Seq(T)
      BY <1>0 DEF Types, TypeMain
    <2>3. Piece(main.num, 1) \in T /\ Piece(main.num, 2) \in T
      BY <2>2 DEF Piece
    <2> HIDE DEF T
    <2>4. Len(Packet(main.num)) = 2
      BY <2>3, PacketIsTwo
    <2>5. /\ down[c] \o Packet(main.num) \in Seq(T)
          /\ Len(down[c] \o Packet(main.num)) = Len(down[c]) + 2
      <3>1. PICK n \in 0 .. Abort, s \in Seq(T) : n = main.num /\ s = down[c]
        BY <2>2
      <3>2. Piece(n, 1) \in T /\ Piece(n, 2) \in T
        BY <2>3, <3>1
      <3>3. s \o Packet(n) \in Seq(T) /\ Len(s \o Packet(n)) = Len(s) + 2
        BY <3>2, Sending
      <3> QED
        BY <3>1, <3>3
    <2>6. ASSUME NEW d \in Clients PROVE Len(down'[d]) <= Window
      <3>1. CASE d = c
        BY <1>0, <2>1, <2>4, <2>5, <3>1
      <3>2. CASE d # c
        BY <1>0, <2>1, <3>2 DEF Windows
      <3> QED
        BY <3>1, <3>2
    <2> QED
      BY <1>0, <2>1, <2>5, <2>6 DEF Windows
  <1>3. ASSUME NEW c \in Clients, ClientReceive(c) PROVE Windows' /\ down' \in [Clients -> Seq(T)]
    <2>1. PICK n \in Chunks("down") :
            n <= Len(down[c]) /\ down' = [down EXCEPT ![c] = SubSeq(down[c], n + 1, Len(down[c]))]
      BY <1>3 DEF ClientReceive
    <2> HIDE DEF T
    <2>2. down[c] \in Seq(T) /\ n \in 1 .. 2
      BY <1>0, <2>1 DEF Chunks
    <2>3. /\ SubSeq(down[c], n + 1, Len(down[c])) \in Seq(T)
          /\ Len(SubSeq(down[c], n + 1, Len(down[c]))) = Len(down[c]) - n
      BY <2>1, <2>2, Receiving
    <2>4. Len(down[c]) \in Nat /\ Window \in Nat
      BY <2>2, LenProperties, CanPortAssumption
    <2>5. ASSUME NEW d \in Clients PROVE Len(down'[d]) <= Window
      <3>1. CASE d = c
        <4>1. Len(down[c]) <= Window
          BY <1>0 DEF Windows
        <4>2. down'[d] = SubSeq(down[c], n + 1, Len(down[c]))
          BY <1>0, <2>1, <3>1
        <4> QED
          BY <2>2, <2>3, <2>4, <4>1, <4>2
      <3>2. CASE d # c
        BY <1>0, <2>1, <3>2 DEF Windows
      <3> QED
        BY <3>1, <3>2
    <2> QED
      BY <1>0, <2>1, <2>3, <2>5 DEF Windows
  <1> QED
    BY <1>1, <1>2, <1>3, DownSteps

LEMMA TypeDownStep ==
  ASSUME Types, [Next]_vars
  PROVE  TypeDown'
PROOF
  <1>1. down' \in [Clients -> Seq([num : 0 .. Abort, half : 1 .. 2])]
    BY WindowsStep
  <1>2. taken' \in [Clients -> 0 .. MaxFrames]
    <2>0. taken \in [Clients -> 0 .. MaxFrames]
      BY DEF Types, TypeDown
    <2>1. ASSUME NEW c \in Clients, SendTo(c) PROVE taken' = taken
      BY <2>1 DEF SendTo, clientVars
    <2>2. ASSUME NEW c \in Clients, ClientReceive(c) PROVE taken' \in [Clients -> 0 .. MaxFrames]
      <3>1. taken' = taken \/ \E x : taken' = [taken EXCEPT ![c] = IF x \in Frames THEN x ELSE taken[c]]
        BY <2>2 DEF ClientReceive
      <3>2. Frames \subseteq 0 .. MaxFrames
        BY CanPortAssumption DEF Frames
      <3> QED
        BY <2>0, <3>1, <3>2
    <2> QED
      BY <2>0, <2>1, <2>2, DownSteps
  <1>3. torn' \subseteq Clients \X {"up", "down"}
    <2> USE DEF Types, TypeDown, cpu, net, clientVars, result
    <2>1. CASE Test \/ Read \/ ReadFails \/ Store \/ Status \/ Refresh \/ Sent \/ Leave
      BY <2>1, ZenonT(90) DEF Test, Read, ReadFails, Store, Status, Refresh, Sent, Leave
    <2>2. CASE Signal \/ Break \/ Stop \/ Write
      BY <2>2 DEF Signal, Break, Stop, Write
    <2>3. ASSUME NEW late \in BOOLEAN, Written(late) PROVE torn' = torn
      BY <2>3 DEF Written
    <2>4. ASSUME NEW c \in Clients, Recv(c) \/ ClientSend(c) \/ SendTo(c) \/ ClientReceive(c)
          PROVE  torn' \subseteq Clients \X {"up", "down"}
      <3>1. torn' \in {torn, torn \cup {<<c, "up">>}, torn \cup {<<c, "down">>}}
        BY <2>4 DEF Recv, ClientSend, SendTo, ClientReceive
      <3> QED
        BY <3>1, SMTT(60)
    <2>5. CASE UNCHANGED vars
      BY <2>5 DEF vars
    <2> QED
      BY <2>1, <2>2, <2>3, <2>4, <2>5, StepKinds DEF Aside
  <1> QED
    BY <1>1, <1>2, <1>3 DEF TypeDown

(* What is counted of a client's packets. *)
LEMMA TypeBusStep ==
  ASSUME Types, [Next]_vars
  PROVE  TypeBus'
PROOF
  <1> USE DEF Types, TypeBus, TypeServer, Server, result
  <1>1. CASE Aside
    BY <1>1, AsideKeeps
  <1>2. CASE Stop
    BY <1>2 DEF Stop
  <1>3. CASE Write
    <2>1. server.msg.from \in Clients /\ server.msg.num \in 1 .. MaxPackets
      BY <1>3 DEF Write
    <2>2. Append(onBus[server.msg.from], server.msg.num) \in Seq(1 .. MaxPackets)
      BY <2>1, AppendProperties
    <2>3. wasted[server.msg.from] + 1 \in Nat
      BY <2>1, SMTT(60)
    <2>4. /\ \/ onBus' = onBus
             \/ onBus' = [onBus EXCEPT ![server.msg.from] = Append(onBus[server.msg.from], server.msg.num)]
          /\ \/ wasted' = wasted
             \/ wasted' = [wasted EXCEPT ![server.msg.from] = wasted[server.msg.from] + 1]
      BY <1>3 DEF Write
    <2>5. onBus' \in [Clients -> Seq(1 .. MaxPackets)]
      BY <2>1, <2>2, <2>4
    <2>6. wasted' \in [Clients -> Nat]
      BY <2>1, <2>3, <2>4
    <2> QED
      BY <2>5, <2>6, SMTT(60)
  <1>4. ASSUME NEW late \in BOOLEAN, Written(late) PROVE TypeBus'
    <2>1. server.msg.from \in Clients
      BY <1>4 DEF Written
    <2>2. wasted[server.msg.from] + 1 \in Nat
      BY <2>1
    <2> QED
      BY <1>4, <2>1, <2>2 DEF Written
  <1>5. ASSUME NEW c \in Clients, Recv(c) \/ ClientSend(c) PROVE TypeBus'
    BY <1>5 DEF Recv, ClientSend
  <1> QED
    BY <1>1, <1>2, <1>3, <1>4, <1>5, StepKinds

LEMMA TypesStep ==
  ASSUME Types, [Next]_vars
  PROVE  Types'
PROOF
  BY TypeMainStep, TypeServerStep, TypeUpStep, TypeDownStep, TypeBusStep, WindowsStep DEF Types
-------------------------------------------------------------------------------
(***************************************************************************)
(* The steps by what they do to the packets of the clients.                *)
(***************************************************************************)
Alone == UNCHANGED <<up, sent, onBus, wasted>>

Alive == server'.pc = "dead" <=> server.pc = "dead"

SameTorn == \A c \in Clients : <<c, "up">> \in torn' <=> <<c, "up">> \in torn

Keeps ==
  Alone /\ Alive /\ SameTorn /\ \A c \in Clients : Held(c)' = Held(c)

Ends ==
  Alone /\ SameTorn /\ server'.pc = "dead" /\ \A c \in Clients : Held(c)' = 0

(* The callback lays down what it held of a client. *)
LaysDown(c) ==
  /\ Held(c) # 0 /\ \A d \in Clients : Held(d)' = 0 /\ (d # c => Held(d) = 0)
  /\ Alive /\ SameTorn /\ UNCHANGED <<up, sent>>

Delivers(c) ==
  /\ LaysDown(c)
  /\ onBus' = [onBus EXCEPT ![c] = Append(onBus[c], Held(c))] /\ UNCHANGED wasted

Refuses(c) ==
  /\ LaysDown(c)
  /\ wasted' = [wasted EXCEPT ![c] = wasted[c] + 1] /\ UNCHANGED onBus

Takes(c) ==
  /\ 2 <= Len(up[c]) /\ up[c][2].num = up[c][1].num /\ up[c][2].half = 2
  /\ up' = [up EXCEPT ![c] = SubSeq(up[c], 3, Len(up[c]))]
  /\ \A d \in Clients : Held(d) = 0 /\ Held(d)' = IF d = c THEN up[c][1].num ELSE 0
  /\ Alive /\ SameTorn /\ UNCHANGED <<sent, onBus, wasted>>

Tears(c) ==
  /\ \E n \in 1 .. 2 : n <= Len(up[c]) /\ up' = [up EXCEPT ![c] = SubSeq(up[c], n + 1, Len(up[c]))]
  /\ <<c, "up">> \in torn' /\ \A d \in Clients : d # c => (<<d, "up">> \in torn' <=> <<d, "up">> \in torn)
  /\ Alive /\ UNCHANGED <<sent, onBus, wasted>>
  /\ \A d \in Clients : Held(d)' = Held(d)

Sends(c) ==
  /\ sent[c] < MaxPackets /\ sent' = [sent EXCEPT ![c] = sent[c] + 1]
  /\ up' = [up EXCEPT ![c] = up[c] \o Packet(sent[c] + 1)]
  /\ Alive /\ SameTorn /\ UNCHANGED <<onBus, wasted>>
  /\ \A d \in Clients : Held(d)' = Held(d)

LEMMA HeldRange ==
  ASSUME Types, NEW c \in Clients
  PROVE  Held(c) \in 0 .. MaxPackets /\ InHand(c) = IF Held(c) = 0 THEN 0 ELSE 1
PROOF
  <1>1. server.pc \in {"write", "store"} => server.msg.num \in 1 .. MaxPackets
    BY DEF Types, TypeServer
  <1>2. CASE Holding(c)
    <2>1. server.msg.num \in 1 .. MaxPackets
      BY <1>1, <1>2 DEF Holding
    <2> QED
      BY <1>2, <2>1 DEF Held, Holding, InHand
  <1>3. CASE ~Holding(c)
    BY <1>3, NumbersInRange, CanPortAssumption, SMTT(60) DEF Held, Holding, InHand
  <1> QED
    BY <1>2, <1>3

LEMMA WriteMoves ==
  ASSUME Types, Write
  PROVE  Keeps \/ \E c \in Clients : Delivers(c) \/ Refuses(c)
PROOF
  <1>1. /\ server.pc = "write" /\ UNCHANGED <<up, sent, torn>>
        /\ \/ \E ok \in BOOLEAN :
                /\ server' = [server EXCEPT !.pc = "store", !.ok = ok, !.byte = reg]
                /\ onBus' = IF ok
                            THEN [onBus EXCEPT ![server.msg.from] =
                                    Append(onBus[server.msg.from], server.msg.num)]
                            ELSE onBus
                /\ UNCHANGED wasted
           \/ /\ server' = Waiting
              /\ wasted' = [wasted EXCEPT ![server.msg.from] = wasted[server.msg.from] + 1]
              /\ UNCHANGED onBus
    BY ZenonT(90) DEF Write, Server, net, clientVars
  <1>2. server.msg.from \in Clients /\ server.msg.num \in 1 .. MaxPackets
    BY <1>1 DEF Types, TypeServer
  <1>3. PICK c \in Clients, m \in 1 .. MaxPackets : c = server.msg.from /\ m = server.msg.num
    BY <1>2
  <1>4. Held(c) = m /\ m # 0 /\ \A d \in Clients : d # c => Held(d) = 0
    <2>1. Holding(c) /\ \A d \in Clients : d # c => ~Holding(d)
      BY <1>1, <1>3, ZenonT(90) DEF Holding
    <2> QED
      BY <1>3, <2>1, SMTT(60) DEF Held
  <1>5. SameTorn
    BY <1>1, ZenonT(90) DEF SameTorn
  <1>6. ASSUME server' = [server EXCEPT !.pc = "store", !.ok = FALSE, !.byte = reg],
               onBus' = onBus, wasted' = wasted
        PROVE  Keeps
    <2>1. server'.pc = "store" /\ server'.ok = FALSE /\ server'.msg = server.msg
      BY <1>6, SMTT(60) DEF Types, TypeServer
    <2>2. \A d \in Clients : Holding(d)' <=> Holding(d)
      BY <1>1, <2>1 DEF Holding
    <2>3. \A d \in Clients : Held(d)' = Held(d)
      BY <2>1, <2>2 DEF Held
    <2> QED
      BY <1>1, <1>5, <1>6, <2>1, <2>3 DEF Keeps, Alone, Alive
  <1>7. ASSUME server' = [server EXCEPT !.pc = "store", !.ok = TRUE, !.byte = reg],
               onBus' = [onBus EXCEPT ![c] = Append(onBus[c], m)], wasted' = wasted
        PROVE  Delivers(c)
    <2>1. server'.pc = "store" /\ server'.ok = TRUE
      BY <1>7 DEF Types, TypeServer
    <2>2. \A d \in Clients : Held(d)' = 0
      BY <2>1, SMTT(60) DEF Held, Holding
    <2> QED
      BY <1>1, <1>4, <1>5, <1>7, <2>1, <2>2 DEF Delivers, LaysDown, Alive
  <1>8. ASSUME server' = Waiting, wasted' = [wasted EXCEPT ![c] = wasted[c] + 1], onBus' = onBus
        PROVE  Refuses(c)
    <2>1. server'.pc = "recv"
      BY <1>8 DEF Waiting
    <2>2. \A d \in Clients : Held(d)' = 0
      BY <2>1 DEF Held, Holding
    <2> QED
      BY <1>1, <1>4, <1>5, <1>8, <2>1, <2>2 DEF Refuses, LaysDown, Alive
  <1> QED
    BY <1>1, <1>3, <1>6, <1>7, <1>8, ZenonT(90)

LEMMA WrittenMoves ==
  ASSUME Types, NEW late \in BOOLEAN, Written(late)
  PROVE  Keeps \/ \E c \in Clients : Refuses(c)
PROOF
  <1>1. /\ server.pc = "store" /\ UNCHANGED <<up, sent, torn, onBus>>
        /\ server' = IF Again(late) THEN [server EXCEPT !.pc = "write", !.byte = FALSE] ELSE Waiting
        /\ wasted' = IF server.ok \/ Again(late) THEN wasted
                     ELSE [wasted EXCEPT ![server.msg.from] = wasted[server.msg.from] + 1]
    BY DEF Written, Server, net, clientVars
  <1>2. server.msg.from \in Clients /\ server.msg.num \in 1 .. MaxPackets
    BY <1>1 DEF Types, TypeServer
  <1>3. PICK c \in Clients, m \in 1 .. MaxPackets : c = server.msg.from /\ m = server.msg.num
    BY <1>2
  <1>4. SameTorn
    BY <1>1 DEF SameTorn
  <1>5. CASE server.ok
    <2>1. server' = Waiting /\ wasted' = wasted /\ server'.pc = "recv"
      BY <1>1, <1>5 DEF Again, Waiting
    <2>2. \A d \in Clients : Held(d)' = 0 /\ Held(d) = 0
      BY <1>1, <1>5, <2>1 DEF Held, Holding
    <2> QED
      BY <1>1, <1>4, <2>1, <2>2 DEF Keeps, Alone, Alive
  <1>6. CASE Again(late)
    <2>1. server'.pc = "write" /\ server'.msg = server.msg /\ ~server.ok /\ wasted' = wasted
      BY <1>1, <1>6 DEF Again, Types, TypeServer
    <2>2. \A d \in Clients : Holding(d)' <=> Holding(d)
      BY <1>1, <2>1 DEF Holding
    <2>3. \A d \in Clients : Held(d)' = Held(d)
      BY <2>1, <2>2 DEF Held
    <2> QED
      BY <1>1, <1>4, <2>1, <2>3 DEF Keeps, Alone, Alive
  <1>7. CASE ~server.ok /\ ~Again(late)
    <2>1. server'.pc = "recv" /\ wasted' = [wasted EXCEPT ![c] = wasted[c] + 1]
      BY <1>1, <1>3, <1>7 DEF Waiting
    <2>2. \A d \in Clients : Held(d)' = 0
      BY <2>1 DEF Held, Holding
    <2>3. Held(c) = m /\ m # 0 /\ \A d \in Clients : d # c => Held(d) = 0
      BY <1>1, <1>3, <1>7 DEF Held, Holding
    <2> QED
      BY <1>1, <1>4, <2>1, <2>2, <2>3 DEF Refuses, LaysDown, Alive
  <1> QED
    BY <1>5, <1>6, <1>7

LEMMA RecvMoves ==
  ASSUME Types, NEW c \in Clients, Recv(c)
  PROVE  Takes(c) \/ Tears(c)
PROOF
  <1>1. PICK n \in Chunks("up") :
          /\ server.pc = "recv" /\ n <= Len(up[c])
          /\ IF Taken(SubSeq(up[c], 1, n))
             THEN /\ server' = [server EXCEPT !.pc = "write",
                                  !.msg = [from |-> c, num |-> SubSeq(up[c], 1, n)[n].num]]
                  /\ UNCHANGED torn
             ELSE torn' = torn \cup {<<c, "up">>} /\ UNCHANGED server
          /\ up' = [up EXCEPT ![c] = SubSeq(up[c], n + 1, Len(up[c]))]
          /\ UNCHANGED <<sent, onBus, wasted>>
    BY DEF Recv, Server, clientVars
  <1>2. up[c] \in Seq(Pieces) /\ n \in 1 .. 2
    BY <1>1 DEF Types, TypeUp, Chunks
  <1>3. \A d \in Clients : Held(d) = 0
    BY <1>1 DEF Held, Holding
  <1>4. CASE Taken(SubSeq(up[c], 1, n))
    <2>1. /\ n = 2 /\ SubSeq(up[c], 1, n)[n].num = up[c][1].num
          /\ up[c][2].num = up[c][1].num /\ up[c][2].half = 2
      BY <1>1, <1>2, <1>4, ChunkIsPacket
    <2>2. server'.pc = "write" /\ server'.msg = [from |-> c, num |-> up[c][1].num]
      BY <1>1, <1>4, <2>1, ZenonT(90) DEF Types, TypeServer
    <2>3. \A d \in Clients : Held(d)' = IF d = c THEN up[c][1].num ELSE 0
      BY <2>2 DEF Held, Holding
    <2>4. SameTorn
      BY <1>1, <1>4 DEF SameTorn
    <2> QED
      BY <1>1, <1>3, <2>1, <2>2, <2>3, <2>4 DEF Takes, Alive
  <1>5. CASE ~Taken(SubSeq(up[c], 1, n))
    <2>1. server' = server /\ torn' = torn \cup {<<c, "up">>}
      BY <1>1, <1>5
    <2>2. \A d \in Clients : Held(d)' = 0
      BY <1>1, <2>1 DEF Held, Holding
    <2> QED
      BY <1>1, <1>2, <1>3, <2>1, <2>2 DEF Tears, Alive
  <1> QED
    BY <1>4, <1>5

(* Every step is of one of these kinds. *)
LEMMA Moves ==
  ASSUME Types, [Next]_vars
  PROVE  Keeps \/ Ends \/ \E c \in Clients : Delivers(c) \/ Refuses(c) \/ Takes(c) \/ Tears(c) \/ Sends(c)
PROOF
  <1>1. CASE Aside
    BY <1>1, AsideKeeps DEF Keeps, Alone, Alive, SameTorn, Held, Holding
  <1>2. CASE Stop
    <2>1. server'.pc = "dead" /\ UNCHANGED <<up, sent, onBus, wasted, torn>>
      BY <1>2 DEF Stop, Dead, Waiting, net, clientVars, result
    <2> QED
      BY <2>1 DEF Ends, Alone, SameTorn, Held, Holding
  <1>3. ASSUME NEW c \in Clients, ClientSend(c) PROVE Sends(c)
    BY <1>3 DEF ClientSend, Sends, cpu, result, Alive, SameTorn, Held, Holding
  <1> QED
    BY <1>1, <1>2, <1>3, WriteMoves, WrittenMoves, RecvMoves, StepKinds
-------------------------------------------------------------------------------
(***************************************************************************)
(* The order of the packets.                                               *)
(***************************************************************************)

(* What is known of the numbers on a client's way. *)
LEMMA Numbers ==
  ASSUME Types, NEW c \in Clients
  PROVE  /\ Len(up[c]) \in Nat /\ sent[c] \in Nat /\ up[c] \in Seq(Pieces)
         /\ \A i \in 1 .. Len(up[c]) : up[c][i].num \in Nat /\ up[c][i].half \in 1 .. 2
         /\ Len(onBus[c]) \in Nat /\ onBus[c] \in Seq(1 .. MaxPackets)
         /\ \A i \in 1 .. Len(onBus[c]) : onBus[c][i] \in Nat
PROOF
  <1>1. up[c] \in Seq(Pieces) /\ sent[c] \in 0 .. MaxPackets
    BY DEF Types, TypeUp
  <1>2. Len(up[c]) \in Nat /\ \A i \in 1 .. Len(up[c]) : up[c][i] \in Pieces
    BY <1>1, LenProperties, ElementOfSeq
  <1>3. \A p \in Pieces : p.num \in Nat /\ p.half \in 1 .. 2
    BY CanPortAssumption DEF Pieces
  <1>4. onBus[c] \in Seq(1 .. MaxPackets)
    BY DEF Types, TypeBus
  <1>5. Len(onBus[c]) \in Nat /\ \A i \in 1 .. Len(onBus[c]) : onBus[c][i] \in 1 .. MaxPackets
    BY <1>4, LenProperties, ElementOfSeq
  <1>6. sent[c] \in Nat /\ \A m \in 1 .. MaxPackets : m \in Nat
    BY <1>1
  <1> QED
    BY <1>1, <1>2, <1>3, <1>4, <1>5, <1>6

(* A stream that lost pieces at its head. *)
LEMMA Shift ==
  ASSUME Types, NEW c \in Clients, NEW n \in 1 .. 2, n <= Len(up[c]),
         up' = [up EXCEPT ![c] = SubSeq(up[c], n + 1, Len(up[c]))]
  PROVE  /\ Len(up'[c]) = Len(up[c]) - n
         /\ \A i \in 1 .. Len(up'[c]) : n + i \in 1 .. Len(up[c]) /\ up'[c][i] = up[c][n + i]
         /\ \A d \in Clients : d # c => up'[d] = up[d]
PROOF
  <1>1. up[c] \in Seq(Pieces) /\ Len(up[c]) \in Nat
    BY Numbers
  <1>2. up'[c] = SubSeq(up[c], n + 1, Len(up[c])) /\ \A d \in Clients : d # c => up'[d] = up[d]
    BY DEF Types, TypeUp
  <1>3. /\ Len(SubSeq(up[c], n + 1, Len(up[c]))) = Len(up[c]) - n
        /\ \A i \in 1 .. Len(up[c]) - n : SubSeq(up[c], n + 1, Len(up[c]))[i] = up[c][n + i]
    BY <1>1, Receiving
  <1> QED
    BY <1>1, <1>2, <1>3

LEMMA Shifts ==
  ASSUME Types, NEW c \in Clients, Takes(c) \/ Tears(c)
  PROVE  \E n \in 1 .. 2 :
           /\ (Takes(c) => n = 2) /\ n <= Len(up[c])
           /\ Len(up'[c]) = Len(up[c]) - n
           /\ \A i \in 1 .. Len(up'[c]) : n + i \in 1 .. Len(up[c]) /\ up'[c][i] = up[c][n + i]
           /\ \A d \in Clients : d # c => up'[d] = up[d]
PROOF
  <1>1. CASE Takes(c)
    <2>1. PICK n \in 1 .. 2 : n = 2 /\ n + 1 = 3
      OBVIOUS
    <2>2. n <= Len(up[c]) /\ up' = [up EXCEPT ![c] = SubSeq(up[c], n + 1, Len(up[c]))]
      BY <1>1, <2>1 DEF Takes
    <2> QED
      BY <2>1, <2>2, Shift, ZenonT(90)
  <1>2. CASE Tears(c) /\ ~Takes(c)
    <2>1. PICK n \in 1 .. 2 : n <= Len(up[c]) /\ up' = [up EXCEPT ![c] = SubSeq(up[c], n + 1, Len(up[c]))]
      BY <1>2 DEF Tears
    <2> QED
      BY <1>2, <2>1, Shift
  <1> QED
    BY <1>1, <1>2

(* A stream with a new packet at its end. *)
LEMMA Joins ==
  ASSUME Types, NEW c \in Clients, Sends(c)
  PROVE  /\ Len(up'[c]) = Len(up[c]) + 2 /\ sent'[c] = sent[c] + 1
         /\ \A i \in 1 .. Len(up[c]) : up'[c][i] = up[c][i]
         /\ \A i \in 1 .. 2 : up'[c][Len(up[c]) + i] = Piece(sent[c] + 1, i)
         /\ \A d \in Clients : d # c => up'[d] = up[d] /\ sent'[d] = sent[d]
PROOF
  <1>1. /\ up'[c] = up[c] \o Packet(sent[c] + 1) /\ sent'[c] = sent[c] + 1
        /\ \A d \in Clients : d # c => up'[d] = up[d] /\ sent'[d] = sent[d]
    BY DEF Sends, Types, TypeUp
  <1>2. PICK s \in Seq(Pieces), m \in 1 .. MaxPackets : s = up[c] /\ m = sent[c] + 1
    BY Numbers, CanPortAssumption, SMTT(60) DEF Sends
  <1>3. Piece(m, 1) \in Pieces /\ Piece(m, 2) \in Pieces
    BY DEF Piece, Pieces
  <1>4. /\ Len(s \o Packet(m)) = Len(s) + 2
        /\ \A i \in 1 .. Len(s) : (s \o Packet(m))[i] = s[i]
        /\ (s \o Packet(m))[Len(s) + 1] = Piece(m, 1)
        /\ (s \o Packet(m))[Len(s) + 2] = Piece(m, 2)
    BY <1>3, Sending
  <1>5. \A i \in 1 .. 2 : i = 1 \/ i = 2
    OBVIOUS
  <1> QED
    BY <1>1, <1>2, <1>4, <1>5

LEMMA WayInOrderStep ==
  ASSUME Types, WayInOrder, [Next]_vars
  PROVE  WayInOrder'
PROOF
  <1>1. CASE UNCHANGED <<up, sent>>
    BY <1>1 DEF WayInOrder, WayOf, Before
  <1>2. ASSUME NEW c \in Clients, Takes(c) \/ Tears(c) PROVE WayInOrder'
    <2>1. PICK n \in 1 .. 2 :
            /\ Len(up'[c]) = Len(up[c]) - n
            /\ \A i \in 1 .. Len(up'[c]) : n + i \in 1 .. Len(up[c]) /\ up'[c][i] = up[c][n + i]
            /\ \A d \in Clients : d # c => up'[d] = up[d]
      BY <1>2, Shifts
    <2>2. sent' = sent
      BY <1>2 DEF Takes, Tears
    <2>3. ASSUME NEW i \in 1 .. Len(up'[c]), NEW j \in 1 .. Len(up'[c]), i < j
          PROVE  Before(up'[c][i], up'[c][j])
      <3>1. n + i \in 1 .. Len(up[c]) /\ n + j \in 1 .. Len(up[c]) /\ n + i < n + j
        BY <2>1, <2>3
      <3>2. Before(up[c][n + i], up[c][n + j])
        BY <3>1 DEF WayInOrder, WayOf
      <3> QED
        BY <2>1, <3>2
    <2>4. ASSUME NEW i \in 1 .. Len(up'[c]) PROVE up'[c][i].num <= sent'[c]
      <3>1. n + i \in 1 .. Len(up[c]) /\ up'[c][i] = up[c][n + i]
        BY <2>1
      <3> QED
        BY <2>2, <3>1 DEF WayInOrder, WayOf
    <2>5. WayOf(c)'
      BY <2>3, <2>4 DEF WayOf
    <2>6. ASSUME NEW d \in Clients, d # c PROVE WayOf(d)'
      <3>1. WayOf(d) /\ up'[d] = up[d] /\ sent'[d] = sent[d]
        BY <2>1, <2>2, <2>6 DEF WayInOrder
      <3> QED
        BY <3>1 DEF WayOf, Before
    <2> QED
      BY <2>5, <2>6 DEF WayInOrder
  <1>3. ASSUME NEW c \in Clients, Sends(c) PROVE WayInOrder'
    <2>1. /\ Len(up[c]) \in Nat /\ sent[c] \in Nat
          /\ \A i \in 1 .. Len(up[c]) : up[c][i].num \in Nat
      BY Numbers
    <2>2. /\ Len(up'[c]) = Len(up[c]) + 2 /\ sent'[c] = sent[c] + 1
          /\ \A i \in 1 .. Len(up[c]) : up'[c][i] = up[c][i]
          /\ \A i \in 1 .. 2 : up'[c][Len(up[c]) + i] = Piece(sent[c] + 1, i)
          /\ \A d \in Clients : d # c => up'[d] = up[d] /\ sent'[d] = sent[d]
      BY <1>3, Joins
    <2>3. PICK len \in Nat, m \in Nat : len = Len(up[c]) /\ m = sent[c]
      BY <2>1
    <2>4. ASSUME NEW i \in 1 .. len + 2
          PROVE  i \in 1 .. len \/ (i = len + 1 /\ up'[c][i] = Piece(m + 1, 1))
                                \/ (i = len + 2 /\ up'[c][i] = Piece(m + 1, 2))
      <3>1. i \in 1 .. len \/ i = len + 1 \/ i = len + 2
        OBVIOUS
      <3> QED
        BY <2>2, <2>3, <3>1
    <2>5. \A i \in 1 .. len : up'[c][i] = up[c][i] /\ up[c][i].num <= m /\ up[c][i].num \in Nat
      BY <2>1, <2>2, <2>3 DEF WayInOrder, WayOf
    <2>6. ASSUME NEW i \in 1 .. len + 2, NEW j \in 1 .. len + 2, i < j
          PROVE  Before(up'[c][i], up'[c][j])
      <3>1. CASE j \in 1 .. len
        <4>1. i \in 1 .. len
          BY <2>6, <3>1
        <4>2. Before(up[c][i], up[c][j])
          BY <2>3, <2>6, <3>1, <4>1 DEF WayInOrder, WayOf
        <4> QED
          BY <2>5, <3>1, <4>1, <4>2
      <3>2. CASE j = len + 1 /\ up'[c][j] = Piece(m + 1, 1)
        <4>1. i \in 1 .. len
          BY <2>6, <3>2
        <4> QED
          BY <2>5, <3>2, <4>1 DEF Before, Piece
      <3>3. CASE j = len + 2 /\ up'[c][j] = Piece(m + 1, 2)
        <4>1. i \in 1 .. len \/ (i = len + 1 /\ up'[c][i] = Piece(m + 1, 1))
          BY <2>4, <2>6, <3>3
        <4> QED
          BY <2>5, <3>3, <4>1 DEF Before, Piece
      <3> QED
        BY <2>4, <3>1, <3>2, <3>3
    <2>7. ASSUME NEW i \in 1 .. len + 2 PROVE up'[c][i].num <= sent'[c]
      <3>1. sent'[c] = m + 1
        BY <2>2, <2>3
      <3>2. CASE i \in 1 .. len
        BY <2>5, <3>1, <3>2
      <3>3. CASE up'[c][i] = Piece(m + 1, 1) \/ up'[c][i] = Piece(m + 1, 2)
        BY <3>1, <3>3 DEF Piece
      <3> QED
        BY <2>4, <3>2, <3>3
    <2>8. Len(up'[c]) = len + 2
      BY <2>2, <2>3
    <2>9. WayOf(c)'
      BY <2>6, <2>7, <2>8 DEF WayOf
    <2>10. ASSUME NEW d \in Clients, d # c PROVE WayOf(d)'
      <3>1. WayOf(d) /\ up'[d] = up[d] /\ sent'[d] = sent[d]
        BY <2>2, <2>10 DEF WayInOrder
      <3> QED
        BY <3>1 DEF WayOf, Before
    <2> QED
      BY <2>9, <2>10 DEF WayInOrder
  <1>4. ASSUME NEW c \in Clients, Delivers(c) \/ Refuses(c) PROVE UNCHANGED <<up, sent>>
    BY <1>4 DEF Delivers, Refuses, LaysDown
  <1> QED
    BY <1>1, <1>2, <1>3, <1>4, Moves DEF Keeps, Ends, Alone

(* How the bus of a client grows. *)
LEMMA Grows ==
  ASSUME Types, NEW c \in Clients, Delivers(c)
  PROVE  /\ Len(onBus'[c]) = Len(onBus[c]) + 1
         /\ \A i \in 1 .. Len(onBus'[c]) :
              \/ i \in 1 .. Len(onBus[c]) /\ onBus'[c][i] = onBus[c][i]
              \/ i = Len(onBus[c]) + 1 /\ onBus'[c][i] = Held(c)
         /\ \A d \in Clients : d # c => onBus'[d] = onBus[d]
PROOF
  <1>1. Held(c) \in 1 .. MaxPackets
    BY HeldRange, CanPortAssumption DEF Delivers, LaysDown
  <1>2. PICK s \in Seq(1 .. MaxPackets), m \in 1 .. MaxPackets : s = onBus[c] /\ m = Held(c)
    BY <1>1, Numbers
  <1>3. /\ Len(Append(s, m)) = Len(s) + 1
        /\ \A i \in 1 .. Len(s) : Append(s, m)[i] = s[i]
        /\ Append(s, m)[Len(s) + 1] = m
    BY AppendProperties
  <1>4. onBus'[c] = Append(s, m) /\ \A d \in Clients : d # c => onBus'[d] = onBus[d]
    BY <1>2 DEF Delivers, Types, TypeBus
  <1>5. Len(s) \in Nat
    BY LenProperties
  <1>6. \A i \in 1 .. Len(s) + 1 : i \in 1 .. Len(s) \/ i = Len(s) + 1
    BY <1>5
  <1> QED
    BY <1>2, <1>3, <1>4, <1>6

LEMMA HandInOrderStep ==
  ASSUME Types, WayInOrder, HandInOrder, BusBehind, [Next]_vars
  PROVE  HandInOrder'
PROOF
  <1>1. CASE Keeps
    <2>1. ASSUME NEW d \in Clients PROVE HandOf(d)'
      <3>1. HandOf(d) /\ Held(d)' = Held(d) /\ UNCHANGED <<up, sent, onBus>>
        BY <1>1 DEF Keeps, Alone, HandInOrder
      <3> QED
        BY <3>1 DEF HandOf
    <2> QED
      BY <2>1 DEF HandInOrder
  <1>2. ASSUME \A d \in Clients : Held(d)' = 0 PROVE HandInOrder'
    BY <1>2 DEF HandInOrder, HandOf
  <1>3. ASSUME NEW c \in Clients, Takes(c) PROVE HandInOrder'
    <2>1. /\ Held(c)' = up[c][1].num /\ \A d \in Clients : d # c => Held(d)' = 0
          /\ sent' = sent /\ onBus' = onBus /\ 2 <= Len(up[c])
          /\ up[c][2].num = up[c][1].num /\ up[c][2].half = 2
      BY <1>3 DEF Takes
    <2>2. PICK n \in 1 .. 2 :
            /\ n = 2 /\ Len(up'[c]) = Len(up[c]) - n
            /\ \A i \in 1 .. Len(up'[c]) : n + i \in 1 .. Len(up[c]) /\ up'[c][i] = up[c][n + i]
      BY <1>3, Shifts
    <2>3. /\ Len(up[c]) \in Nat
          /\ \A i \in 1 .. Len(up[c]) : up[c][i].num \in Nat /\ up[c][i].half \in 1 .. 2
      BY Numbers
    <2>4. 1 \in 1 .. Len(up[c]) /\ 2 \in 1 .. Len(up[c])
      BY <2>1, <2>3
    <2>5. up[c][1].num <= sent[c]
      BY <2>4 DEF WayInOrder, WayOf
    <2>6. ASSUME NEW i \in 1 .. Len(up'[c]) PROVE up[c][1].num < up'[c][i].num
      <3>1. 2 + i \in 1 .. Len(up[c]) /\ 2 < 2 + i /\ up'[c][i] = up[c][2 + i]
        BY <2>2
      <3>2. Before(up[c][2], up[c][2 + i])
        BY <2>4, <3>1 DEF WayInOrder, WayOf
      <3>3. up[c][2 + i].num \in Nat /\ up[c][2 + i].half \in 1 .. 2
        BY <2>3, <3>1
      <3> QED
        BY <2>1, <3>1, <3>2, <3>3 DEF Before
    <2>7. \A i \in 1 .. Len(onBus[c]) : onBus[c][i] < up[c][1].num
      BY <2>4 DEF BusBehind, BusOf
    <2>8. HandOf(c)'
      BY <2>1, <2>5, <2>6, <2>7 DEF HandOf
    <2>9. ASSUME NEW d \in Clients, d # c PROVE HandOf(d)'
      BY <2>1, <2>9 DEF HandOf
    <2> QED
      BY <2>8, <2>9 DEF HandInOrder
  <1>4. ASSUME NEW c \in Clients, Tears(c) PROVE HandInOrder'
    <2>1. PICK n \in 1 .. 2 :
            /\ Len(up'[c]) = Len(up[c]) - n
            /\ \A i \in 1 .. Len(up'[c]) : n + i \in 1 .. Len(up[c]) /\ up'[c][i] = up[c][n + i]
            /\ \A d \in Clients : d # c => up'[d] = up[d]
      BY <1>4, Shifts
    <2>2. sent' = sent /\ onBus' = onBus /\ \A d \in Clients : Held(d)' = Held(d)
      BY <1>4 DEF Tears
    <2>3. ASSUME NEW d \in Clients PROVE HandOf(d)'
      <3>1. HandOf(d)
        BY DEF HandInOrder
      <3>2. CASE d = c
        BY <2>1, <2>2, <3>1, <3>2, ZenonT(90) DEF HandOf
      <3>3. CASE d # c
        <4>1. up'[d] = up[d] /\ Held(d)' = Held(d)
          BY <2>1, <2>2, <3>3
        <4> QED
          BY <2>2, <3>1, <4>1 DEF HandOf
      <3> QED
        BY <3>2, <3>3
    <2> QED
      BY <2>3 DEF HandInOrder
  <1>5. ASSUME NEW c \in Clients, Sends(c) PROVE HandInOrder'
    <2>1. onBus' = onBus /\ \A d \in Clients : Held(d)' = Held(d)
      BY <1>5 DEF Sends
    <2>2. /\ Len(up'[c]) = Len(up[c]) + 2 /\ sent'[c] = sent[c] + 1
          /\ \A i \in 1 .. Len(up[c]) : up'[c][i] = up[c][i]
          /\ \A i \in 1 .. 2 : up'[c][Len(up[c]) + i] = Piece(sent[c] + 1, i)
          /\ \A d \in Clients : d # c => up'[d] = up[d] /\ sent'[d] = sent[d]
      BY <1>5, Joins
    <2>3. Len(up[c]) \in Nat /\ sent[c] \in Nat
      BY Numbers
    <2>4. ASSUME NEW i \in 1 .. Len(up'[c])
          PROVE  \/ i \in 1 .. Len(up[c]) /\ up'[c][i] = up[c][i]
                 \/ up'[c][i].num = sent[c] + 1
      <3>1. i \in 1 .. Len(up[c]) \/ i = Len(up[c]) + 1 \/ i = Len(up[c]) + 2
        BY <2>2, <2>3, SMTT(60)
      <3> QED
        BY <2>2, <3>1 DEF Piece
    <2>5. HandOf(c)'
      <3>1. HandOf(c) /\ Held(c) \in Nat
        BY HeldRange, CanPortAssumption DEF HandInOrder
      <3>2. Held(c)' = Held(c) /\ onBus' = onBus
        BY <2>1
      <3>3. ASSUME Held(c) # 0, NEW i \in 1 .. Len(up'[c]) PROVE Held(c) < up'[c][i].num
        BY <2>3, <2>4, <3>1, <3>3, SMTT(60) DEF HandOf
      <3>4. ASSUME Held(c) # 0 PROVE Held(c) <= sent'[c]
        BY <2>2, <2>3, <3>1, <3>4 DEF HandOf
      <3> QED
        BY <3>1, <3>2, <3>3, <3>4 DEF HandOf
    <2>6. ASSUME NEW d \in Clients, d # c PROVE HandOf(d)'
      <3>1. HandOf(d) /\ up'[d] = up[d] /\ sent'[d] = sent[d] /\ Held(d)' = Held(d) /\ onBus' = onBus
        BY <2>1, <2>2, <2>6 DEF HandInOrder
      <3> QED
        BY <3>1 DEF HandOf
    <2> QED
      BY <2>5, <2>6 DEF HandInOrder
  <1> QED
    BY <1>1, <1>2, <1>3, <1>4, <1>5, Moves DEF Ends, Delivers, Refuses, LaysDown

LEMMA BusBehindStep ==
  ASSUME Types, HandInOrder, BusBehind, [Next]_vars
  PROVE  BusBehind'
PROOF
  <1>1. ASSUME UNCHANGED <<up, sent, onBus>> PROVE BusBehind'
    BY <1>1 DEF BusBehind, BusOf
  <1>2. ASSUME NEW c \in Clients, Delivers(c) PROVE BusBehind'
    <2>1. up' = up /\ sent' = sent /\ Held(c) # 0
      BY <1>2 DEF Delivers, LaysDown
    <2>2. /\ \A i \in 1 .. Len(onBus'[c]) :
               \/ i \in 1 .. Len(onBus[c]) /\ onBus'[c][i] = onBus[c][i]
               \/ onBus'[c][i] = Held(c)
          /\ \A d \in Clients : d # c => onBus'[d] = onBus[d]
      BY <1>2, Grows
    <2>3. BusOf(c)'
      BY <2>1, <2>2 DEF BusOf, BusBehind, HandInOrder, HandOf
    <2>4. ASSUME NEW d \in Clients, d # c PROVE BusOf(d)'
      <3>1. BusOf(d) /\ onBus'[d] = onBus[d]
        BY <2>2, <2>4 DEF BusBehind
      <3> QED
        BY <2>1, <3>1 DEF BusOf
    <2> QED
      BY <2>3, <2>4 DEF BusBehind
  <1>3. ASSUME NEW c \in Clients, Takes(c) \/ Tears(c) PROVE BusBehind'
    <2>1. PICK n \in 1 .. 2 :
            /\ Len(up'[c]) = Len(up[c]) - n
            /\ \A i \in 1 .. Len(up'[c]) : n + i \in 1 .. Len(up[c]) /\ up'[c][i] = up[c][n + i]
            /\ \A d \in Clients : d # c => up'[d] = up[d]
      BY <1>3, Shifts
    <2>2. sent' = sent /\ onBus' = onBus
      BY <1>3 DEF Takes, Tears
    <2>3. ASSUME NEW d \in Clients PROVE BusOf(d)'
      <3>1. BusOf(d)
        BY DEF BusBehind
      <3>2. CASE d = c
        BY <2>1, <2>2, <3>1, <3>2, ZenonT(90) DEF BusOf
      <3>3. CASE d # c
        <4>1. up'[d] = up[d]
          BY <2>1, <3>3
        <4> QED
          BY <2>2, <3>1, <4>1 DEF BusOf
      <3> QED
        BY <3>2, <3>3
    <2> QED
      BY <2>3 DEF BusBehind
  <1>4. ASSUME NEW c \in Clients, Sends(c) PROVE BusBehind'
    <2>1. onBus' = onBus
      BY <1>4 DEF Sends
    <2>2. /\ Len(up'[c]) = Len(up[c]) + 2 /\ sent'[c] = sent[c] + 1
          /\ \A i \in 1 .. Len(up[c]) : up'[c][i] = up[c][i]
          /\ \A i \in 1 .. 2 : up'[c][Len(up[c]) + i] = Piece(sent[c] + 1, i)
          /\ \A d \in Clients : d # c => up'[d] = up[d] /\ sent'[d] = sent[d]
      BY <1>4, Joins
    <2>3. /\ Len(up[c]) \in Nat /\ sent[c] \in Nat
          /\ \A i \in 1 .. Len(onBus[c]) : onBus[c][i] \in Nat
      BY Numbers
    <2>4. ASSUME NEW i \in 1 .. Len(up'[c])
          PROVE  \/ i \in 1 .. Len(up[c]) /\ up'[c][i] = up[c][i]
                 \/ up'[c][i].num = sent[c] + 1
      <3>1. i \in 1 .. Len(up[c]) \/ i = Len(up[c]) + 1 \/ i = Len(up[c]) + 2
        BY <2>2, <2>3, SMTT(60)
      <3> QED
        BY <2>2, <3>1, SMTT(60) DEF Piece
    <2>5. BusOf(c)'
      <3>1. BusOf(c)
        BY DEF BusBehind
      <3>2. ASSUME NEW i \in 1 .. Len(onBus[c]) PROVE onBus[c][i] <= sent'[c]
        BY <2>2, <2>3, <3>1, SMTT(60) DEF BusOf
      <3>3. ASSUME NEW i \in 1 .. Len(onBus[c]), NEW j \in 1 .. Len(up'[c])
            PROVE  onBus[c][i] < up'[c][j].num
        <4>1. onBus[c][i] <= sent[c] /\ onBus[c][i] \in Nat
          BY <2>3, <3>1 DEF BusOf
        <4>2. CASE j \in 1 .. Len(up[c]) /\ up'[c][j] = up[c][j]
          BY <3>1, <4>2 DEF BusOf
        <4>3. CASE up'[c][j].num = sent[c] + 1
          BY <2>3, <4>1, <4>3
        <4> QED
          BY <2>4, <4>2, <4>3
      <3> QED
        BY <2>1, <3>2, <3>3 DEF BusOf
    <2>6. ASSUME NEW d \in Clients, d # c PROVE BusOf(d)'
      <3>1. BusOf(d) /\ up'[d] = up[d] /\ sent'[d] = sent[d]
        BY <2>2, <2>6 DEF BusBehind
      <3> QED
        BY <2>1, <3>1 DEF BusOf
    <2> QED
      BY <2>5, <2>6 DEF BusBehind
  <1>5. ASSUME NEW c \in Clients, Refuses(c) PROVE UNCHANGED <<up, sent, onBus>>
    BY <1>5 DEF Refuses, LaysDown
  <1> QED
    BY <1>1, <1>2, <1>3, <1>4, <1>5, Moves DEF Keeps, Ends, Alone

LEMMA BusInOrderStep ==
  ASSUME Types, HandInOrder, BusInOrder, [Next]_vars
  PROVE  BusInOrder'
PROOF
  <1>1. ASSUME UNCHANGED onBus PROVE BusInOrder'
    BY <1>1 DEF BusInOrder
  <1>2. ASSUME NEW c \in Clients, Delivers(c) PROVE BusInOrder'
    <2>1. /\ Len(onBus'[c]) = Len(onBus[c]) + 1
          /\ \A i \in 1 .. Len(onBus'[c]) :
               \/ i \in 1 .. Len(onBus[c]) /\ onBus'[c][i] = onBus[c][i]
               \/ i = Len(onBus[c]) + 1 /\ onBus'[c][i] = Held(c)
          /\ \A d \in Clients : d # c => onBus'[d] = onBus[d]
      BY <1>2, Grows
    <2>2. Len(onBus[c]) \in Nat /\ onBus[c] \in Seq(1 .. MaxPackets)
      BY Numbers
    <2>3. onBus'[c] \in Seq(1 .. MaxPackets)
      <3>1. TypeBus'
        BY TypeBusStep
      <3> QED
        BY <3>1 DEF TypeBus
    <2>4. DOMAIN onBus[c] = 1 .. Len(onBus[c]) /\ DOMAIN onBus'[c] = 1 .. Len(onBus'[c])
      BY <2>2, <2>3, LenProperties
    <2>5. HandOf(c) /\ Held(c) # 0
      BY <1>2 DEF HandInOrder, Delivers, LaysDown
    <2>6. ASSUME NEW i \in DOMAIN onBus'[c], NEW j \in DOMAIN onBus'[c], i < j
          PROVE  onBus'[c][i] < onBus'[c][j]
      <3>1. CASE j \in 1 .. Len(onBus[c]) /\ onBus'[c][j] = onBus[c][j]
        <4>1. i \in 1 .. Len(onBus[c])
          BY <2>2, <2>4, <2>6, <3>1
        <4>2. onBus'[c][i] = onBus[c][i]
          BY <2>1, <2>2, <2>4, <4>1, SMTT(60)
        <4> QED
          BY <2>4, <2>6, <3>1, <4>1, <4>2 DEF BusInOrder
      <3>2. CASE j = Len(onBus[c]) + 1 /\ onBus'[c][j] = Held(c)
        <4>1. i \in 1 .. Len(onBus[c])
          BY <2>1, <2>2, <2>4, <2>6, <3>2
        <4>2. onBus'[c][i] = onBus[c][i]
          BY <2>1, <2>2, <2>4, <4>1
        <4> QED
          BY <2>5, <3>2, <4>1, <4>2 DEF HandOf
      <3> QED
        BY <2>1, <2>4, <3>1, <3>2
    <2>7. ASSUME NEW d \in Clients, d # c, NEW i \in DOMAIN onBus'[d], NEW j \in DOMAIN onBus'[d], i < j
          PROVE  onBus'[d][i] < onBus'[d][j]
      <3>1. onBus'[d] = onBus[d]
        BY <2>1, <2>7
      <3> QED
        BY <2>7, <3>1 DEF BusInOrder
    <2> QED
      BY <2>6, <2>7 DEF BusInOrder
  <1>3. ASSUME NEW c \in Clients, Refuses(c) \/ Takes(c) \/ Tears(c) \/ Sends(c) PROVE UNCHANGED onBus
    BY <1>3 DEF Refuses, Takes, Tears, Sends
  <1> QED
    BY <1>1, <1>2, <1>3, Moves DEF Keeps, Ends, Alone
-------------------------------------------------------------------------------
(***************************************************************************)
(* The balance of the packets, and the notice of a loss.                   *)
(***************************************************************************)
LEMMA TotalIsNat ==
  ASSUME NEW b \in Nat, NEW w \in Nat, NEW h \in 0 .. 1, NEW u \in Nat
  PROVE  /\ Total(b, w, h, u) \in Nat /\ Total(b, w, 0, u) \in Nat
         /\ Total(b, w, 0, u) <= Total(b, w, h, u)
PROOF
  BY DEF Total

LEMMA Totals ==
  ASSUME NEW b \in Nat, NEW w \in Nat, NEW u \in Nat
  PROVE  /\ Total(b + 1, w, 0, u) = Total(b, w, 1, u)
         /\ Total(b, w + 1, 0, u) = Total(b, w, 1, u)
         /\ Total(b, w, 1, u - 2) = Total(b, w, 0, u)
PROOF
  BY DEF Total

LEMMA TotalGrows ==
  ASSUME NEW b \in Nat, NEW w \in Nat, NEW h \in 0 .. 1, NEW u \in Nat
  PROVE  Total(b, w, h, u + 2) = Total(b, w, h, u) + 2
PROOF
  BY DEF Total

LEMMA TotalShrinks ==
  ASSUME NEW b \in Nat, NEW w \in Nat, NEW h \in 0 .. 1, NEW u \in Nat, NEW n \in 1 .. 2, n <= u
  PROVE  /\ Total(b, w, h, u) \in Nat /\ Total(b, w, h, u - n) \in Nat
         /\ Total(b, w, h, u - n) <= Total(b, w, h, u)
PROOF
  BY DEF Total

LEMMA TotalBounds ==
  ASSUME NEW b \in Nat, NEW w \in Nat, NEW h \in 0 .. 1, NEW u \in Nat, NEW m \in Nat,
         Total(b, w, h, u) <= 2 * m
  PROVE  w <= m
PROOF
  BY DEF Total

LEMMA CountRanges ==
  ASSUME Types, NEW c \in Clients
  PROVE  \E b \in Nat, w \in Nat, h \in 0 .. 1, u \in Nat, s \in 0 .. MaxPackets :
           /\ Len(onBus[c]) = b /\ wasted[c] = w /\ InHand(c) = h /\ Len(up[c]) = u /\ sent[c] = s
           /\ h = IF Held(c) = 0 THEN 0 ELSE 1
PROOF
  <1>1. Len(onBus[c]) \in Nat /\ Len(up[c]) \in Nat
    BY Numbers
  <1>2. wasted[c] \in Nat /\ sent[c] \in 0 .. MaxPackets
    BY DEF Types, TypeBus, TypeUp
  <1>3. InHand(c) = IF Held(c) = 0 THEN 0 ELSE 1
    BY HeldRange
  <1>4. InHand(c) \in 0 .. 1
    BY <1>3
  <1> QED
    BY <1>1, <1>2, <1>3, <1>4

LEMMA InHandNext ==
  ASSUME Types, [Next]_vars, NEW c \in Clients
  PROVE  InHand(c)' = IF Held(c)' = 0 THEN 0 ELSE 1
PROOF
  <1>1. TypeServer'
    BY TypeServerStep
  <1>2. Holding(c)' => server'.msg.num # 0
    BY <1>1 DEF TypeServer, Holding
  <1>3. Held(c)' = 0 <=> ~Holding(c)'
    BY <1>2 DEF Held
  <1> QED
    BY <1>3 DEF InHand, Holding

LEMMA AccountedStep ==
  ASSUME Types, Accounted, [Next]_vars
  PROVE  Accounted'
PROOF
  <1>1. ASSUME NEW c \in Clients, UNCHANGED <<onBus, wasted, sent>>, up'[c] = up[c], Held(c)' = Held(c),
               Alive, <<c, "up">> \in torn' <=> <<c, "up">> \in torn
        PROVE  AccountOf(c)'
    <2>1. InHand(c)' = InHand(c)
      BY <1>1, InHandNext, HeldRange
    <2>2. AccountOf(c)
      BY DEF Accounted
    <2> QED
      BY <1>1, <2>1, <2>2 DEF AccountOf, Counted, Alive
  <1>2. ASSUME Keeps PROVE Accounted'
    <2>1. ASSUME NEW c \in Clients PROVE AccountOf(c)'
      <3>1. /\ UNCHANGED <<onBus, wasted, sent>> /\ up'[c] = up[c] /\ Held(c)' = Held(c)
            /\ Alive /\ (<<c, "up">> \in torn' <=> <<c, "up">> \in torn)
        BY <1>2 DEF Keeps, Alone, SameTorn
      <3> QED
        BY <1>1, <3>1
    <2> QED
      BY <2>1 DEF Accounted
  <1>3. ASSUME Ends PROVE Accounted'
    <2>1. ASSUME NEW c \in Clients PROVE AccountOf(c)'
      <3>1. /\ UNCHANGED <<up, sent, onBus, wasted>> /\ server'.pc = "dead" /\ Held(c)' = 0
        BY <1>3 DEF Ends, Alone
      <3>2. InHand(c)' = 0
        BY <3>1, InHandNext
      <3>3. PICK b \in Nat, w \in Nat, h \in 0 .. 1, u \in Nat, s \in 0 .. MaxPackets :
              Len(onBus[c]) = b /\ wasted[c] = w /\ InHand(c) = h /\ Len(up[c]) = u /\ sent[c] = s
        BY CountRanges
      <3>4. /\ Total(b, w, h, u) <= 2 * s /\ Counted(c)' = Total(b, w, 0, u)
            /\ 2 * sent'[c] = 2 * s
        BY <3>1, <3>2, <3>3 DEF Accounted, AccountOf, Counted
      <3>5. Total(b, w, 0, u) <= 2 * s
        <4>1. /\ Total(b, w, h, u) \in Nat /\ Total(b, w, 0, u) \in Nat
              /\ Total(b, w, 0, u) <= Total(b, w, h, u)
          BY TotalIsNat
        <4> QED
          BY <3>4, <4>1, CanPortAssumption
      <3>6. Counted(c)' <= 2 * sent'[c]
        BY <3>4, <3>5
      <3> QED
        BY <3>1, <3>6 DEF AccountOf
    <2> QED
      BY <2>1 DEF Accounted
  <1>4. ASSUME NEW c \in Clients, LaysDown(c), Counted(c)' = Counted(c),
               \A d \in Clients : d # c => onBus'[d] = onBus[d] /\ wasted'[d] = wasted[d]
        PROVE  Accounted'
    <2>1. /\ \A d \in Clients : Held(d)' = 0 /\ (d # c => Held(d) = 0)
          /\ Alive /\ SameTorn /\ UNCHANGED <<up, sent>>
      BY <1>4 DEF LaysDown
    <2>2. ASSUME NEW d \in Clients PROVE AccountOf(d)'
      <3>1. CASE d = c
        BY <1>4, <2>1, <3>1 DEF Accounted, AccountOf, Alive, SameTorn
      <3>2. CASE d # c
        <4>1. InHand(d)' = InHand(d)
          BY <2>1, <3>2, InHandNext, HeldRange
        <4> QED
          BY <1>4, <2>1, <3>2, <4>1 DEF Accounted, AccountOf, Counted, Alive, SameTorn
      <3> QED
        BY <3>1, <3>2
    <2> QED
      BY <2>2 DEF Accounted
  <1>5. ASSUME NEW c \in Clients, Delivers(c) PROVE Accounted'
    <2>1. Len(onBus'[c]) = Len(onBus[c]) + 1 /\ \A d \in Clients : d # c => onBus'[d] = onBus[d]
      BY <1>5, Grows
    <2>2. LaysDown(c) /\ UNCHANGED <<up, wasted>> /\ InHand(c)' = 0 /\ Held(c) # 0
      BY <1>5, InHandNext DEF Delivers, LaysDown
    <2>3. PICK b \in Nat, w \in Nat, u \in Nat :
            Len(onBus[c]) = b /\ wasted[c] = w /\ InHand(c) = 1 /\ Len(up[c]) = u
      BY <2>2, CountRanges
    <2>4. Counted(c)' = Total(b + 1, w, 0, u) /\ Counted(c) = Total(b, w, 1, u)
      BY <2>1, <2>2, <2>3 DEF Counted
    <2>5. Counted(c)' = Counted(c)
      BY <2>4, Totals
    <2> QED
      BY <1>4, <2>1, <2>2, <2>5
  <1>6. ASSUME NEW c \in Clients, Refuses(c) PROVE Accounted'
    <2>1. wasted'[c] = wasted[c] + 1 /\ \A d \in Clients : d # c => wasted'[d] = wasted[d]
      BY <1>6 DEF Refuses, Types, TypeBus
    <2>2. LaysDown(c) /\ UNCHANGED <<up, onBus>> /\ InHand(c)' = 0 /\ Held(c) # 0
      BY <1>6, InHandNext DEF Refuses, LaysDown
    <2>3. PICK b \in Nat, w \in Nat, u \in Nat :
            Len(onBus[c]) = b /\ wasted[c] = w /\ InHand(c) = 1 /\ Len(up[c]) = u
      BY <2>2, CountRanges
    <2>4. Counted(c)' = Total(b, w + 1, 0, u) /\ Counted(c) = Total(b, w, 1, u)
      BY <2>1, <2>2, <2>3 DEF Counted
    <2>5. Counted(c)' = Counted(c)
      BY <2>4, Totals
    <2> QED
      BY <1>4, <2>1, <2>2, <2>5
  <1>7. ASSUME NEW c \in Clients, Takes(c) PROVE Accounted'
    <2>1. /\ UNCHANGED <<sent, onBus, wasted>> /\ Alive /\ SameTorn
          /\ \A d \in Clients : Held(d) = 0 /\ Held(d)' = IF d = c THEN up[c][1].num ELSE 0
          /\ 2 <= Len(up[c])
      BY <1>7 DEF Takes
    <2>2. Len(up'[c]) = Len(up[c]) - 2 /\ \A d \in Clients : d # c => up'[d] = up[d]
      BY <1>7, Shifts
    <2>3. up[c][1].num # 0
      <3>1. up[c] \in Seq(Pieces) /\ 1 \in 1 .. Len(up[c])
        BY <2>1, Numbers
      <3>2. up[c][1] \in Pieces
        BY <3>1, ElementOfSeq
      <3> QED
        BY <3>2 DEF Pieces
    <2>4. AccountOf(c)'
      <3>1. InHand(c)' = 1
        BY <2>1, <2>3, InHandNext
      <3>2. PICK b \in Nat, w \in Nat, u \in Nat :
              Len(onBus[c]) = b /\ wasted[c] = w /\ InHand(c) = 0 /\ Len(up[c]) = u
        BY <2>1, CountRanges
      <3>3. Counted(c)' = Total(b, w, 1, u - 2) /\ Counted(c) = Total(b, w, 0, u)
        BY <2>1, <2>2, <3>1, <3>2 DEF Counted
      <3>4. Counted(c)' = Counted(c)
        BY <3>3, Totals
      <3> QED
        BY <2>1, <3>4 DEF Accounted, AccountOf, Alive, SameTorn
    <2>5. ASSUME NEW d \in Clients, d # c PROVE AccountOf(d)'
      BY <1>1, <2>1, <2>2, <2>5 DEF SameTorn
    <2> QED
      BY <2>4, <2>5 DEF Accounted
  <1>8. ASSUME NEW c \in Clients, Tears(c) PROVE Accounted'
    <2>1. /\ UNCHANGED <<sent, onBus, wasted>> /\ Alive /\ \A d \in Clients : Held(d)' = Held(d)
          /\ <<c, "up">> \in torn'
          /\ \A d \in Clients : d # c => (<<d, "up">> \in torn' <=> <<d, "up">> \in torn)
      BY <1>8 DEF Tears
    <2>2. PICK n \in 1 .. 2 : /\ n <= Len(up[c]) /\ Len(up'[c]) = Len(up[c]) - n
                              /\ \A d \in Clients : d # c => up'[d] = up[d]
      BY <1>8, Shifts
    <2>3. AccountOf(c)'
      <3>1. InHand(c)' = InHand(c)
        BY <2>1, InHandNext, HeldRange
      <3>2. PICK b \in Nat, w \in Nat, h \in 0 .. 1, u \in Nat, s \in 0 .. MaxPackets :
              Len(onBus[c]) = b /\ wasted[c] = w /\ InHand(c) = h /\ Len(up[c]) = u /\ sent[c] = s
        BY CountRanges
      <3>3. /\ Total(b, w, h, u) <= 2 * s /\ Counted(c)' = Total(b, w, h, u - n)
            /\ 2 * sent'[c] = 2 * s /\ n <= u
        BY <2>1, <2>2, <3>1, <3>2 DEF Accounted, AccountOf, Counted
      <3>4. Total(b, w, h, u - n) <= 2 * s
        <4>1. /\ Total(b, w, h, u) \in Nat /\ Total(b, w, h, u - n) \in Nat
              /\ Total(b, w, h, u - n) <= Total(b, w, h, u)
          BY <3>3, TotalShrinks
        <4> QED
          BY <3>3, <4>1, CanPortAssumption
      <3>5. Counted(c)' <= 2 * sent'[c]
        BY <3>3, <3>4
      <3> QED
        BY <2>1, <3>5 DEF AccountOf
    <2>4. ASSUME NEW d \in Clients, d # c PROVE AccountOf(d)'
      BY <1>1, <2>1, <2>2, <2>4
    <2> QED
      BY <2>3, <2>4 DEF Accounted
  <1>9. ASSUME NEW c \in Clients, Sends(c) PROVE Accounted'
    <2>1. UNCHANGED <<onBus, wasted>> /\ Alive /\ SameTorn /\ \A d \in Clients : Held(d)' = Held(d)
      BY <1>9 DEF Sends
    <2>2. /\ Len(up'[c]) = Len(up[c]) + 2 /\ sent'[c] = sent[c] + 1
          /\ \A d \in Clients : d # c => up'[d] = up[d] /\ sent'[d] = sent[d]
      BY <1>9, Joins
    <2>3. AccountOf(c)'
      <3>1. InHand(c)' = InHand(c)
        BY <2>1, InHandNext, HeldRange
      <3>2. PICK b \in Nat, w \in Nat, h \in 0 .. 1, u \in Nat, s \in 0 .. MaxPackets :
              Len(onBus[c]) = b /\ wasted[c] = w /\ InHand(c) = h /\ Len(up[c]) = u /\ sent[c] = s
        BY CountRanges
      <3>3. PICK t \in Nat : t = Total(b, w, h, u) /\ Total(b, w, h, u + 2) = t + 2
        <4>1. Total(b, w, h, u) \in Nat /\ Total(b, w, h, u + 2) = Total(b, w, h, u) + 2
          BY TotalIsNat, TotalGrows, ZenonT(90)
        <4> QED
          BY <4>1
      <3>4. Counted(c) = t /\ Counted(c)' = t + 2 /\ sent'[c] = s + 1
        BY <2>1, <2>2, <3>1, <3>2, <3>3 DEF Counted
      <3>5. t <= 2 * s => t + 2 <= 2 * (s + 1)
        OBVIOUS
      <3>6. t = 2 * s => t + 2 = 2 * (s + 1)
        OBVIOUS
      <3>7. AccountOf(c) /\ (<<c, "up">> \in torn' <=> <<c, "up">> \in torn)
        BY <2>1 DEF Accounted, SameTorn
      <3> QED
        BY <2>1, <3>2, <3>4, <3>5, <3>6, <3>7 DEF AccountOf, Alive
    <2>4. ASSUME NEW d \in Clients, d # c PROVE AccountOf(d)'
      <3>1. InHand(d)' = InHand(d)
        BY <2>1, InHandNext, HeldRange
      <3>2. up'[d] = up[d] /\ sent'[d] = sent[d] /\ AccountOf(d) /\ UNCHANGED <<onBus, wasted>>
        BY <2>1, <2>2, <2>4 DEF Accounted
      <3>3. <<d, "up">> \in torn' <=> <<d, "up">> \in torn
        BY <2>1 DEF SameTorn
      <3> QED
        BY <2>1, <3>1, <3>2, <3>3 DEF AccountOf, Counted, Alive
    <2> QED
      BY <2>3, <2>4 DEF Accounted
  <1>10. ASSUME NEW c \in Clients, Delivers(c) \/ Refuses(c) \/ Takes(c) \/ Tears(c) \/ Sends(c)
         PROVE  Accounted'
    BY <1>5, <1>6, <1>7, <1>8, <1>9, <1>10
  <1> QED
    BY <1>2, <1>3, <1>10, Moves

(* Who stores while nobody else does keeps the bit: it loads it with the   *)
(* rest of the byte.                                                       *)
LEMMA LossCarriedStep ==
  ASSUME Types, LossCarried, [Next]_vars
  PROVE  LossCarried'
PROOF
  <1> USE DEF LossCarried, Storing, Main, Server, cpu
  <1>0. TypeMain /\ TypeServer
    BY DEF Types
  <1>1. CASE Test \/ ReadFails \/ Leave
    BY <1>0, <1>1 DEF Test, ReadFails, Leave, TypeMain
  <1>2. CASE Read
    <2>1. PICK lost \in BOOLEAN :
            /\ main.pc = "read" /\ main'.pc = "store" /\ main'.byte = (reg \/ lost)
            /\ owed' = Owed(server, lost) /\ UNCHANGED <<server, reg>>
      BY <1>0, <1>2 DEF Read, TypeMain
    <2> QED
      BY <1>0, <2>1 DEF Owed, TypeMain
  <1>3. CASE Store
    <2>1. main.pc = "store" /\ main'.pc = "status" /\ reg' = main.byte /\ UNCHANGED <<server, owed>>
      BY <1>0, <1>3 DEF Store, TypeMain
    <2> QED
      BY <2>1
  <1>4. CASE Status
    <2>1. PICK lost \in BOOLEAN :
            /\ main.pc = "status" /\ main'.pc = "refresh" /\ main'.byte = (reg \/ lost)
            /\ owed' = Owed(server, lost) /\ UNCHANGED <<server, reg>>
      BY <1>0, <1>4 DEF Status, TypeMain
    <2> QED
      BY <1>0, <2>1 DEF Owed, TypeMain
  <1>5. CASE Refresh
    <2>1. main.pc = "refresh" /\ main'.pc = "send" /\ reg' = main.byte /\ UNCHANGED <<server, owed>>
      BY <1>0, <1>5 DEF Refresh, TypeMain
    <2> QED
      BY <2>1
  <1>6. CASE Sent
    <2>1. main.pc \in {"send", "abort"} /\ main'.pc \in {"test", "stop"} /\ UNCHANGED <<server, reg, owed>>
      BY <1>6 DEF Sent, Ready
    <2> QED
      BY <2>1
  <1>7. ASSUME NEW c \in Clients, SendTo(c) PROVE LossCarried'
    <2>1. main'.pc = main.pc /\ main'.byte = main.byte /\ UNCHANGED <<server, reg, owed>>
      BY <1>0, <1>7 DEF SendTo, TypeMain
    <2> QED
      BY <2>1
  <1>8. CASE Signal
    <2>1. /\ main' = main \/ (main.pc = "read" /\ main'.pc = "test")
          /\ UNCHANGED <<server, reg, owed>>
      BY <1>0, <1>8 DEF Signal, TypeMain
    <2> QED
      BY <2>1
  <1>9. CASE Stop
    <2>1. /\ main.pc = "stop" /\ main'.pc = "end" /\ server'.pc = "dead" /\ UNCHANGED <<reg, owed>>
      BY <1>0, <1>9 DEF Stop, TypeMain, Dead, Waiting
    <2> QED
      BY <2>1
  <1>10. CASE Write
    <2>1. /\ server.pc = "write" /\ UNCHANGED <<main, reg>>
          /\ \/ server'.pc = "store" /\ server'.byte = reg /\ owed' = Owed(main, FALSE)
             \/ server'.pc = "recv" /\ owed' = owed
      <3>1. ASSUME NEW ok \in BOOLEAN, server' = [server EXCEPT !.pc = "store", !.ok = ok, !.byte = reg]
            PROVE  server'.pc = "store" /\ server'.byte = reg
        BY <1>0, <3>1 DEF TypeServer
      <3>2. server' = Waiting => server'.pc = "recv"
        BY DEF Waiting
      <3> QED
        BY <1>10, <3>1, <3>2 DEF Write
    <2> QED
      BY <1>0, <2>1, SMTT(60) DEF Owed, TypeMain
  <1>11. ASSUME NEW late \in BOOLEAN, Written(late) PROVE LossCarried'
    <2>1. /\ server.pc = "store" /\ server'.pc \in {"write", "recv"} /\ reg' = server.byte
          /\ UNCHANGED <<main, owed>>
      BY <1>0, <1>11 DEF Written, TypeServer, Waiting
    <2> QED
      BY <2>1
  <1>12. ASSUME NEW c \in Clients, Recv(c) PROVE LossCarried'
    <2>1. /\ server.pc = "recv" /\ server'.pc \in {"recv", "write"} /\ UNCHANGED <<main, reg, owed>>
      BY <1>0, <1>12 DEF Recv, TypeServer
    <2> QED
      BY <2>1
  <1>13. ASSUME NEW c \in Clients, ClientSend(c) \/ ClientReceive(c) PROVE LossCarried'
    <2>1. UNCHANGED <<main, server, reg, owed>>
      BY <1>13 DEF ClientSend, ClientReceive, result
    <2> QED
      BY <2>1
  <1>14. CASE Break \/ UNCHANGED vars
    <2>1. UNCHANGED <<main, server, reg, owed>>
      BY <1>14 DEF Break, vars
    <2> QED
      BY <2>1
  <1> HIDE DEF LossCarried, Storing, Main, Server, cpu
  <1>15. CASE Aside
    BY <1>1, <1>2, <1>3, <1>4, <1>5, <1>6, <1>7, <1>8, <1>13, <1>14, <1>15 DEF Aside
  <1> QED
    BY <1>9, <1>10, <1>11, <1>12, <1>13, <1>15, StepKinds
-------------------------------------------------------------------------------
LEMMA InvInit == Init => Inv
PROOF
  <1> SUFFICES ASSUME Init PROVE Inv
    OBVIOUS
  <1>1. Types
    BY TypesInit
  <1>2. \A c \in Clients : up[c] = <<>> /\ onBus[c] = <<>> /\ sent[c] = 0 /\ wasted[c] = 0
    BY DEF Init
  <1>3. server.pc = "recv" /\ main.pc = "test" /\ owed = "none"
    BY DEF Init, Waiting, Ready
  <1>4. \A c \in Clients : Len(up[c]) = 0 /\ Len(onBus[c]) = 0
    <2>1. Len(<<>>) = 0
      BY EmptySeq
    <2>2. ASSUME NEW c \in Clients PROVE Len(up[c]) = 0 /\ Len(onBus[c]) = 0
      <3>1. up[c] = <<>> /\ onBus[c] = <<>>
        BY <1>2
      <3> QED
        BY <2>1, <3>1, Zenon
    <2> QED
      BY <2>2
  <1>5. \A c \in Clients : Held(c) = 0 /\ InHand(c) = 0
    BY <1>3 DEF Held, Holding, InHand
  <1>6. WayInOrder /\ HandInOrder /\ BusBehind
    BY <1>4, <1>5 DEF WayInOrder, WayOf, HandInOrder, HandOf, BusBehind, BusOf
  <1>7. BusInOrder
    <2>1. ASSUME NEW c \in Clients PROVE DOMAIN onBus[c] = 1 .. 0
      <3>1. onBus[c] \in Seq(1 .. MaxPackets) /\ Len(onBus[c]) = 0
        BY <1>1, <1>4, Numbers
      <3> QED
        BY <3>1, LenProperties
    <2> QED
      BY <2>1 DEF BusInOrder
  <1>8. Accounted
    <2>1. Total(0, 0, 0, 0) = 0
      BY DEF Total
    <2>2. ASSUME NEW c \in Clients PROVE Counted(c) = 0 /\ 2 * sent[c] = 0
      BY <1>2, <1>4, <1>5, <2>1 DEF Counted
    <2>3. 0 <= 0
      OBVIOUS
    <2> QED
      BY <2>2, <2>3 DEF Accounted, AccountOf
  <1>9. LossCarried
    BY <1>3 DEF LossCarried
  <1> QED
    BY <1>1, <1>6, <1>7, <1>8, <1>9 DEF Inv

LEMMA InvNext ==
  ASSUME Inv, [Next]_vars
  PROVE  Inv'
PROOF
  <1>1. /\ Types /\ WayInOrder /\ HandInOrder /\ BusBehind /\ BusInOrder
        /\ Accounted /\ LossCarried
    BY DEF Inv
  <1>2. Types' /\ WayInOrder' /\ HandInOrder' /\ BusBehind' /\ BusInOrder'
    BY <1>1, TypesStep, WayInOrderStep, HandInOrderStep, BusBehindStep, BusInOrderStep
  <1>3. Accounted' /\ LossCarried'
    BY <1>1, AccountedStep, LossCarriedStep
  <1> QED
    BY <1>2, <1>3 DEF Inv

LEMMA InvHolds == Spec => []Inv
PROOF
  BY InvInit, InvNext, PTL DEF Spec

(* What is refused is among what was sent. *)
LEMMA InvType == Inv => TypeOK
PROOF
  <1> SUFFICES ASSUME Inv PROVE TypeOK
    OBVIOUS
  <1>1. TypeMain /\ TypeServer /\ TypeUp /\ TypeDown /\ TypeBus /\ Windows /\ Types
    BY DEF Inv, Types
  <1>2. ASSUME NEW c \in Clients PROVE wasted[c] \in 0 .. MaxPackets
    <2>1. PICK b \in Nat, w \in Nat, h \in 0 .. 1, u \in Nat, s \in 0 .. MaxPackets :
            Len(onBus[c]) = b /\ wasted[c] = w /\ InHand(c) = h /\ Len(up[c]) = u /\ sent[c] = s
      BY <1>1, CountRanges
    <2>2. Total(b, w, h, u) <= 2 * s
      BY <2>1 DEF Inv, Accounted, AccountOf, Counted
    <2>3. s \in Nat
      OBVIOUS
    <2>4. w <= s
      BY <2>2, <2>3, TotalBounds
    <2> QED
      BY <2>1, <2>4, CanPortAssumption
  <1>3. wasted \in [Clients -> 0 .. MaxPackets]
    BY <1>1, <1>2 DEF TypeBus
  <1> QED
    BY <1>1, <1>3 DEF TypeMain, TypeServer, TypeUp, TypeDown, TypeBus, Windows, TypeOK, Pieces

(* No packet of a client is lost or made up between its stream and the     *)
(* bus, and the bus gets them in order (PacketsKept), whatever was refused *)
(* or torn, and whatever the two threads do.                               *)
THEOREM PacketsAreKept == Spec => []PacketsKept
PROOF
  <1>1. Inv => PacketsKept
    <2>1. Inv => PacketsAccounted
      BY DEF Inv, Accounted, AccountOf, Counted, Total, PacketsAccounted
    <2>2. Inv => BusInOrder
      BY DEF Inv
    <2> QED
      BY <2>1, <2>2, InvType DEF PacketsKept
  <1> QED
    BY <1>1, InvHolds, PTL

(* A loss that the driver told the main thread stays in the status for the *)
(* clients until both threads are inside the register at once (LossKept).  *)
THEOREM LossesKept == Spec => []LossKept
PROOF
  <1>1. Inv => LossKept
    BY DEF Inv, LossCarried, LossKept
  <1> QED
    BY <1>1, InvHolds, PTL
-------------------------------------------------------------------------------
(***************************************************************************)
(* The frames for the clients.                                             *)
(***************************************************************************)
DownPieces == [num : 0 .. Abort, half : 1 .. 2]

(* The k-th packet of a stream is packet n. *)
Pair(s, k, n) == s[2 * k - 1] = Piece(n, 1) /\ s[2 * k] = Piece(n, 2)

(* A stream that holds the frames after t up to n, and then at most an     *)
(* abort packet, if the main thread has sent one.                          *)
Lined(s, t, n, ended) ==
  /\ t <= n
  /\ \A k \in 1 .. n - t : Pair(s, k, t + k)
  /\ \/ Len(s) = 2 * (n - t)
     \/ ended /\ Len(s) = 2 * (n - t) + 2 /\ Pair(s, n - t + 1, Abort)

(* The main thread has sent the client its abort packet, or sends none. *)
Told(c) == main.pc \in {"stop", "end"} \/ (main.pc = "abort" /\ c \notin main.to)

StreamOf(c) == <<c, "down">> \notin torn => Lined(down[c], taken[c], Sendable(c), Told(c))

(* What the main thread sends is the frame it has read last.  Without it   *)
(* nothing says that the next packet of a stream has the next number.      *)
MainSends ==
  /\ main.pc \in {"store", "status", "refresh", "send"} => main.num = rx
  /\ main.pc = "abort" => main.num = Abort

StreamsInOrder == ~broken => MainSends /\ \A c \in Clients : StreamOf(c)

LEMMA LinedGrows ==
  ASSUME NEW s \in Seq(DownPieces), NEW t \in Nat, NEW n \in Int, NEW m \in 0 .. Abort,
         Lined(s, t, n, FALSE)
  PROVE  /\ m = n + 1 => Lined(s \o Packet(m), t, n + 1, FALSE)
         /\ m = Abort => Lined(s \o Packet(m), t, n, TRUE)
PROOF
  <1>1. Piece(m, 1) \in DownPieces /\ Piece(m, 2) \in DownPieces
    BY DEF Piece, DownPieces
  <1> DEFINE r == s \o Packet(m)
  <1>2. /\ Len(r) = Len(s) + 2
        /\ \A i \in 1 .. Len(s) : r[i] = s[i]
        /\ r[Len(s) + 1] = Piece(m, 1) /\ r[Len(s) + 2] = Piece(m, 2)
    BY <1>1, Sending
  <1> HIDE DEF r
  <1>3. PICK left \in Nat : left = n - t /\ Len(s) = 2 * left
    BY DEF Lined
  <1>4. ASSUME NEW k \in 1 .. left PROVE Pair(r, k, t + k)
    <2>1. 2 * k - 1 \in 1 .. Len(s) /\ 2 * k \in 1 .. Len(s)
      BY <1>3
    <2>2. s[2 * k - 1] = Piece(t + k, 1) /\ s[2 * k] = Piece(t + k, 2)
      BY <1>3 DEF Lined, Pair
    <2> QED
      BY <1>2, <2>1, <2>2 DEF Pair
  <1>5. Pair(r, left + 1, m)
    <2>1. 2 * (left + 1) - 1 = Len(s) + 1 /\ 2 * (left + 1) = Len(s) + 2
      BY <1>3
    <2> QED
      BY <1>2, <2>1 DEF Pair
  <1>6. ASSUME m = n + 1 PROVE Lined(r, t, n + 1, FALSE)
    <2>1. t <= n + 1 /\ n + 1 - t = left + 1 /\ Len(r) = 2 * (n + 1 - t)
      BY <1>2, <1>3 DEF Lined
    <2>2. ASSUME NEW k \in 1 .. left + 1 PROVE Pair(r, k, t + k)
      <3>1. CASE k = left + 1
        <4>1. t + k = m
          BY <1>3, <1>6, <3>1
        <4> QED
          BY <1>5, <3>1, <4>1
      <3>2. CASE k \in 1 .. left
        BY <1>4, <3>2
      <3> QED
        BY <3>1, <3>2
    <2> QED
      BY <2>1, <2>2 DEF Lined
  <1>7. ASSUME m = Abort PROVE Lined(r, t, n, TRUE)
    <2>1. t <= n /\ Len(r) = 2 * (n - t) + 2 /\ n - t + 1 = left + 1 /\ n - t = left
      BY <1>2, <1>3 DEF Lined
    <2> QED
      BY <1>4, <1>5, <1>7, <2>1 DEF Lined
  <1> QED
    BY <1>6, <1>7 DEF r

(* A client takes the next frame, or the abort packet behind the last one. *)
LEMMA LinedTaken ==
  ASSUME NEW s \in Seq(DownPieces), NEW t \in 0 .. MaxFrames, NEW n \in Int, n <= MaxFrames,
         NEW ended \in BOOLEAN, Lined(s, t, n, ended), 2 <= Len(s)
  PROVE  Lined(SubSeq(s, 3, Len(s)), IF s[1].num \in Frames THEN s[1].num ELSE t, n, ended)
PROOF
  <1> DEFINE r == SubSeq(s, 3, Len(s))
  <1>1. Len(s) \in Nat
    BY LenProperties
  <1>2. Len(r) = Len(s) - 2 /\ \A i \in 1 .. Len(s) - 2 : r[i] = s[2 + i]
    <2>1. 2 \in 1 .. 2 /\ 2 + 1 = 3
      OBVIOUS
    <2> QED
      BY <2>1, Receiving
  <1> HIDE DEF r
  <1>3. PICK left \in Nat : left = n - t
    BY DEF Lined
  <1>4. \A k \in Nat : 2 * k + 2 <= Len(s) /\ k >= 1 =>
          r[2 * k - 1] = s[2 * (k + 1) - 1] /\ r[2 * k] = s[2 * (k + 1)]
    <2>1. ASSUME NEW k \in Nat, 2 * k + 2 <= Len(s), k >= 1
          PROVE  r[2 * k - 1] = s[2 * (k + 1) - 1] /\ r[2 * k] = s[2 * (k + 1)]
      <3>1. 2 * k - 1 \in 1 .. Len(s) - 2 /\ 2 * k \in 1 .. Len(s) - 2
        BY <1>1, <2>1
      <3>2. 2 + (2 * k - 1) = 2 * (k + 1) - 1 /\ 2 + 2 * k = 2 * (k + 1)
        OBVIOUS
      <3>3. r[2 * k - 1] = s[2 + (2 * k - 1)] /\ r[2 * k] = s[2 + 2 * k]
        BY <1>2, <3>1
      <3> QED
        BY <3>2, <3>3
    <2> QED
      BY <2>1
  <1>5. ASSUME left = 0 PROVE Lined(r, IF s[1].num \in Frames THEN s[1].num ELSE t, n, ended)
    <2>1. ended /\ Len(s) = 2 /\ Pair(s, 1, Abort)
      BY <1>3, <1>5 DEF Lined
    <2>2. s[1].num = Abort /\ Abort \notin Frames
      BY <2>1, CanPortAssumption DEF Pair, Piece, Abort, Frames
    <2>3. Len(r) = 2 * (n - t) /\ t <= n /\ 1 .. n - t = {}
      BY <1>2, <1>3, <1>5, <2>1
    <2> QED
      BY <2>2, <2>3 DEF Lined
  <1>6. ASSUME left # 0 PROVE Lined(r, IF s[1].num \in Frames THEN s[1].num ELSE t, n, ended)
    <2>1. Pair(s, 1, t + 1)
      BY <1>3, <1>6 DEF Lined
    <2>2. s[1].num = t + 1 /\ t + 1 \in Frames
      BY <1>3, <1>6, <2>1, CanPortAssumption DEF Pair, Piece, Frames
    <2>3. t + 1 <= n /\ n - (t + 1) = left - 1
      BY <1>3, <1>6
    <2>4. ASSUME NEW k \in 1 .. left - 1 PROVE Pair(r, k, t + 1 + k)
      <3>1. 2 * k + 2 <= Len(s) /\ k \in Nat /\ k >= 1
        BY <1>1, <1>3 DEF Lined
      <3>2. k + 1 \in 1 .. n - t /\ t + (k + 1) = t + 1 + k
        BY <1>3
      <3>3. Pair(s, k + 1, t + (k + 1))
        BY <3>2 DEF Lined
      <3> QED
        BY <1>4, <3>1, <3>2, <3>3 DEF Pair
    <2>5. \/ Len(r) = 2 * (left - 1)
          \/ ended /\ Len(r) = 2 * (left - 1) + 2 /\ Pair(r, left, Abort)
      <3>1. CASE Len(s) = 2 * left
        BY <1>2, <1>6, <3>1
      <3>2. CASE ended /\ Len(s) = 2 * left + 2 /\ Pair(s, left + 1, Abort)
        <4>1. 2 * left + 2 <= Len(s) /\ left >= 1
          BY <1>1, <1>6, <3>2
        <4>2. Pair(r, left, Abort)
          BY <1>4, <3>2, <4>1 DEF Pair
        <4> QED
          BY <1>2, <3>2, <4>2
      <3> QED
        BY <1>3, <3>1, <3>2 DEF Lined
    <2>6. /\ \A k \in 1 .. n - (t + 1) : Pair(r, k, t + 1 + k)
          /\ \/ Len(r) = 2 * (n - (t + 1))
             \/ ended /\ Len(r) = 2 * (n - (t + 1)) + 2 /\ Pair(r, n - (t + 1) + 1, Abort)
      <3>1. left - 1 + 1 = left
        OBVIOUS
      <3> QED
        BY <2>3, <2>4, <2>5, <3>1
    <2> QED
      BY <2>2, <2>3, <2>6 DEF Lined
  <1> QED
    BY <1>5, <1>6 DEF r

(* No step mends a stream or the device. *)
LEMMA NothingMends ==
  ASSUME [Next]_vars
  PROVE  /\ broken => broken'
         /\ \A c \in Clients : <<c, "down">> \in torn => <<c, "down">> \in torn'
PROOF
  <1> USE DEF cpu, net, clientVars, result
  <1> DEFINE Kept == (broken => broken') /\ torn \subseteq torn'
  <1>1. ASSUME Test \/ Read \/ ReadFails \/ Store \/ Status \/ Refresh \/ Sent \/ Leave PROVE Kept
    <2>1. UNCHANGED <<broken, torn>>
      BY <1>1 DEF Test, Read, ReadFails, Store, Status, Refresh, Sent, Leave
    <2> QED
      BY <2>1
  <1>2. ASSUME Signal \/ Break \/ Stop \/ Write PROVE Kept
    <2>1. torn' = torn /\ (broken' = broken \/ broken' = TRUE)
      BY <1>2 DEF Signal, Break, Stop, Write
    <2> QED
      BY <2>1, SMTT(60)
  <1>3. ASSUME NEW late \in BOOLEAN, Written(late) PROVE Kept
    BY <1>3 DEF Written
  <1>4. ASSUME NEW c \in Clients, Recv(c) \/ ClientSend(c) PROVE Kept
    <2>1. broken' = broken /\ (torn' = torn \/ torn' = torn \cup {<<c, "up">>})
      BY <1>4 DEF Recv, ClientSend
    <2> QED
      BY <2>1
  <1>5. ASSUME NEW c \in Clients, SendTo(c) \/ ClientReceive(c) PROVE Kept
    <2>1. broken' = broken /\ (torn' = torn \/ torn' = torn \cup {<<c, "down">>})
      BY <1>5 DEF SendTo, ClientReceive
    <2> QED
      BY <2>1
  <1>6. ASSUME UNCHANGED vars PROVE Kept
    BY <1>6 DEF vars
  <1>7. Kept
    BY <1>1, <1>2, <1>3, <1>4, <1>5, <1>6, StepKinds DEF Aside
  <1> QED
    BY <1>7

(* What the main thread does but for sending, seen by the stream to a      *)
(* client: no frame more has to be in it, and an abort packet may be.      *)
LEMMA MainSteps ==
  ASSUME Types, MainSends, [Next]_vars, ~broken
  PROVE  /\ MainSends'
         /\ \A c \in Clients : ~SendTo(c) =>
              Sendable(c)' = Sendable(c) /\ (Told(c) => Told(c)')
PROOF
  <1> USE DEF MainSends, Sendable, Told, Main, cpu
  <1> DEFINE Goal == /\ MainSends'
                     /\ \A c \in Clients : ~SendTo(c) =>
                          Sendable(c)' = Sendable(c) /\ (Told(c) => Told(c)')
  <1>0. TypeMain
    BY DEF Types
  <1>1. CASE Test \/ ReadFails \/ Store \/ Status \/ Refresh
    BY <1>0, <1>1 DEF Test, ReadFails, Store, Status, Refresh, TypeMain
  <1>2. CASE Read
    <2>1. /\ main.pc = "read" /\ main'.pc = "store" /\ rx' = rx + 1 /\ main'.num = rx + 1
          /\ rx \in Nat
      BY <1>0, <1>2, CanPortAssumption DEF Read, TypeMain
    <2> QED
      BY <2>1
  <1>3. CASE Sent
    <2>1. /\ main.pc \in {"send", "abort"} /\ main.to = {} /\ rx' = rx
          /\ main'.pc = IF main.pc = "send" THEN "test" ELSE "stop"
      BY <1>3 DEF Sent, Ready
    <2> QED
      BY <2>1
  <1>4. CASE Leave
    BY <1>0, <1>4 DEF Leave, TypeMain
  <1>5. CASE Signal \/ Break \/ Stop
    BY <1>0, <1>5 DEF Signal, Break, Stop, TypeMain
  <1>6. ASSUME NEW c \in Clients, SendTo(c) PROVE Goal
    <2>1. /\ main'.pc = main.pc /\ main'.num = main.num /\ main'.to = main.to \ {c} /\ rx' = rx
          /\ main.pc \in {"send", "abort"}
      BY <1>0, <1>6 DEF SendTo, TypeMain
    <2>2. ASSUME NEW d \in Clients, d # c
          PROVE  Sendable(d)' = Sendable(d) /\ (Told(d) => Told(d)')
      BY <2>1, <2>2
    <2> QED
      BY <1>6, <2>1, <2>2
  <1>7. ASSUME NEW c \in Clients, ClientReceive(c) \/ Recv(c) \/ ClientSend(c) PROVE Goal
    <2>1. UNCHANGED <<main, rx>>
      BY <1>7 DEF ClientReceive, Recv, ClientSend
    <2> QED
      BY <2>1
  <1>8. ASSUME NEW late \in BOOLEAN, Written(late) PROVE Goal
    <2>1. UNCHANGED <<main, rx>>
      BY <1>8 DEF Written
    <2> QED
      BY <2>1
  <1>9. CASE Write \/ UNCHANGED vars
    <2>1. UNCHANGED <<main, rx>>
      BY <1>9 DEF Write, vars
    <2> QED
      BY <2>1, SMTT(60)
  <1> HIDE DEF MainSends, Sendable, Told, Main, cpu
  <1> QED
    BY <1>1, <1>2, <1>3, <1>4, <1>5, <1>6, <1>7, <1>8, <1>9, StepKinds DEF Aside

(* A chunk that a client accepts is the two halves of one packet. *)
LEMMA AcceptedIsPacket ==
  ASSUME NEW s \in Seq(DownPieces), NEW n \in 1 .. 2, n <= Len(s), Accepted(SubSeq(s, 1, n))
  PROVE  n = 2 /\ SubSeq(s, 1, n)[n].num = s[1].num
PROOF
  <1> DEFINE chunk == SubSeq(s, 1, n)
  <1>1. Len(chunk) = n /\ \A i \in 1 .. n : chunk[i] = s[i]
    BY Receiving
  <1>2. Len(chunk) = 2 /\ chunk = Packet(chunk[1].num)
    BY DEF Accepted, Whole
  <1>3. Packet(chunk[1].num)[2] = [num |-> chunk[1].num, half |-> 2]
    BY DEF Packet, Piece
  <1>4. n = 2 /\ chunk[2] = [num |-> chunk[1].num, half |-> 2]
    BY <1>1, <1>2, <1>3
  <1>5. chunk[1] = s[1]
    BY <1>1, <1>4
  <1> QED
    BY <1>4, <1>5

(* What the streams are made of, for the prover to reason about them. *)
LEMMA DownRanges ==
  ASSUME Types, NEW c \in Clients
  PROVE  /\ down[c] \in Seq(DownPieces) /\ taken[c] \in 0 .. MaxFrames
         /\ Sendable(c) \in Int /\ Sendable(c) <= MaxFrames /\ Told(c) \in BOOLEAN
PROOF
  <1>1. down[c] \in Seq(DownPieces) /\ taken[c] \in 0 .. MaxFrames
    BY DEF Types, TypeDown, DownPieces
  <1>2. Sendable(c) \in Int /\ Sendable(c) <= MaxFrames
    BY CanPortAssumption DEF Types, TypeMain, Sendable
  <1>3. Told(c) \in BOOLEAN
    BY DEF Told
  <1> QED
    BY <1>1, <1>2, <1>3

LEMMA StreamsStep ==
  ASSUME Types, StreamsInOrder, [Next]_vars
  PROVE  StreamsInOrder'
PROOF
  <1> SUFFICES ASSUME ~broken'
               PROVE  MainSends' /\ \A c \in Clients : StreamOf(c)'
    BY DEF StreamsInOrder
  <1>1. ~broken /\ MainSends /\ \A c \in Clients : StreamOf(c)
    BY NothingMends DEF StreamsInOrder
  <1>2. MainSends'
    BY <1>1, MainSteps
  <1>3. ASSUME NEW c \in Clients, ~SendTo(c), down'[c] = down[c], taken'[c] = taken[c]
        PROVE  StreamOf(c)'
    <2>1. Sendable(c)' = Sendable(c) /\ (Told(c) => Told(c)')
      BY <1>1, <1>3, MainSteps
    <2>2. <<c, "down">> \notin torn' => <<c, "down">> \notin torn
      BY NothingMends
    <2> QED
      BY <1>1, <1>3, <2>1, <2>2 DEF StreamOf, Lined
  <1>4. ASSUME NEW c \in Clients, SendTo(c) PROVE StreamOf(c)'
    <2> SUFFICES ASSUME <<c, "down">> \notin torn'
                 PROVE  Lined(down[c], taken[c], Sendable(c), Told(c))'
      BY DEF StreamOf
    <2>1. /\ down' = [down EXCEPT ![c] = @ \o Packet(main.num)] /\ taken' = taken /\ rx' = rx
          /\ main' = [main EXCEPT !.to = @ \ {c}]
          /\ main.pc \in {"send", "abort"} /\ c \in main.to
      BY <1>4 DEF SendTo, Put, clientVars
    <2>2. main'.pc = main.pc /\ c \notin main'.to /\ down'[c] = down[c] \o Packet(main.num)
      BY <2>1 DEF Types, TypeMain, TypeDown
    <2>3. ~Told(c)
      BY <2>1 DEF Told
    <2>4. PICK s \in Seq(DownPieces), t \in 0 .. MaxFrames, n \in Int, m \in 0 .. Abort :
            s = down[c] /\ t = taken[c] /\ n = Sendable(c) /\ m = main.num
      <3>1. main.num \in 0 .. Abort
        BY DEF Types, TypeMain
      <3> QED
        BY <3>1, DownRanges
    <2>5. Lined(s, t, n, FALSE)
      <3>1. Lined(down[c], taken[c], Sendable(c), Told(c))
        BY <1>1, NothingMends DEF StreamOf
      <3> QED
        BY <2>3, <2>4, <3>1 DEF Lined
    <2>6. t \in Nat
      BY <2>4
    <2>7. /\ m = n + 1 => Lined(s \o Packet(m), t, n + 1, FALSE)
          /\ m = Abort => Lined(s \o Packet(m), t, n, TRUE)
      BY <2>5, <2>6, LinedGrows
    <2>8. down'[c] = s \o Packet(m) /\ taken'[c] = t
      BY <2>1, <2>2, <2>4
    <2>9. CASE main.pc = "send"
      <3>1. main.num = rx /\ rx \in Int
        BY <1>1, <2>9 DEF MainSends, Types, TypeMain
      <3>2. n = rx - 1 /\ Sendable(c)' = rx /\ Told(c)' = FALSE
        BY <2>1, <2>2, <2>4, <2>9 DEF Sendable, Told, Main
      <3>3. m = n + 1 /\ Sendable(c)' = n + 1
        BY <2>4, <3>1, <3>2
      <3> QED
        BY <2>7, <2>8, <3>2, <3>3
    <2>10. CASE main.pc = "abort"
      <3>1. m = Abort
        BY <1>1, <2>4, <2>10 DEF MainSends
      <3>2. Sendable(c)' = n /\ Told(c)' = TRUE
        BY <2>1, <2>2, <2>4, <2>10 DEF Sendable, Told, Main
      <3> QED
        BY <2>7, <2>8, <3>1, <3>2
    <2> QED
      BY <2>1, <2>9, <2>10
  <1>5. ASSUME NEW c \in Clients, ClientReceive(c) PROVE StreamOf(c)'
    <2> SUFFICES ASSUME <<c, "down">> \notin torn'
                 PROVE  Lined(down[c], taken[c], Sendable(c), Told(c))'
      BY DEF StreamOf
    <2>0. Chunks("down") \subseteq 1 .. 2
      BY DEF Chunks
    <2>1. PICK k \in Chunks("down") :
            /\ k <= Len(down[c])
            /\ IF Accepted(SubSeq(down[c], 1, k))
               THEN taken' = [taken EXCEPT ![c] = IF SubSeq(down[c], 1, k)[k].num \in Frames
                                                  THEN SubSeq(down[c], 1, k)[k].num ELSE @]
               ELSE torn' = torn \cup {<<c, "down">>}
            /\ down' = [down EXCEPT ![c] = SubSeq(@, k + 1, Len(@))]
      BY <1>5 DEF ClientReceive
    <2>2. UNCHANGED <<main, rx>>
      BY <1>5 DEF ClientReceive, cpu
    <2>3. PICK s \in Seq(DownPieces), t \in 0 .. MaxFrames, n \in Int, e \in BOOLEAN :
            /\ s = down[c] /\ t = taken[c] /\ n = Sendable(c) /\ e = Told(c) /\ n <= MaxFrames
      BY DownRanges
    <2>4. Sendable(c)' = n /\ Told(c)' = e
      BY <2>2, <2>3 DEF Sendable, Told, Main
    <2>5. Accepted(SubSeq(s, 1, k))
      BY <2>1, <2>3
    <2>6. k = 2 /\ SubSeq(s, 1, k)[k].num = s[1].num /\ 2 <= Len(s)
      <3>1. k \in 1 .. 2 /\ k <= Len(s)
        BY <2>0, <2>1, <2>3
      <3> QED
        BY <2>5, <3>1, AcceptedIsPacket
    <2>7. Lined(s, t, n, e)
      BY <1>1, <2>3, NothingMends DEF StreamOf
    <2>8. Lined(SubSeq(s, 3, Len(s)), IF s[1].num \in Frames THEN s[1].num ELSE t, n, e)
      BY <2>3, <2>6, <2>7, LinedTaken
    <2>9. down'[c] = SubSeq(s, 3, Len(s))
      BY <2>1, <2>3, <2>6 DEF Types, TypeDown
    <2>10. taken'[c] = IF s[1].num \in Frames THEN s[1].num ELSE t
      BY <2>1, <2>3, <2>5, <2>6 DEF Types, TypeDown
    <2> QED
      BY <2>4, <2>8, <2>9, <2>10
  <1>6. ASSUME NEW c \in Clients PROVE StreamOf(c)'
    <2>1. CASE SendTo(c) \/ ClientReceive(c)
      BY <1>4, <1>5, <2>1
    <2>2. CASE ~SendTo(c) /\ ~ClientReceive(c)
      <3>1. down'[c] = down[c] /\ taken'[c] = taken[c]
        <4>1. ASSUME NEW d \in Clients, d # c, SendTo(d) \/ ClientReceive(d)
              PROVE  down'[c] = down[c] /\ taken'[c] = taken[c]
          BY <4>1 DEF SendTo, ClientReceive, clientVars, Types, TypeDown
        <4> QED
          BY <2>2, <4>1, DownSteps
      <3> QED
        BY <1>3, <2>2, <3>1
    <2> QED
      BY <2>1, <2>2
  <1> QED
    BY <1>2, <1>6

LEMMA StreamsInit == Init => StreamsInOrder
PROOF
  <1> SUFFICES ASSUME Init PROVE StreamsInOrder
    OBVIOUS
  <1>1. main.pc = "test" /\ rx = 0
    BY DEF Init, Ready
  <1>2. ASSUME NEW c \in Clients PROVE StreamOf(c)
    <2>1. down[c] = <<>> /\ taken[c] = 0
      BY DEF Init
    <2>2. Len(<<>>) = 0
      BY EmptySeq
    <2>3. Sendable(c) = 0
      BY <1>1 DEF Sendable, Main
    <2>4. Len(down[c]) = 0
      BY <2>1, <2>2, Zenon
    <2> QED
      BY <2>1, <2>3, <2>4 DEF StreamOf, Lined
  <1> QED
    BY <1>1, <1>2 DEF StreamsInOrder, MainSends

(* As long as the device works and no packet to it was torn a client has   *)
(* received every frame that was read, or it is on the way, whole and in   *)
(* order, with nothing between the frames and at most an abort packet      *)
(* behind them (FramesComplete), however long other clients do not read.   *)
THEOREM FramesReachClients == Spec => []FramesComplete
PROOF
  <1>1. ASSUME Types, StreamsInOrder PROVE FramesComplete
    <2>1. ASSUME NEW c \in Clients, ~broken, <<c, "down">> \notin torn
          PROVE  LET left        == Sendable(c) - taken[c]
                     whole(k, n) == down[c][2 * k - 1] = Piece(n, 1) /\ down[c][2 * k] = Piece(n, 2)
                 IN  /\ taken[c] <= Sendable(c) /\ Len(down[c]) \in {2 * left, 2 * left + 2}
                     /\ \A k \in 1 .. left : whole(k, taken[c] + k)
                     /\ Len(down[c]) # 2 * left => whole(left + 1, Abort)
      <3>1. Lined(down[c], taken[c], Sendable(c), Told(c))
        BY <1>1, <2>1 DEF StreamsInOrder, StreamOf
      <3> QED
        BY <3>1 DEF Lined, Pair
    <2> QED
      BY <2>1 DEF FramesComplete
  <1>2. Inv => Types
    BY DEF Inv
  <1>3. Inv /\ StreamsInOrder /\ [Next]_vars => StreamsInOrder'
    BY <1>2, StreamsStep
  <1> QED
    BY <1>1, <1>2, <1>3, InvHolds, StreamsInit, PTL DEF Spec
===============================================================================
