--------------------------- MODULE TcpServerProofs ---------------------------
(***************************************************************************)
(* Theorems about the TCP server, for every number of connections, every   *)
(* set of descriptors and any number of sending threads.                   *)
(***************************************************************************)
EXTENDS TcpServer, SequenceTheorems, WellFoundedInduction, TLAPS

(* A set of natural numbers that is not empty has a least member. *)
LEMMA LeastMember ==
  ASSUME NEW S \in SUBSET Nat, S # {}
  PROVE  MinOf(S) \in S /\ \A y \in S : MinOf(S) <= y
PROOF
  <1> DEFINE less == OpToRel(<, Nat)
  <1>1. IsWellFoundedOn(less, Nat)
    BY NatLessThanWellFounded
  <1>2. \A m, n \in Nat : m < n => <<m, n>> \in less
    BY DEF OpToRel
  <1> HIDE DEF less
  <1>3. PICK x \in S : \A y \in S : ~(<<y, x>> \in less)
    BY <1>1, WFMin
  <1>4. \A y \in S : ~(y < x)
    BY <1>2, <1>3
  <1>5. \A y \in S : x <= y
    BY <1>4
  <1> QED
    BY <1>5 DEF MinOf

(***************************************************************************)
(* Types.  The parts of the state are treated apart.                       *)
(***************************************************************************)
TypeServer ==
  /\ srv \in {"none", "live", "freed"} /\ prog \in {"run", "killed", "aborted"}
  /\ sock \in [Fds -> Conns \cup {None}]
  /\ master \subseteq Fds /\ fdmax \in Fds \cup {Listener}
  /\ mutex \in {"free", "listening"} \cup Senders

TypeThread ==
  /\ thread \in [pc : Place, fd : Fds \cup {Listener}, ready : SUBSET (Fds \cup {Listener})]
  /\ thread.pc \in {"add", "max", "shut", "clear"} => thread.fd \in Fds

TypeSnd ==
  snd \in [Senders -> [pc : {"idle", "copy", "loop"}, fds : SUBSET Fds,
                       max : Fds \cup {Listener, 0}, num : 0 .. MaxSent,
                       due : SUBSET (Conns \cup {None})]]

TypeStop ==
  stop \in [pc : {"no", "closing", "done"}, from : Nat, due : SUBSET (Conns \cup {None})]

TypeClients ==
  /\ client \in [Conns -> {"new", "pending", "open", "closed"}]
  /\ hung \in [Conns -> {"no", "fin", "reset"}]
  /\ inbox \in [Conns -> BOOLEAN]

TypeGot == got \in [Conns -> Seq([from : Senders, num : 1 .. MaxSent])]

LEMMA TypeParts ==
  TypeOK <=> TypeServer /\ TypeThread /\ TypeSnd /\ TypeStop /\ TypeClients /\ TypeGot
PROOF
  BY DEF TypeOK, TypeServer, TypeThread, TypeSnd, TypeStop, TypeClients, TypeGot

LEMMA TypeInit == Init => TypeOK
PROOF
  <1> SUFFICES ASSUME Init PROVE TypeOK
    OBVIOUS
  <1> USE TcpServerAssumption DEF Init, Conns, None
  <1>1. TypeServer /\ TypeStop /\ TypeClients
    BY DEF TypeServer, TypeStop, TypeClients
  <1>2. TypeThread
    BY DEF TypeThread, Place
  <1>3. TypeSnd
    BY DEF TypeSnd, Idle
  <1>4. TypeGot
    BY EmptySeq DEF TypeGot
  <1> QED
    BY <1>1, <1>2, <1>3, <1>4, TypeParts

LEMMA TypeServerStep ==
  ASSUME TypeOK, [Next]_vars
  PROVE  TypeServer'
PROOF
  <1> USE TypeParts DEF TypeServer, netVars, setVars
  <1>1. CASE UNCHANGED vars
    BY <1>1 DEF vars
  <1>2. CASE Start
    BY <1>2 DEF Start
  <1>3. CASE Select
    BY <1>3 DEF Select
  <1>4. CASE Accept
    BY <1>4 DEF Accept, Free, Pending
  <1>5. CASE Add
    BY <1>5 DEF Add, TypeThread
  <1>6. CASE AddMax
    BY <1>6 DEF AddMax, TypeThread
  <1>7. CASE Shut
    BY <1>7 DEF Shut, CloseFd
  <1>8. CASE Clear
    BY <1>8 DEF Clear
  <1>9. CASE Die
    BY <1>9 DEF Die
  <1>10. ASSUME NEW fd \in Fds, Recv(fd) PROVE TypeServer'
    BY <1>10 DEF Recv
  <1>11. ASSUME NEW s \in Senders, CopySet(s) \/ CopyMax(s) \/ SendEnds(s) PROVE TypeServer'
    BY <1>11 DEF CopySet, CopyMax, SendEnds
  <1>12. ASSUME NEW s \in Senders, SendNext(s) PROVE TypeServer'
    BY <1>12 DEF SendNext
  <1>13. CASE StopCancel
    BY <1>13 DEF StopCancel
  <1>14. CASE StopClose
    BY <1>14 DEF StopClose, CloseFd
  <1>15. CASE StopFree
    BY <1>15 DEF StopFree
  <1>16. CASE Clients
    BY <1>16 DEF Clients, Connect, ClientSend, HangUp
  <1> QED
    BY <1>1, <1>2, <1>3, <1>4, <1>5, <1>6, <1>7, <1>8, <1>9, <1>10, <1>11, <1>12, <1>13,
       <1>14, <1>15, <1>16 DEF Next

LEMMA TypeThreadStep ==
  ASSUME TypeOK, [Next]_vars
  PROVE  TypeThread'
PROOF
  <1> USE TypeParts DEF TypeThread, netVars, setVars
  <1>1. CASE UNCHANGED vars
    BY <1>1 DEF vars
  <1>2. CASE Start
    BY <1>2 DEF Start, Place
  <1>3. CASE Select
    BY <1>3 DEF Select, TypeServer
  <1>4. CASE Accept
    BY <1>4 DEF Accept, Served, Serves, Free, Place, TypeServer
  <1>5. CASE Add \/ AddMax
    BY <1>5 DEF Add, AddMax, Go, Place
  <1>6. CASE Shut \/ Clear
    BY <1>6 DEF Shut, Clear, Go, Place
  <1>7. CASE Die
    BY <1>7 DEF Die, Go, Place
  <1>8. ASSUME NEW fd \in Fds, Recv(fd) PROVE TypeThread'
    BY <1>8 DEF Recv, Served, Serves, Place
  <1>9. ASSUME NEW s \in Senders, CopySet(s) \/ CopyMax(s) \/ SendEnds(s) PROVE TypeThread'
    BY <1>9 DEF CopySet, CopyMax, SendEnds
  <1>10. ASSUME NEW s \in Senders, SendNext(s) PROVE TypeThread'
    BY <1>10 DEF SendNext
  <1>11. CASE StopCancel
    BY <1>11 DEF StopCancel
  <1>12. CASE StopClose
    BY <1>12 DEF StopClose
  <1>13. CASE StopFree
    BY <1>13 DEF StopFree
  <1>14. CASE Clients
    BY <1>14 DEF Clients, Connect, ClientSend, HangUp
  <1> QED
    BY <1>1, <1>2, <1>3, <1>4, <1>5, <1>6, <1>7, <1>8, <1>9, <1>10, <1>11, <1>12, <1>13, <1>14 DEF Next

LEMMA TypeSndStep ==
  ASSUME TypeOK, [Next]_vars
  PROVE  TypeSnd'
PROOF
  <1> USE TypeParts DEF TypeSnd, netVars, setVars
  <1>1. CASE UNCHANGED vars
    BY <1>1 DEF vars
  <1>2. CASE Start
    BY <1>2 DEF Start
  <1>3. CASE Select
    BY <1>3 DEF Select
  <1>4. CASE Accept
    BY <1>4 DEF Accept
  <1>5. CASE Add \/ AddMax
    BY <1>5 DEF Add, AddMax
  <1>6. CASE Shut \/ Clear
    BY <1>6 DEF Shut, Clear
  <1>7. CASE Die
    BY <1>7 DEF Die
  <1>8. ASSUME NEW fd \in Fds, Recv(fd) PROVE TypeSnd'
    BY <1>8 DEF Recv
  <1>9. ASSUME NEW s \in Senders, CopySet(s) \/ CopyMax(s) \/ SendEnds(s) PROVE TypeSnd'
    <2>1. CASE CopySet(s)
      <3>1. master \subseteq Fds /\ Connected \subseteq Conns \cup {None}
        BY DEF Connected, TypeServer
      <3>2. snd[s].num + 1 \in 0 .. MaxSent
        BY <2>1, TcpServerAssumption DEF CopySet
      <3> QED
        BY <2>1, <3>1, <3>2 DEF CopySet
    <2>2. CASE CopyMax(s)
      <3> DEFINE r == [snd[s] EXCEPT !.pc = "loop", !.max = fdmax]
      <3>1. snd' = [snd EXCEPT ![s] = r]
        BY <2>2 DEF CopyMax
      <3>2. snd[s] \in [pc : {"idle", "copy", "loop"}, fds : SUBSET Fds,
                        max : Fds \cup {Listener, 0}, num : 0 .. MaxSent,
                        due : SUBSET (Conns \cup {None})]
        OBVIOUS
      <3>3. fdmax \in Fds \cup {Listener}
        BY DEF TypeServer
      <3>4. r \in [pc : {"idle", "copy", "loop"}, fds : SUBSET Fds, max : Fds \cup {Listener, 0},
                   num : 0 .. MaxSent, due : SUBSET (Conns \cup {None})]
        BY <3>2, <3>3
      <3> HIDE DEF r
      <3> QED
        BY <3>1, <3>4
    <2>3. CASE SendEnds(s)
      BY <2>3 DEF SendEnds, Idle
    <2> QED
      BY <1>9, <2>1, <2>2, <2>3
  <1>10. ASSUME NEW s \in Senders, SendNext(s) PROVE TypeSnd'
    BY <1>10, ZenonT(90) DEF SendNext, At, After
  <1>11. CASE StopCancel
    BY <1>11 DEF StopCancel
  <1>12. CASE StopClose
    BY <1>12 DEF StopClose
  <1>13. CASE StopFree
    BY <1>13 DEF StopFree
  <1>14. CASE Clients
    BY <1>14 DEF Clients, Connect, ClientSend, HangUp
  <1> QED
    BY <1>1, <1>2, <1>3, <1>4, <1>5, <1>6, <1>7, <1>8, <1>9, <1>10, <1>11, <1>12, <1>13, <1>14 DEF Next

LEMMA TypeStopStep ==
  ASSUME TypeOK, [Next]_vars
  PROVE  TypeStop'
PROOF
  <1> USE TypeParts DEF TypeStop, netVars, setVars
  <1>1. CASE UNCHANGED vars
    BY <1>1 DEF vars
  <1>2. CASE Start
    BY <1>2 DEF Start
  <1>3. CASE Select
    BY <1>3 DEF Select
  <1>4. CASE Accept
    BY <1>4 DEF Accept
  <1>5. CASE Add \/ AddMax
    BY <1>5 DEF Add, AddMax
  <1>6. CASE Shut \/ Clear
    BY <1>6 DEF Shut, Clear
  <1>7. CASE Die
    BY <1>7 DEF Die
  <1>8. ASSUME NEW fd \in Fds, Recv(fd) PROVE TypeStop'
    BY <1>8 DEF Recv
  <1>9. ASSUME NEW s \in Senders, CopySet(s) \/ CopyMax(s) \/ SendEnds(s) PROVE TypeStop'
    BY <1>9 DEF CopySet, CopyMax, SendEnds
  <1>10. ASSUME NEW s \in Senders, SendNext(s) PROVE TypeStop'
    BY <1>10 DEF SendNext
  <1>11. CASE StopCancel
    BY <1>11 DEF StopCancel, Connected, TypeServer
  <1>12. CASE StopClose
    <2>1. Remaining \in SUBSET Nat /\ Remaining # {}
      BY <1>12, TcpServerAssumption DEF StopClose, Remaining, TypeServer
    <2>2. MinOf(Remaining) \in Nat
      BY <2>1, LeastMember
    <2> QED
      BY <1>12, <2>2 DEF StopClose
  <1>13. CASE StopFree
    BY <1>13 DEF StopFree
  <1>14. CASE Clients
    BY <1>14 DEF Clients, Connect, ClientSend, HangUp
  <1> QED
    BY <1>1, <1>2, <1>3, <1>4, <1>5, <1>6, <1>7, <1>8, <1>9, <1>10, <1>11, <1>12, <1>13, <1>14 DEF Next

LEMMA TypeClientsStep ==
  ASSUME TypeOK, [Next]_vars
  PROVE  TypeClients'
PROOF
  <1> USE TypeParts DEF TypeClients, netVars, setVars
  <1>1. CASE UNCHANGED vars
    BY <1>1 DEF vars
  <1>2. CASE Start
    BY <1>2 DEF Start
  <1>3. CASE Select
    BY <1>3 DEF Select
  <1>4. CASE Accept
    BY <1>4 DEF Accept, Pending, Free
  <1>5. CASE Add \/ AddMax
    BY <1>5 DEF Add, AddMax
  <1>6. CASE Shut \/ Clear
    BY <1>6 DEF Shut, Clear, CloseFd
  <1>7. CASE Die
    BY <1>7 DEF Die
  <1>8. ASSUME NEW fd \in Fds, Recv(fd) PROVE TypeClients'
    BY <1>8 DEF Recv, TypeServer
  <1>9. ASSUME NEW s \in Senders, CopySet(s) \/ CopyMax(s) \/ SendEnds(s) PROVE TypeClients'
    BY <1>9 DEF CopySet, CopyMax, SendEnds
  <1>10. ASSUME NEW s \in Senders, SendNext(s) PROVE TypeClients'
    BY <1>10 DEF SendNext, TypeServer, TypeSnd
  <1>11. CASE StopCancel
    BY <1>11 DEF StopCancel
  <1>12. CASE StopClose
    BY <1>12 DEF StopClose, CloseFd
  <1>13. CASE StopFree
    BY <1>13 DEF StopFree, Pending
  <1>14. CASE Clients
    BY <1>14, ZenonT(90) DEF Clients, Connect, ClientSend, HangUp, Present
  <1> QED
    BY <1>1, <1>2, <1>3, <1>4, <1>5, <1>6, <1>7, <1>8, <1>9, <1>10, <1>11, <1>12, <1>13, <1>14 DEF Next

(***************************************************************************)
(* What the mutex guards.                                                  *)
(***************************************************************************)

(* Nothing runs before the start, and whoever is between two accesses of   *)
(* the set has the mutex.                                                  *)
Owner ==
  /\ srv = "none" => thread.pc = "none" /\ stop.pc = "no"
  /\ \A s \in Senders : snd[s].pc = "copy" => mutex = s
  /\ thread.pc \in {"max", "clear"} => mutex = "listening"

(* Only the descriptor that the listening thread adds may be beyond fdmax, *)
(* also if the thread was cancelled there.                                 *)
Covered ==
  \A fd \in master :
    \/ fd <= fdmax
    \/ mutex = "listening" /\ thread.pc \in {"max", "dead"} /\ fd = thread.fd

(* A send has a number, and the server is not stopped meanwhile. *)
Underway == \A s \in Senders : snd[s].pc # "idle" => snd[s].num > 0 /\ stop.pc = "no"

LEMMA UnderwayStep ==
  ASSUME TypeOK, Underway, [Next]_vars
  PROVE  Underway'
PROOF
  <1> USE TypeParts DEF Underway, TypeSnd, netVars, setVars
  <1>1. CASE UNCHANGED <<snd, stop>>
    BY <1>1
  <1>2. ASSUME NEW s \in Senders, CopySet(s) PROVE Underway'
    BY <1>2 DEF CopySet, At
  <1>3. ASSUME NEW s \in Senders, CopyMax(s) \/ SendNext(s) \/ SendEnds(s) PROVE Underway'
    BY <1>3, ZenonT(90) DEF CopyMax, SendNext, SendEnds, At, Idle
  <1>4. CASE StopCancel
    BY <1>4 DEF StopCancel
  <1>5. CASE StopClose \/ StopFree
    BY <1>5 DEF StopClose, StopFree
  <1>6. ASSUME UNCHANGED vars \/ Start \/ Select \/ Accept \/ Add \/ AddMax \/ Shut \/ Clear \/ Die
               \/ (\E fd \in Fds : Recv(fd)) \/ Clients
        PROVE  UNCHANGED <<snd, stop>>
    BY <1>6 DEF vars, Start, Select, Accept, Add, AddMax, Shut, Clear, Die, Recv,
                Clients, Connect, ClientSend, HangUp
  <1> QED
    BY <1>1, <1>2, <1>3, <1>4, <1>5, <1>6 DEF Next

LEMMA OwnerStep ==
  ASSUME TypeOK, Owner, [Next]_vars
  PROVE  Owner'
PROOF
  <1> USE TypeParts, TcpServerAssumption DEF Owner, TypeServer, TypeThread, TypeSnd, netVars, setVars, Live
  <1>1. CASE UNCHANGED vars
    BY <1>1 DEF vars
  <1>2. CASE Start
    BY <1>2 DEF Start
  <1>3. CASE Select
    BY <1>3 DEF Select
  <1>4. CASE Accept
    BY <1>4 DEF Accept, Serves, Served
  <1>5. CASE Add
    BY <1>5 DEF Add, Go
  <1>6. CASE AddMax
    BY <1>6 DEF AddMax, Go
  <1>7. CASE Shut
    BY <1>7 DEF Shut, Go, CloseFd
  <1>8. CASE Clear
    BY <1>8 DEF Clear, Go
  <1>9. CASE Die
    BY <1>9 DEF Die, Go
  <1>10. ASSUME NEW fd \in Fds, Recv(fd) PROVE Owner'
    BY <1>10 DEF Recv, Serves, Served
  <1>11. ASSUME NEW s \in Senders, CopySet(s) PROVE Owner'
    BY <1>11 DEF CopySet, At
  <1>12. ASSUME NEW s \in Senders, CopyMax(s) PROVE Owner'
    BY <1>12 DEF CopyMax, At
  <1>13. ASSUME NEW s \in Senders, SendNext(s) PROVE Owner'
    BY <1>13 DEF SendNext, At
  <1>14. ASSUME NEW s \in Senders, SendEnds(s) PROVE Owner'
    BY <1>14 DEF SendEnds, At, Idle
  <1>15. CASE StopCancel
    BY <1>15 DEF StopCancel
  <1>16. CASE StopClose
    BY <1>16 DEF StopClose, CloseFd
  <1>17. CASE StopFree
    BY <1>17 DEF StopFree
  <1>18. CASE Clients
    BY <1>18 DEF Clients, Connect, ClientSend, HangUp, Present
  <1> QED
    BY <1>1, <1>2, <1>3, <1>4, <1>5, <1>6, <1>7, <1>8, <1>9, <1>10,
       <1>11, <1>12, <1>13, <1>14, <1>15, <1>16, <1>17, <1>18 DEF Next

LEMMA CoveredStep ==
  ASSUME TypeOK, Owner, Covered, [Next]_vars
  PROVE  Covered'
PROOF
  <1> USE TypeParts, TcpServerAssumption DEF Owner, Covered, TypeServer, TypeThread,
           TypeSnd, netVars, setVars, Live
  <1>1. CASE UNCHANGED vars
    BY <1>1 DEF vars
  <1>2. CASE Start
    BY <1>2 DEF Start
  <1>3. CASE Select
    BY <1>3 DEF Select
  <1>4. CASE Accept
    BY <1>4 DEF Accept, Serves, Served
  <1>5. CASE Add
    BY <1>5 DEF Add, Go
  <1>6. CASE AddMax
    BY <1>6 DEF AddMax, Go
  <1>7. CASE Shut
    BY <1>7 DEF Shut, Go, CloseFd
  <1>8. CASE Clear
    BY <1>8 DEF Clear, Go
  <1>9. CASE Die
    BY <1>9 DEF Die, Go
  <1>10. ASSUME NEW fd \in Fds, Recv(fd) PROVE Covered'
    BY <1>10 DEF Recv, Serves, Served
  <1>11. ASSUME NEW s \in Senders, CopySet(s) PROVE Covered'
    BY <1>11 DEF CopySet, At
  <1>12. ASSUME NEW s \in Senders, CopyMax(s) PROVE Covered'
    BY <1>12 DEF CopyMax, At
  <1>13. ASSUME NEW s \in Senders, SendNext(s) PROVE Covered'
    BY <1>13 DEF SendNext, At
  <1>14. ASSUME NEW s \in Senders, SendEnds(s) PROVE Covered'
    BY <1>14 DEF SendEnds, At, Idle
  <1>15. CASE StopCancel
    BY <1>15 DEF StopCancel
  <1>16. CASE StopClose
    BY <1>16 DEF StopClose, CloseFd
  <1>17. CASE StopFree
    BY <1>17 DEF StopFree
  <1>18. CASE Clients
    BY <1>18 DEF Clients, Connect, ClientSend, HangUp, Present
  <1> QED
    BY <1>1, <1>2, <1>3, <1>4, <1>5, <1>6, <1>7, <1>8, <1>9, <1>10,
       <1>11, <1>12, <1>13, <1>14, <1>15, <1>16, <1>17, <1>18 DEF Next

(***************************************************************************)
(* Sockets and the master set.                                             *)
(***************************************************************************)

(* A descriptor is that of an open connection, and of one only; the one    *)
(* that the thread has closed is not used before it left the set.          *)
Sockets ==
  /\ \A fd \in Fds : sock[fd] # None => client[sock[fd]] = "open"
  /\ \A f, g \in Fds : sock[f] = sock[g] /\ sock[f] # None => f = g
  /\ thread.pc = "clear" => sock[thread.fd] = None

(* What is to be closed by a stop is closed, or in the set and ahead.      *)
Ahead(c) == \E fd \in master : stop.from <= fd /\ sock[fd] = c

StopReaches ==
  \A c \in stop.due \cap Conns :
    client[c] = "closed" \/ (stop.pc = "closing" /\ Ahead(c))

LEMMA SocketsStep ==
  ASSUME TypeOK, Sockets, [Next]_vars
  PROVE  Sockets'
PROOF
  <1> USE TypeParts, TcpServerAssumption DEF Sockets, TypeServer, TypeThread, TypeStop,
           TypeClients, netVars, setVars, Conns, None
  <1>1. CASE UNCHANGED vars
    BY <1>1 DEF vars
  <1>2. CASE Start
    BY <1>2 DEF Start
  <1>3. CASE Select
    BY <1>3 DEF Select
  <1>4. CASE Accept
    <2>0. thread'.pc # "clear"
      BY <1>4 DEF Accept, Served
    <2>1. CASE UNCHANGED <<sock, client>>
      BY <2>0, <2>1
    <2>2. ASSUME NEW c \in Pending, client' = [client EXCEPT ![c] = "closed"], UNCHANGED sock
          PROVE  Sockets'
      <3>1. c \in Conns /\ client[c] = "pending" /\ \A f \in Fds : sock[f] # c
        BY <2>2, SMTT(60) DEF Pending
      <3> QED
        BY <2>0, <2>2, <3>1
    <2>3. ASSUME NEW c \in Pending, NEW fd \in Free, sock' = [sock EXCEPT ![fd] = c],
                 client' = [client EXCEPT ![c] = "open"], thread'.pc = "add"
          PROVE  Sockets'
      <3>1. c # None /\ \A f \in Fds : sock[f] # c
        BY <2>3, SMTT(60) DEF Pending
      <3> QED
        BY <2>3, <3>1 DEF Pending, Free
    <2> QED
      BY <1>4, <2>1, <2>2, <2>3, SMTT(60) DEF Accept, Serves, Served
  <1>5. CASE Add
    BY <1>5 DEF Add, Go
  <1>6. CASE AddMax
    BY <1>6 DEF AddMax, Go
  <1>7. CASE Shut
    BY <1>7, SMTT(60) DEF Shut, Go, CloseFd
  <1>8. CASE Clear
    BY <1>8 DEF Clear, Go
  <1>9. CASE Die
    BY <1>9 DEF Die, Go
  <1>10. ASSUME NEW fd \in Fds, Recv(fd) PROVE Sockets'
    BY <1>10 DEF Recv, Serves, Served
  <1>11. ASSUME NEW s \in Senders, CopySet(s) PROVE Sockets'
    BY <1>11 DEF CopySet, At
  <1>12. ASSUME NEW s \in Senders, CopyMax(s) PROVE Sockets'
    BY <1>12 DEF CopyMax, At
  <1>13. ASSUME NEW s \in Senders, SendNext(s) PROVE Sockets'
    BY <1>13 DEF SendNext, At
  <1>14. ASSUME NEW s \in Senders, SendEnds(s) PROVE Sockets'
    BY <1>14 DEF SendEnds, At, Idle
  <1>15. CASE StopCancel
    BY <1>15 DEF StopCancel
  <1>16. CASE StopClose
    <2>1. Remaining \in SUBSET Nat /\ Remaining # {}
      BY <1>16 DEF StopClose, Remaining
    <2>2. MinOf(Remaining) \in Fds
      BY <2>1, LeastMember, SMTT(60) DEF Remaining
    <2> QED
      BY <1>16, <2>2 DEF StopClose, CloseFd
  <1>17. CASE StopFree
    BY <1>17 DEF StopFree, Pending
  <1>18. CASE Clients
    BY <1>18 DEF Clients, Connect, ClientSend, HangUp, Present
  <1> QED
    BY <1>1, <1>2, <1>3, <1>4, <1>5, <1>6, <1>7, <1>8, <1>9, <1>10,
       <1>11, <1>12, <1>13, <1>14, <1>15, <1>16, <1>17, <1>18 DEF Next

LEMMA SetMatchesSocketsStep ==
  ASSUME TypeOK, Owner, SetMatchesSockets, [Next]_vars
  PROVE  SetMatchesSockets'
PROOF
  <1> USE TypeParts, TcpServerAssumption DEF Owner, SetMatchesSockets, TypeServer, TypeThread, TypeStop,
           TypeClients, netVars, setVars, Conns, None
  <1>1. CASE UNCHANGED vars
    BY <1>1 DEF vars
  <1>2. CASE Start
    BY <1>2 DEF Start
  <1>3. CASE Select
    BY <1>3 DEF Select
  <1>4. CASE Accept
    BY <1>4 DEF Accept, Serves, Served, Free, Pending
  <1>5. CASE Add
    BY <1>5 DEF Add, Go
  <1>6. CASE AddMax
    BY <1>6 DEF AddMax, Go
  <1>7. CASE Shut
    BY <1>7 DEF Shut, Go, CloseFd
  <1>8. CASE Clear
    BY <1>8 DEF Clear, Go
  <1>9. CASE Die
    BY <1>9 DEF Die, Go
  <1>10. ASSUME NEW fd \in Fds, Recv(fd) PROVE SetMatchesSockets'
    BY <1>10 DEF Recv, Serves, Served
  <1>11. ASSUME NEW s \in Senders, CopySet(s) PROVE SetMatchesSockets'
    BY <1>11 DEF CopySet, At
  <1>12. ASSUME NEW s \in Senders, CopyMax(s) PROVE SetMatchesSockets'
    BY <1>12 DEF CopyMax, At
  <1>13. ASSUME NEW s \in Senders, SendNext(s) PROVE SetMatchesSockets'
    BY <1>13 DEF SendNext, At
  <1>14. ASSUME NEW s \in Senders, SendEnds(s) PROVE SetMatchesSockets'
    BY <1>14 DEF SendEnds, At, Idle
  <1>15. CASE StopCancel
    BY <1>15 DEF StopCancel
  <1>16. CASE StopClose
    BY <1>16 DEF StopClose, CloseFd
  <1>17. CASE StopFree
    BY <1>17 DEF StopFree
  <1>18. CASE Clients
    BY <1>18 DEF Clients, Connect, ClientSend, HangUp, Present
  <1> QED
    BY <1>1, <1>2, <1>3, <1>4, <1>5, <1>6, <1>7, <1>8, <1>9, <1>10,
       <1>11, <1>12, <1>13, <1>14, <1>15, <1>16, <1>17, <1>18 DEF Next

LEMMA ClosedStays ==
  ASSUME TypeOK, [Next]_vars, NEW c \in Conns, client[c] = "closed"
  PROVE  client'[c] = "closed"
PROOF
  <1> USE TypeParts DEF TypeClients, netVars
  <1>1. CASE UNCHANGED client
    BY <1>1
  <1>2. CASE Accept
    BY <1>2 DEF Accept, Pending
  <1>3. CASE Shut \/ StopClose
    BY <1>3 DEF Shut, StopClose, CloseFd
  <1>4. CASE StopFree
    BY <1>4 DEF StopFree, Pending
  <1>5. CASE Clients
    BY <1>5 DEF Clients, Connect, ClientSend, HangUp
  <1>6. ASSUME UNCHANGED vars \/ Start \/ Select \/ Add \/ AddMax \/ Clear \/ Die
               \/ (\E fd \in Fds : Recv(fd)) \/ StopCancel
        PROVE  UNCHANGED client
    BY <1>6 DEF vars, Start, Select, Add, AddMax, Clear, Die, Recv, StopCancel
  <1>7. ASSUME NEW s \in Senders, CopySet(s) \/ CopyMax(s) \/ SendNext(s) \/ SendEnds(s)
        PROVE  UNCHANGED client
    BY <1>7 DEF CopySet, CopyMax, SendNext, SendEnds
  <1> QED
    BY <1>1, <1>2, <1>3, <1>4, <1>5, <1>6, <1>7 DEF Next

LEMMA StopReachesStep ==
  ASSUME TypeOK, Owner, Covered, Sockets, StopReaches, [Next]_vars
  PROVE  StopReaches'
PROOF
  <1> USE TypeParts, TcpServerAssumption
      DEF TypeServer, TypeThread, TypeStop, TypeClients, netVars, setVars, Conns, None
  <1>1. ASSUME NEW c \in Conns, client[c] = "closed", c \in stop.due, stop'.due = stop.due
        PROVE  client'[c] = "closed"
    BY <1>1, ClosedStays
  <1>2. ASSUME UNCHANGED stop,
               \A c \in Conns : Ahead(c) => client'[c] = "closed" \/ Ahead(c)'
        PROVE  StopReaches'
    BY <1>1, <1>2 DEF StopReaches
  <1>3. CASE UNCHANGED <<stop, master, sock>>
    BY <1>2, <1>3 DEF Ahead
  <1>4. CASE Accept
    <2>1. UNCHANGED <<stop, master>>
      BY <1>4 DEF Accept
    <2>2. \A fd \in Fds : sock[fd] # None => sock'[fd] = sock[fd]
      BY <1>4 DEF Accept, Free
    <2>3. ASSUME NEW c \in Conns, Ahead(c) PROVE Ahead(c)'
      <3>1. PICK fd \in master : stop.from <= fd /\ sock[fd] = c
        BY <2>3 DEF Ahead
      <3>2. fd \in Fds /\ c # None
        OBVIOUS
      <3>3. sock'[fd] = c
        BY <2>2, <3>1, <3>2
      <3>4. \E g \in master : stop.from <= g /\ sock'[g] = c
        BY <3>1, <3>3
      <3> QED
        BY <2>1, <3>4 DEF Ahead
    <2> QED
      BY <1>2, <2>1, <2>3
  <1>5. CASE Add
    BY <1>2, <1>5 DEF Add, Ahead
  <1>6. CASE Shut
    BY <1>2, <1>6 DEF Shut, CloseFd, Ahead
  <1>7. CASE Clear
    <2>1. sock[thread.fd] = None /\ master' = master \ {thread.fd} /\ UNCHANGED <<stop, sock>>
      BY <1>7 DEF Clear, Sockets
    <2> QED
      BY <1>2, <2>1 DEF Ahead
  <1>8. CASE StopCancel
    <2>1. stop' = [pc |-> "closing", from |-> 0, due |-> Connected] /\ UNCHANGED <<master, sock>>
      BY <1>8 DEF StopCancel
    <2>2. ASSUME NEW c \in Connected PROVE \E fd \in master : 0 <= fd /\ sock[fd] = c
      <3>1. PICK fd \in master : sock[fd] = c
        BY Zenon DEF Connected
      <3>2. fd \in Nat
        OBVIOUS
      <3> QED
        BY <3>1, <3>2
    <2>3. stop'.pc = "closing" /\ stop'.from = 0 /\ stop'.due = Connected
      BY <2>1
    <2>4. ASSUME NEW c \in Connected PROVE Ahead(c)'
      BY <2>1, <2>2, <2>3 DEF Ahead
    <2> QED
      BY <2>3, <2>4 DEF StopReaches
  <1>9. CASE StopClose
    <2> DEFINE f == MinOf(Remaining)
    <2>1. Remaining \in SUBSET Nat /\ Remaining # {}
      BY <1>9 DEF StopClose, Remaining
    <2>2. f \in Remaining /\ \A fd \in Remaining : f <= fd
      BY <2>1, LeastMember
    <2> HIDE DEF f
    <2>3. f \in Fds /\ f <= fdmax /\ f \in master /\ f \in Nat
      BY <2>2 DEF Remaining
    <2>4. /\ sock' = [sock EXCEPT ![f] = None] /\ stop' = [stop EXCEPT !.from = f + 1]
          /\ client' = [c \in Conns |-> IF c = sock[f] THEN "closed" ELSE client[c]]
          /\ UNCHANGED master /\ stop.pc = "closing"
      BY <1>9 DEF StopClose, CloseFd, f
    <2>5. stop'.from = f + 1 /\ stop'.pc = "closing" /\ stop'.due = stop.due
      BY <2>3, <2>4
    <2>6. ASSUME NEW c \in Conns, NEW fd \in master, stop.from <= fd, sock[fd] = c
          PROVE  client'[c] = "closed" \/ (f + 1 <= fd /\ sock'[fd] = c)
      <3>0. fd \in Nat /\ fdmax \in Nat
        BY ZenonT(90)
      <3>1. CASE fd <= fdmax
        <4>1. f <= fd
          BY <2>2, <2>6, <3>1 DEF Remaining
        <4> QED
          BY <2>3, <2>4, <2>6, <3>0, <4>1, SMTT(60)
      <3>2. CASE fd > fdmax
        BY <2>3, <2>4, <2>6, <3>0, <3>2
      <3> QED
        BY <3>0, <3>1, <3>2
    <2> QED
      BY <1>1, <2>4, <2>5, <2>6 DEF StopReaches, Ahead
  <1>10. CASE StopFree
    <2>1. CASE UNCHANGED stop
      BY <1>2, <1>10, <2>1 DEF StopFree, Ahead
    <2>2. CASE mutex = "free" /\ stop' = [stop EXCEPT !.pc = "done"]
      <3>1. \A fd \in master : ~(stop.from <= fd)
        BY <1>10, <2>2 DEF StopFree, Remaining, Covered
      <3>2. \A c \in Conns : ~Ahead(c)
        BY <3>1 DEF Ahead
      <3> QED
        BY <1>1, <2>2, <3>2 DEF StopReaches
    <2> QED
      BY <1>10, <2>1, <2>2 DEF StopFree
  <1>11. ASSUME UNCHANGED vars \/ Start \/ Select \/ AddMax \/ Die
                \/ (\E fd \in Fds : Recv(fd)) \/ Clients
         PROVE  UNCHANGED <<stop, master, sock>>
    BY <1>11 DEF vars, Start, Select, AddMax, Die, Recv, Clients, Connect, ClientSend, HangUp
  <1>12. ASSUME NEW s \in Senders, CopySet(s) \/ CopyMax(s) \/ SendNext(s) \/ SendEnds(s)
         PROVE  UNCHANGED <<stop, master, sock>>
    BY <1>12 DEF CopySet, CopyMax, SendNext, SendEnds
  <1> QED
    BY <1>3, <1>4, <1>5, <1>6, <1>7, <1>8, <1>9, <1>10, <1>11, <1>12 DEF Next

(***************************************************************************)
(* The packets that went out, with what else a sender relies on.           *)
(***************************************************************************)
LEMMA PacketType ==
  ASSUME TypeOK, Underway, NEW s \in Senders, SendNext(s)
  PROVE  [from |-> s, num |-> snd[s].num] \in [from : Senders, num : 1 .. MaxSent]
PROOF
  <1>1. snd[s].num \in 0 .. MaxSent /\ snd[s].num > 0
    BY TypeParts DEF TypeSnd, Underway, SendNext, At
  <1> QED
    BY <1>1

LEMMA TypeGotStep ==
  ASSUME TypeOK, Underway, [Next]_vars
  PROVE  TypeGot'
PROOF
  <1> USE TypeParts, TcpServerAssumption DEF TypeGot, TypeSnd, TypeServer, netVars
  <1>1. CASE UNCHANGED got
    BY <1>1
  <1>2. ASSUME NEW s \in Senders, SendNext(s) PROVE TypeGot'
    <2> DEFINE packet == [from |-> s, num |-> snd[s].num]
    <2>1. packet \in [from : Senders, num : 1 .. MaxSent]
      BY <1>2, PacketType
    <2> HIDE DEF packet
    <2>2. UNCHANGED got \/ \E c \in Conns : got' = [got EXCEPT ![c] = Append(@, packet)]
      <3>1. MinOf(Todo(s)) \in Fds
        <4>1. Todo(s) \in SUBSET Nat /\ Todo(s) # {}
          BY <1>2 DEF SendNext, Todo
        <4>2. MinOf(Todo(s)) \in Todo(s)
          BY <4>1, LeastMember
        <4> QED
          BY <4>2 DEF Todo
      <3> QED
        BY <1>2, <3>1 DEF SendNext, packet
    <2>3. ASSUME NEW c \in Conns PROVE Append(got[c], packet) \in Seq([from : Senders, num : 1 .. MaxSent])
      BY <2>1, AppendProperties
    <2> QED
      BY <2>2, <2>3, ZenonT(90)
  <1>3. ASSUME UNCHANGED vars \/ Start \/ Select \/ Accept \/ Add \/ AddMax \/ Shut \/ Clear \/ Die
               \/ (\E fd \in Fds : Recv(fd)) \/ StopCancel \/ StopClose \/ StopFree \/ Clients
        PROVE  UNCHANGED got
    BY <1>3 DEF vars, Start, Select, Accept, Add, AddMax, Shut, Clear, Die, Recv,
                StopCancel, StopClose, StopFree, Clients, Connect, ClientSend, HangUp
  <1>4. ASSUME NEW s \in Senders, CopySet(s) \/ CopyMax(s) \/ SendEnds(s)
        PROVE  UNCHANGED got
    BY <1>4 DEF CopySet, CopyMax, SendEnds
  <1> QED
    BY <1>1, <1>2, <1>3, <1>4 DEF Next

(* A send to one descriptor. *)
SendsTo(s, fd) ==
  /\ fd \in Todo(s) /\ snd' = [snd EXCEPT ![s].fds = snd[s].fds \ {fd}]
  /\ UNCHANGED <<srv, sock, master, fdmax, mutex, thread, stop, client>>
  /\ \/ UNCHANGED got /\ \A c \in Conns : sock[fd] = c => hung[c] # "no"
     \/ /\ sock[fd] \in Conns
        /\ got' = [got EXCEPT ![sock[fd]] = Append(@, [from |-> s, num |-> snd[s].num])]

LEMMA SendNextSends ==
  ASSUME TypeOK, NEW s \in Senders, SendNext(s)
  PROVE  snd[s].pc = "loop" /\ \E fd \in Fds : SendsTo(s, fd)
PROOF
  <1> USE TypeParts, TcpServerAssumption DEF TypeServer, TypeSnd, netVars, setVars
  <1> DEFINE fd == MinOf(Todo(s))
  <1>1. Todo(s) \in SUBSET Nat /\ Todo(s) # {}
    BY DEF SendNext, Todo
  <1>2. fd \in Todo(s)
    BY <1>1, LeastMember
  <1>3. fd \in Fds
    BY <1>2 DEF Todo
  <1>4. snd' = [snd EXCEPT ![s].fds = snd[s].fds \ {fd}]
    BY DEF SendNext, After
  <1>5. \/ UNCHANGED got /\ \A c \in Conns : sock[fd] = c => hung[c] # "no"
        \/ /\ sock[fd] \in Conns
           /\ got' = [got EXCEPT ![sock[fd]] = Append(@, [from |-> s, num |-> snd[s].num])]
    BY <1>3 DEF SendNext, Conns, None
  <1> HIDE DEF fd
  <1> QED
    BY <1>2, <1>3, <1>4, <1>5 DEF SendNext, At, SendsTo

(* What happened to a connection stays so. *)
LEMMA HungStays ==
  ASSUME TypeOK, [Next]_vars, NEW c \in Conns, hung[c] # "no"
  PROVE  hung'[c] # "no"
PROOF
  <1> USE TypeParts DEF TypeClients, netVars
  <1>1. CASE UNCHANGED hung
    BY <1>1
  <1>2. ASSUME NEW s \in Senders, SendNext(s) PROVE hung'[c] # "no"
    BY <1>2 DEF SendNext
  <1>3. CASE Clients
    BY <1>3 DEF Clients, Connect, ClientSend, HangUp, Present
  <1>4. ASSUME UNCHANGED vars \/ Start \/ Select \/ Accept \/ Add \/ AddMax \/ Shut \/ Clear \/ Die
               \/ (\E fd \in Fds : Recv(fd)) \/ StopCancel \/ StopClose \/ StopFree
        PROVE  UNCHANGED hung
    BY <1>4 DEF vars, Start, Select, Accept, Add, AddMax, Shut, Clear, Die, Recv,
                StopCancel, StopClose, StopFree
  <1>5. ASSUME NEW s \in Senders, CopySet(s) \/ CopyMax(s) \/ SendEnds(s)
        PROVE  UNCHANGED hung
    BY <1>5 DEF CopySet, CopyMax, SendEnds
  <1> QED
    BY <1>1, <1>2, <1>3, <1>4, <1>5 DEF Next

LEMMA SockStays ==
  ASSUME TypeOK, [Next]_vars, NEW fd \in Fds, NEW c \in Conns, sock[fd] = c
  PROVE  sock'[fd] = c \/ client'[c] = "closed"
PROOF
  <1> USE TypeParts, TcpServerAssumption DEF TypeServer, TypeClients, Conns, None, netVars
  <1>1. CASE UNCHANGED sock
    BY <1>1
  <1>2. CASE Accept
    BY <1>2 DEF Accept, Free
  <1>3. CASE Shut \/ StopClose
    BY <1>3 DEF Shut, StopClose, CloseFd
  <1>4. ASSUME UNCHANGED vars \/ Start \/ Select \/ Add \/ AddMax \/ Clear \/ Die
               \/ (\E f \in Fds : Recv(f)) \/ StopCancel \/ StopFree \/ Clients
        PROVE  UNCHANGED sock
    BY <1>4 DEF vars, Start, Select, Add, AddMax, Clear, Die, Recv,
                StopCancel, StopFree, Clients, Connect, ClientSend, HangUp
  <1>5. ASSUME NEW s \in Senders, CopySet(s) \/ CopyMax(s) \/ SendNext(s) \/ SendEnds(s)
        PROVE  UNCHANGED sock
    BY <1>5 DEF CopySet, CopyMax, SendNext, SendEnds
  <1> QED
    BY <1>1, <1>2, <1>3, <1>4, <1>5 DEF Next

LEMMA GotSteps ==
  ASSUME [Next]_vars
  PROVE  UNCHANGED got \/ \E s \in Senders : SendNext(s)
PROOF
  <1> USE DEF netVars
  <1>1. ASSUME UNCHANGED vars \/ Start \/ Select \/ Accept \/ Add \/ AddMax \/ Shut \/ Clear \/ Die
               \/ (\E fd \in Fds : Recv(fd)) \/ StopCancel \/ StopClose \/ StopFree \/ Clients
        PROVE  UNCHANGED got
    BY <1>1 DEF vars, Start, Select, Accept, Add, AddMax, Shut, Clear, Die, Recv,
                StopCancel, StopClose, StopFree, Clients, Connect, ClientSend, HangUp
  <1>2. ASSUME NEW s \in Senders, CopySet(s) \/ CopyMax(s) \/ SendEnds(s)
        PROVE  UNCHANGED got
    BY <1>2 DEF CopySet, CopyMax, SendEnds
  <1> QED
    BY <1>1, <1>2 DEF Next

LEMMA GotStays ==
  ASSUME TypeOK, Underway, [Next]_vars, NEW c \in Conns, NEW i \in DOMAIN got[c]
  PROVE  i \in DOMAIN got'[c] /\ got'[c][i] = got[c][i]
PROOF
  <1> USE TypeParts DEF TypeGot
  <1>1. CASE UNCHANGED got
    BY <1>1
  <1>2. ASSUME NEW s \in Senders, SendNext(s)
        PROVE  i \in DOMAIN got'[c] /\ got'[c][i] = got[c][i]
    <2> DEFINE packet == [from |-> s, num |-> snd[s].num]
    <2>0. packet \in [from : Senders, num : 1 .. MaxSent]
      BY <1>2, PacketType
    <2>1. UNCHANGED got \/ \E d \in Conns : got' = [got EXCEPT ![d] = Append(@, packet)]
      BY <1>2, SendNextSends DEF SendsTo
    <2> HIDE DEF packet
    <2>2. got[c] \in Seq([from : Senders, num : 1 .. MaxSent])
      OBVIOUS
    <2>3. i \in 1 .. Len(got[c]) /\ Len(got[c]) \in Nat
      BY <2>2, LenProperties
    <2>4. Append(got[c], packet) \in Seq([from : Senders, num : 1 .. MaxSent])
          /\ Len(Append(got[c], packet)) = Len(got[c]) + 1 /\ Append(got[c], packet)[i] = got[c][i]
      BY <2>0, <2>2, <2>3, AppendProperties
    <2>5. i \in DOMAIN Append(got[c], packet)
      BY <2>3, <2>4, LenProperties
    <2> QED
      BY <2>1, <2>4, <2>5
  <1> QED
    BY <1>1, <1>2, GotSteps

LEMMA SndSteps ==
  ASSUME TypeOK, [Next]_vars, NEW s \in Senders
  PROVE  snd'[s] = snd[s] \/ CopySet(s) \/ CopyMax(s) \/ SendNext(s) \/ SendEnds(s)
PROOF
  <1> USE TypeParts DEF TypeSnd
  <1>1. ASSUME UNCHANGED vars \/ Start \/ Select \/ Accept \/ Add \/ AddMax \/ Shut \/ Clear \/ Die
               \/ (\E fd \in Fds : Recv(fd)) \/ StopCancel \/ StopClose \/ StopFree \/ Clients
        PROVE  UNCHANGED snd
    BY <1>1 DEF vars, Start, Select, Accept, Add, AddMax, Shut, Clear, Die, Recv,
                StopCancel, StopClose, StopFree, Clients, Connect, ClientSend, HangUp
  <1>2. ASSUME NEW t \in Senders \ {s}, CopySet(t) \/ CopyMax(t) \/ SendNext(t) \/ SendEnds(t)
        PROVE  snd'[s] = snd[s]
    BY <1>2 DEF CopySet, CopyMax, SendNext, SendEnds
  <1> QED
    BY <1>1, <1>2 DEF Next

(* A copy that is being made is the set, and every client due is in it.    *)
CopyingAll ==
  \A s \in Senders : snd[s].pc = "copy" =>
    /\ snd[s].fds = master
    /\ \A c \in snd[s].due \cap Conns : \E fd \in master : sock[fd] = c

LEMMA CopyingAllStep ==
  ASSUME TypeOK, Underway, Owner, CopyingAll, [Next]_vars
  PROVE  CopyingAll'
PROOF
  <1> SUFFICES ASSUME NEW s \in Senders, snd'[s].pc = "copy"
               PROVE  /\ snd'[s].fds = master'
                      /\ \A c \in snd'[s].due \cap Conns : \E fd \in master' : sock'[fd] = c
    BY DEF CopyingAll
  <1> USE TypeParts, TcpServerAssumption DEF TypeSnd, TypeServer, netVars, setVars
  <1>1. CASE CopySet(s)
    <2>1. snd'[s].fds = master /\ snd'[s].due = Connected /\ UNCHANGED <<master, sock>>
      BY <1>1 DEF CopySet
    <2> QED
      BY <2>1 DEF Connected
  <1>2. CASE CopyMax(s) \/ SendNext(s) \/ SendEnds(s)
    <2>1. ~CopyMax(s)
      BY DEF CopyMax
    <2>2. ASSUME SendNext(s) PROVE FALSE
      <3>1. PICK fd \in Fds : SendsTo(s, fd)
        BY <2>2, SendNextSends
      <3>2. snd'[s].pc = snd[s].pc /\ snd[s].pc = "loop"
        BY <2>2, <3>1, SendNextSends DEF SendsTo
      <3> QED
        BY <3>2
    <2>3. ~SendEnds(s)
      BY DEF SendEnds, Idle
    <2> QED
      BY <1>2, <2>1, <2>2, <2>3
  <1>3. CASE snd'[s] = snd[s]
    <2>1. mutex = s /\ mutex # "free" /\ mutex # "listening" /\ stop.pc = "no"
      BY <1>3 DEF Owner, Underway
    <2>2. UNCHANGED master
      <3>1. ~Add /\ ~Clear
        BY <2>1 DEF Add, Clear, Owner
      <3>2. ASSUME UNCHANGED vars \/ Start \/ Select \/ Accept \/ AddMax \/ Shut \/ Die
                   \/ (\E fd \in Fds : Recv(fd)) \/ StopCancel \/ StopClose \/ StopFree \/ Clients
            PROVE  UNCHANGED master
        BY <3>2 DEF vars, Start, Select, Accept, AddMax, Shut, Die, Recv,
                    StopCancel, StopClose, StopFree, Clients, Connect, ClientSend, HangUp
      <3>3. ASSUME NEW t \in Senders, CopySet(t) \/ CopyMax(t) \/ SendNext(t) \/ SendEnds(t)
            PROVE  UNCHANGED master
        BY <3>3 DEF CopySet, CopyMax, SendNext, SendEnds
      <3> QED
        BY <3>1, <3>2, <3>3 DEF Next
    <2>3. ASSUME NEW fd \in Fds, NEW c \in Conns, sock[fd] = c PROVE sock'[fd] = c
      <3>1. ~Shut /\ ~StopClose
        BY <2>1 DEF Shut, StopClose
      <3>2. CASE Accept
        BY <2>3, <3>2 DEF Accept, Free, Conns, None
      <3>3. ASSUME UNCHANGED vars \/ Start \/ Select \/ Add \/ AddMax \/ Clear \/ Die
                   \/ (\E f \in Fds : Recv(f)) \/ StopCancel \/ StopFree \/ Clients
            PROVE  UNCHANGED sock
        BY <3>3 DEF vars, Start, Select, Add, AddMax, Clear, Die, Recv,
                    StopCancel, StopFree, Clients, Connect, ClientSend, HangUp
      <3>4. ASSUME NEW t \in Senders, CopySet(t) \/ CopyMax(t) \/ SendNext(t) \/ SendEnds(t)
            PROVE  UNCHANGED sock
        BY <3>4 DEF CopySet, CopyMax, SendNext, SendEnds
      <3> QED
        BY <2>3, <3>1, <3>2, <3>3, <3>4 DEF Next
    <2>4. /\ snd[s].fds = master
          /\ \A c \in snd[s].due \cap Conns : \E fd \in master : sock[fd] = c
      BY <1>3 DEF CopyingAll
    <2>5. ASSUME NEW c \in snd[s].due \cap Conns PROVE \E fd \in master : sock'[fd] = c
      <3>1. PICK fd \in master : sock[fd] = c
        BY <2>4
      <3>2. fd \in Fds /\ c \in Conns
        OBVIOUS
      <3> QED
        BY <2>3, <3>1, <3>2
    <2> QED
      BY <1>3, <2>2, <2>4, <2>5
  <1>4. snd'[s] = snd[s] \/ CopySet(s) \/ CopyMax(s) \/ SendNext(s) \/ SendEnds(s)
    BY SndSteps
  <1> QED
    BY <1>1, <1>2, <1>3, <1>4

LEMMA SentToAllStep ==
  ASSUME TypeOK, Underway, Owner, Covered, CopyingAll, SentToAll, [Next]_vars
  PROVE  SentToAll'
PROOF
  <1> DEFINE Goal(s, c) ==
        \/ client[c] = "closed" \/ hung[c] # "no" \/ Has(c, s)
        \/ \E fd \in Todo(s) : sock[fd] = c
  <1> SUFFICES ASSUME NEW s \in Senders, snd'[s].pc = "loop", NEW c \in snd'[s].due \cap Conns
               PROVE  Goal(s, c)'
    BY DEF SentToAll
  <1> USE TypeParts, TcpServerAssumption DEF TypeSnd, TypeServer, netVars, setVars
  <1>1. CASE CopySet(s) \/ SendEnds(s)
    BY <1>1 DEF CopySet, SendEnds, Idle
  <1>2. CASE CopyMax(s)
    <2>1. snd'[s].fds = snd[s].fds /\ snd'[s].max = fdmax /\ snd'[s].due = snd[s].due
          /\ snd[s].pc = "copy" /\ UNCHANGED sock
      BY <1>2 DEF CopyMax, At
    <2>2. PICK fd \in master : sock[fd] = c
      BY <2>1 DEF CopyingAll
    <2>3. fd <= fdmax
      BY <2>1 DEF Owner, Covered
    <2>4. fd \in Todo(s)'
      BY <2>1, <2>3 DEF CopyingAll, Todo
    <2> QED
      BY <2>1, <2>2, <2>4
  <1>3. CASE SendNext(s)
    <2>1. PICK fd \in Fds : SendsTo(s, fd)
      BY <1>3, SendNextSends
    <2>2. snd'[s].fds = snd[s].fds \ {fd} /\ snd'[s].max = snd[s].max /\ snd'[s].due = snd[s].due
          /\ snd'[s].num = snd[s].num /\ UNCHANGED <<sock, client>>
      BY <2>1 DEF SendsTo
    <2>3. snd[s].pc = "loop" /\ Goal(s, c)
      BY <1>3, <2>2, SendNextSends DEF SentToAll
    <2>4. CASE client[c] = "closed" \/ hung[c] # "no"
      BY <2>2, <2>4, HungStays
    <2>5. CASE Has(c, s)
      BY <2>2, <2>5, GotStays DEF Has
    <2>6. ASSUME NEW f \in Todo(s), sock[f] = c, f # fd PROVE Goal(s, c)'
      <3>1. f \in Todo(s)'
        BY <2>2, <2>6 DEF Todo
      <3> QED
        BY <2>2, <2>6, <3>1
    <2>7. CASE sock[fd] = c
      <3>1. CASE hung[c] # "no"
        BY <2>4, <3>1
      <3>2. CASE got' = [got EXCEPT ![c] = Append(@, [from |-> s, num |-> snd[s].num])]
        <4> DEFINE packet == [from |-> s, num |-> snd[s].num]
        <4>1. packet \in [from : Senders, num : 1 .. MaxSent]
          BY <1>3, PacketType
        <4> HIDE DEF packet
        <4>2. got[c] \in Seq([from : Senders, num : 1 .. MaxSent])
          BY DEF TypeGot
        <4>3. Len(got[c]) + 1 \in DOMAIN Append(got[c], packet)
              /\ Append(got[c], packet)[Len(got[c]) + 1] = packet
          BY <4>1, <4>2, AppendProperties, LenProperties
        <4>4. got'[c] = Append(got[c], packet)
          BY <3>2 DEF TypeGot, packet
        <4>5. packet = [from |-> s, num |-> snd'[s].num]
          BY <2>2 DEF packet
        <4>6. Has(c, s)'
          BY <4>3, <4>4, <4>5 DEF Has
        <4> QED
          BY <4>6
      <3> QED
        BY <2>1, <2>7, <3>1, <3>2 DEF SendsTo
    <2> QED
      BY <2>3, <2>4, <2>5, <2>6, <2>7
  <1>4. CASE snd'[s] = snd[s]
    <2>1. Goal(s, c)
      BY <1>4 DEF SentToAll
    <2>2. CASE client[c] = "closed" \/ hung[c] # "no"
      BY <2>2, ClosedStays, HungStays
    <2>3. CASE Has(c, s)
      BY <1>4, <2>3, GotStays DEF Has
    <2>4. ASSUME NEW f \in Todo(s), sock[f] = c PROVE Goal(s, c)'
      <3>1. f \in Todo(s)' /\ f \in Fds
        BY <1>4, <2>4 DEF Todo
      <3>2. sock'[f] = c \/ client'[c] = "closed"
        BY <2>4, <3>1, SockStays
      <3> QED
        BY <3>1, <3>2
    <2> QED
      BY <2>1, <2>2, <2>3, <2>4
  <1> QED
    BY <1>1, <1>2, <1>3, <1>4, SndSteps

(***************************************************************************)
(* The order of the packets.                                               *)
(***************************************************************************)

(* A connection that was not accepted yet got nothing; a sender's packets  *)
(* have numbers up to the actual one, and a client that has that one is    *)
(* not ahead in the copy.                                                  *)
NewGotNothing == \A c \in Conns : client[c] \in {"new", "pending"} => got[c] = << >>

Follows(s, c, num) ==
  /\ num <= snd[s].num
  /\ snd[s].pc = "copy" => num < snd[s].num
  /\ snd[s].pc = "loop" /\ num = snd[s].num => \A fd \in snd[s].fds : sock[fd] # c

Received(s, c, num) == \E i \in DOMAIN got[c] : got[c][i] = [from |-> s, num |-> num]

Numbered ==
  \A s \in Senders, c \in Conns, num \in 1 .. MaxSent :
    Received(s, c, num) => Follows(s, c, num)

Sequenced == NewGotNothing /\ Numbered /\ SentOnceInOrder

LEMMA NewGotNothingStep ==
  ASSUME TypeOK, Sockets, NewGotNothing, [Next]_vars
  PROVE  NewGotNothing'
PROOF
  <1> USE TypeParts, TcpServerAssumption DEF NewGotNothing, TypeClients, TypeGot,
           TypeServer, Conns, None, netVars
  <1>1. ASSUME NEW c \in Conns, client'[c] \in {"new", "pending"} PROVE client[c] \in {"new", "pending"}
    <2>1. CASE UNCHANGED client
      BY <1>1, <2>1
    <2>2. CASE Accept
      BY <1>1, <2>2 DEF Accept, Pending
    <2>3. CASE Shut \/ StopClose
      BY <1>1, <2>3 DEF Shut, StopClose, CloseFd
    <2>4. CASE StopFree
      BY <1>1, <2>4 DEF StopFree
    <2>5. CASE Clients
      BY <1>1, <2>5 DEF Clients, Connect, ClientSend, HangUp
    <2>6. ASSUME UNCHANGED vars \/ Start \/ Select \/ Add \/ AddMax \/ Clear \/ Die
                 \/ (\E fd \in Fds : Recv(fd)) \/ StopCancel
          PROVE  UNCHANGED client
      BY <2>6 DEF vars, Start, Select, Add, AddMax, Clear, Die, Recv, StopCancel
    <2>7. ASSUME NEW s \in Senders, CopySet(s) \/ CopyMax(s) \/ SendNext(s) \/ SendEnds(s)
          PROVE  UNCHANGED client
      BY <2>7 DEF CopySet, CopyMax, SendNext, SendEnds
    <2> QED
      BY <2>1, <2>2, <2>3, <2>4, <2>5, <2>6, <2>7 DEF Next
  <1>2. CASE UNCHANGED got
    BY <1>1, <1>2
  <1>3. ASSUME NEW s \in Senders, SendNext(s) PROVE NewGotNothing'
    <2>1. PICK fd \in Fds : SendsTo(s, fd)
      BY <1>3, SendNextSends
    <2>2. ASSUME NEW c \in Conns, client[c] \in {"new", "pending"} PROVE sock[fd] # c
      <3>1. c # None
        OBVIOUS
      <3> QED
        BY <2>2, <3>1 DEF Sockets
    <2> QED
      BY <1>1, <2>1, <2>2 DEF SendsTo
  <1> QED
    BY <1>2, <1>3, GotSteps

(* A sender goes on: what followed before follows still. *)
LEMMA FollowsStays ==
  ASSUME TypeOK, Sockets, [Next]_vars, NEW s \in Senders, NEW c \in Conns, got[c] # << >>,
         NewGotNothing, NEW num \in Nat, Follows(s, c, num)
  PROVE  Follows(s, c, num)'
PROOF
  <1> USE TypeParts, TcpServerAssumption
      DEF TypeSnd, TypeServer, TypeClients, Conns, None, netVars, setVars
  <1>1. ASSUME NEW fd \in Fds, sock[fd] # c PROVE sock'[fd] # c
    <2>1. CASE UNCHANGED sock
      BY <1>1, <2>1
    <2>2. CASE Accept
      <3>1. c \notin Pending
        BY DEF NewGotNothing, Pending
      <3> QED
        BY <1>1, <2>2, <3>1 DEF Accept
    <2>3. CASE Shut \/ StopClose
      BY <1>1, <2>3 DEF Shut, StopClose, CloseFd
    <2>4. ASSUME UNCHANGED vars \/ Start \/ Select \/ Add \/ AddMax \/ Clear \/ Die
                 \/ (\E f \in Fds : Recv(f)) \/ StopCancel \/ StopFree \/ Clients
          PROVE  UNCHANGED sock
      BY <2>4 DEF vars, Start, Select, Add, AddMax, Clear, Die, Recv,
                  StopCancel, StopFree, Clients, Connect, ClientSend, HangUp
    <2>5. ASSUME NEW t \in Senders, CopySet(t) \/ CopyMax(t) \/ SendNext(t) \/ SendEnds(t)
          PROVE  UNCHANGED sock
      BY <2>5 DEF CopySet, CopyMax, SendNext, SendEnds
    <2> QED
      BY <2>1, <2>2, <2>3, <2>4, <2>5 DEF Next
  <1>2. CASE snd'[s] = snd[s]
    BY <1>1, <1>2 DEF Follows
  <1>3. CASE CopySet(s)
    <2>1. snd'[s].num = snd[s].num + 1 /\ snd'[s].pc = "copy" /\ snd[s].num \in Nat
      BY <1>3 DEF CopySet
    <2> QED
      BY <2>1 DEF Follows
  <1>4. CASE CopyMax(s)
    <2>1. snd'[s].num = snd[s].num /\ snd[s].pc = "copy" /\ snd'[s].pc = "loop" /\ snd[s].num \in Nat
      BY <1>4 DEF CopyMax, At
    <2> QED
      BY <2>1 DEF Follows
  <1>5. CASE SendNext(s)
    <2>1. PICK fd \in Fds : SendsTo(s, fd)
      BY <1>5, SendNextSends
    <2>2. snd'[s].fds = snd[s].fds \ {fd} /\ snd'[s].num = snd[s].num /\ snd[s].pc = "loop"
      BY <1>5, <2>1, SendNextSends DEF SendsTo
    <2>3. snd'[s].pc = "loop" /\ UNCHANGED sock
      BY <2>1, <2>2 DEF SendsTo
    <2>4. \A f \in snd'[s].fds : f \in snd[s].fds
      BY <2>2
    <2> QED
      BY <2>2, <2>3, <2>4 DEF Follows
  <1>6. CASE SendEnds(s)
    <2>1. snd'[s].num = snd[s].num /\ snd'[s].pc = "idle"
      BY <1>6 DEF SendEnds, Idle
    <2> QED
      BY <2>1 DEF Follows
  <1> QED
    BY <1>2, <1>3, <1>4, <1>5, <1>6, SndSteps

LEMMA SequencedStep ==
  ASSUME TypeOK, Underway, Sockets, Sequenced, [Next]_vars
  PROVE  Sequenced'
PROOF
  <1> DEFINE Packets == [from : Senders, num : 1 .. MaxSent]
  <1> USE TypeParts, TcpServerAssumption
  <1>0. \A c \in Conns : got[c] \in Seq(Packets)
    BY DEF TypeGot
  <1>1. NewGotNothing'
    BY NewGotNothingStep DEF Sequenced
  <1>2. ASSUME NEW s \in Senders, NEW c \in Conns, NEW num \in 1 .. MaxSent, Received(s, c, num)
        PROVE  Follows(s, c, num) /\ Follows(s, c, num)'
    <2>1. Follows(s, c, num) /\ num \in Nat
      BY <1>2 DEF Sequenced, Numbered
    <2>2. got[c] # << >>
      BY <1>2 DEF Received
    <2> QED
      BY <2>1, <2>2, FollowsStays DEF Sequenced
  <1>3. ASSUME UNCHANGED got PROVE Numbered' /\ SentOnceInOrder'
    <2>1. Numbered'
      BY <1>2, <1>3 DEF Numbered, Received
    <2>2. SentOnceInOrder'
      BY <1>3 DEF Sequenced, SentOnceInOrder
    <2> QED
      BY <2>1, <2>2
  <1>4. ASSUME NEW t \in Senders, SendNext(t) PROVE Numbered' /\ SentOnceInOrder'
    <2>0. PICK n \in 1 .. MaxSent : n = snd[t].num
      BY <1>4, PacketType
    <2> DEFINE packet == [from |-> t, num |-> n]
    <2>1. PICK fd \in Fds : SendsTo(t, fd)
      BY <1>4, SendNextSends
    <2>2. packet \in Packets
      OBVIOUS
    <2>3. packet.from = t /\ packet.num = n /\ packet = [from |-> t, num |-> snd[t].num]
      BY <2>0
    <2> HIDE DEF packet
    <2>4. CASE UNCHANGED got
      BY <1>3, <2>4
    <2>5. ASSUME NEW d \in Conns, sock[fd] = d, got' = [got EXCEPT ![d] = Append(@, packet)]
          PROVE  Numbered' /\ SentOnceInOrder'
      <3>1. \A c \in Conns \ {d} : got'[c] = got[c]
        BY <2>5 DEF TypeGot
      <3>2. got'[d] = Append(got[d], packet) /\ got[d] \in Seq(Packets)
        BY <2>5 DEF TypeGot
      <3>3. /\ Append(got[d], packet) \in Seq(Packets)
            /\ Len(Append(got[d], packet)) = Len(got[d]) + 1
            /\ \A i \in 1 .. Len(got[d]) : Append(got[d], packet)[i] = got[d][i]
            /\ Append(got[d], packet)[Len(got[d]) + 1] = packet
        BY <2>2, <3>2, AppendProperties
      <3>4. Len(got[d]) \in Nat /\ DOMAIN got[d] = 1 .. Len(got[d])
            /\ DOMAIN got'[d] = 1 .. Len(got[d]) + 1
        BY <3>2, <3>3, LenProperties
      <3>5. Follows(t, d, n)'
        <4>1. snd'[t].num = n /\ snd'[t].pc = "loop" /\ snd'[t].fds = snd[t].fds \ {fd}
              /\ UNCHANGED sock
          BY <1>4, <2>0, <2>1, SendNextSends DEF SendsTo, TypeSnd
        <4>2. \A f \in snd[t].fds \ {fd} : sock[f] # d
          <5>1. d # None /\ snd[t].fds \subseteq Fds
            BY DEF Conns, None, TypeSnd
          <5> QED
            BY <2>5, <5>1 DEF Sockets
        <4> QED
          BY <4>1, <4>2 DEF Follows
      <3>6. Numbered'
        <4> SUFFICES ASSUME NEW s \in Senders, NEW c \in Conns, NEW num \in 1 .. MaxSent,
                            NEW i \in DOMAIN got'[c], got'[c][i] = [from |-> s, num |-> num]
                     PROVE  Follows(s, c, num)'
          BY DEF Numbered, Received
        <4>1. CASE c # d
          BY <1>2, <3>1, <4>1 DEF Received
        <4>2. CASE c = d /\ i \in 1 .. Len(got[d])
          BY <1>2, <3>2, <3>3, <3>4, <4>2 DEF Received
        <4>3. CASE c = d /\ i = Len(got[d]) + 1
          <5>1. s = t /\ num = n
            BY <2>3, <3>2, <3>3, <4>3
          <5> QED
            BY <3>5, <4>3, <5>1
        <4> QED
          BY <3>4, <4>1, <4>2, <4>3
      <3>7. ASSUME NEW i \in DOMAIN got[d], got[d][i].from = t PROVE got[d][i].num < n
        <4>0. got[d][i] \in Packets
          BY <3>2, <3>4, ElementOfSeq
        <4>1. PICK num \in 1 .. MaxSent : got[d][i] = [from |-> t, num |-> num]
          BY <3>7, <4>0
        <4>2. Follows(t, d, num)
          BY <1>2, <4>1 DEF Received
        <4>3. snd[t].pc = "loop" /\ fd \in snd[t].fds
          BY <1>4, <2>1, SendNextSends DEF SendsTo, Todo
        <4> QED
          BY <2>0, <2>5, <4>1, <4>2, <4>3 DEF Follows
      <3>8. SentOnceInOrder'
        <4> SUFFICES ASSUME NEW c \in Conns, NEW i \in DOMAIN got'[c], NEW j \in DOMAIN got'[c],
                            i < j, got'[c][i].from = got'[c][j].from
                     PROVE  got'[c][i].num < got'[c][j].num
          BY DEF SentOnceInOrder
        <4>1. CASE c # d
          BY <3>1, <4>1 DEF Sequenced, SentOnceInOrder
        <4>2. CASE c = d /\ j \in 1 .. Len(got[d])
          <5>1. i \in 1 .. Len(got[d])
            BY <3>4, <4>2
          <5> QED
            BY <3>2, <3>3, <3>4, <4>2, <5>1, ZenonT(90) DEF Sequenced, SentOnceInOrder
        <4>3. CASE c = d /\ j = Len(got[d]) + 1
          <5>1. i \in 1 .. Len(got[d])
            BY <3>4, <4>3
          <5> QED
            BY <2>3, <3>2, <3>3, <3>4, <3>7, <4>3, <5>1
        <4> QED
          BY <3>4, <4>1, <4>2, <4>3
      <3> QED
        BY <3>6, <3>8
    <2> QED
      BY <2>1, <2>3, <2>4, <2>5 DEF SendsTo
  <1> QED
    BY <1>1, <1>3, <1>4, GotSteps DEF Sequenced

(***************************************************************************)
(* The inductive invariant and what it says.                               *)
(***************************************************************************)
Inv ==
  /\ TypeOK /\ Underway /\ Owner /\ Covered
  /\ Sockets /\ SetMatchesSockets /\ StopReaches
  /\ CopyingAll /\ SentToAll /\ Sequenced

LEMMA InvInit == Init => Inv
PROOF
  <1> SUFFICES ASSUME Init PROVE Inv
    OBVIOUS
  <1> USE TcpServerAssumption DEF Init, Conns, None
  <1>1. TypeOK
    BY TypeInit
  <1>2. Underway /\ CopyingAll /\ SentToAll
    BY DEF Underway, CopyingAll, SentToAll, Idle
  <1>3. Owner /\ Covered
    BY DEF Owner, Covered, Idle
  <1>4. Sockets /\ SetMatchesSockets /\ StopReaches
    <2>1. thread.pc = "none" /\ stop.due = {} /\ master = {} /\ \A fd \in Fds : sock[fd] = 0
      OBVIOUS
    <2> QED
      BY <2>1 DEF Sockets, SetMatchesSockets, StopReaches
  <1>5. \A c \in Conns : got[c] = << >> /\ DOMAIN got[c] = {}
    OBVIOUS
  <1>6. Sequenced
    BY <1>5 DEF Sequenced, NewGotNothing, Numbered, Received, SentOnceInOrder
  <1> QED
    BY <1>1, <1>2, <1>3, <1>4, <1>6 DEF Inv

LEMMA InvStep == Inv /\ [Next]_vars => Inv'
PROOF
  <1> SUFFICES ASSUME Inv, [Next]_vars PROVE Inv'
    OBVIOUS
  <1> USE DEF Inv
  <1>1. TypeOK'
    BY TypeServerStep, TypeThreadStep, TypeSndStep, TypeStopStep, TypeClientsStep,
       TypeGotStep
    DEF TypeOK, TypeServer, TypeThread, TypeSnd, TypeStop, TypeClients, TypeGot
  <1>2. Underway' /\ Owner' /\ Covered'
    BY UnderwayStep, OwnerStep, CoveredStep
  <1>3. Sockets' /\ SetMatchesSockets' /\ StopReaches'
    BY SocketsStep, SetMatchesSocketsStep, StopReachesStep
  <1>4. CopyingAll' /\ SentToAll' /\ Sequenced'
    BY CopyingAllStep, SentToAllStep, SequencedStep
  <1> QED
    BY <1>1, <1>2, <1>3, <1>4

LEMMA Invariant == Spec => []Inv
PROOF
  BY InvInit, InvStep, PTL DEF Spec

(* Every variable of the server keeps its type: the listening thread works *)
(* on descriptors of the system, and packets that went out have a sender   *)
(* and a number.                                                           *)
THEOREM ServerTypeCorrect == Spec => []TypeOK
PROOF
  <1>1. Inv => TypeOK
    BY DEF Inv
  <1> QED
    BY <1>1, Invariant, PTL

(* The server knows its connections: the set matches the sockets until the *)
(* stop, fdmax covers the set for whoever takes the mutex, and a stop that *)
(* comes to its end has closed every connection that was in the set.       *)
THEOREM ServerKeepsConnections == Spec => []ConnectionsKept
PROOF
  <1>1. Inv => ConnectionsKept
    <2> SUFFICES ASSUME Inv PROVE ConnectionsKept
      OBVIOUS
    <2>1. MaxCoversSet
      BY DEF Inv, Covered, MaxCoversSet
    <2>2. StopCloses
      BY DEF Inv, StopReaches, StopCloses
    <2> QED
      BY <2>1, <2>2 DEF Inv, ConnectionsKept
  <1> QED
    BY <1>1, Invariant, PTL

(* A packet goes to every client that is connected from before the send    *)
(* until after it, to none twice, and in the order of its sender, although *)
(* descriptors are closed and given out again while it is sent.            *)
THEOREM PacketsSentOnceToAll == Spec => []SentOnceToAll
PROOF
  <1>1. Inv => SentOnceToAll
    BY DEF Inv, Sequenced, SentOnceToAll
  <1> QED
    BY <1>1, Invariant, PTL
===============================================================================
