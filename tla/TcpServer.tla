------------------------------- MODULE TcpServer -------------------------------
(***************************************************************************)
(* The TCP/IP server of src/Sources/CANIPC/tcp_server_p.c: a listening     *)
(* thread that accepts, serves and closes connections, application threads *)
(* that send to all clients, and the call that stops the server, over      *)
(* sockets whose descriptors the system gives out again.                   *)
(*                                                                         *)
(* A step that takes the mutex is one with the first access under it, the  *)
(* last access one with its release.  What is in the packets is the matter *)
(* of CanPort;   logging and the packet statistics it prints are left out. *)
(***************************************************************************)
EXTENDS Naturals, Sequences, FiniteSets

CONSTANTS
  MaxConns,   \* bound of the connections clients make
  Fds,        \* the descriptors the system has for accepted connections
  Listener,   \* the descriptor of the listening socket, below them
  Senders,    \* application threads that send
  MaxSent     \* bound of the packets each of them sends

ASSUME TcpServerAssumption ==
  /\ Listener \in Nat /\ Fds \subseteq Nat
  /\ \A fd \in Fds : Listener < fd
  /\ MaxConns \in Nat /\ MaxSent \in Nat
  /\ "free" \notin Senders /\ "listening" \notin Senders

(* The connections are numbered as they come; 0 is none. *)
Conns == 1 .. MaxConns
None  == 0

VARIABLES
  srv,      \* the server descriptor: none, live, freed
  prog,     \* the program: runs, killed by SIGPIPE, aborted by an assertion
  sock,     \* the system: the connection behind each open descriptor
  master,   \* the descriptors of the clients in the master set
  fdmax,    \* the greatest descriptor ever in it
  mutex,    \* its owner
  thread,   \* the listening thread: place, descriptor in hand, read_fds
  snd,      \* of each sender: place, write_fds, fdmax, packet, and who was in the set
  stop,     \* tcp_server_stop: no, closing from a descriptor on, done; who was in the set
  client,   \* of each connection: new, pending, open, closed by the server
  hung,     \* whether and how its client has gone
  inbox,    \* whether something of it waits to be received
  got       \* history: the packets that went to the client

netVars == <<client, hung, inbox, got>>
setVars == <<master, fdmax, mutex>>
vars == <<srv, prog, sock, setVars, thread, snd, stop, netVars>>

Live == srv = "live" /\ prog = "run"

Free == {fd \in Fds : sock[fd] = None}

MinOf(S) == CHOOSE x \in S : \A y \in S : x <= y

Pending == {c \in Conns : client[c] = "pending"}

Idle == [pc |-> "idle", fds |-> {}, max |-> 0, num |-> 0, due |-> {}]

Init ==
  /\ srv = "none" /\ prog = "run"
  /\ sock = [fd \in Fds |-> None]
  /\ master = {} /\ fdmax = Listener /\ mutex = "free"
  /\ thread = [pc |-> "none", fd |-> Listener, ready |-> {}]
  /\ snd = [s \in Senders |-> Idle]
  /\ stop = [pc |-> "no", from |-> 0, due |-> {}]
  /\ client = [c \in Conns |-> "new"]
  /\ hung = [c \in Conns |-> "no"]
  /\ inbox = [c \in Conns |-> FALSE]
  /\ got = [c \in Conns |-> <<>>]

(* tcp_server_start succeeds; a start that fails gives no descriptor.  The *)
(* listener is in the master set as long as the server lives, and is left  *)
(* out of the model's set.                                                 *)
Start ==
  /\ srv = "none"
  /\ srv' = "live"
  /\ thread' = [thread EXCEPT !.pc = "scan"]
  /\ UNCHANGED <<prog, sock, setVars, snd, stop, netVars>>
-------------------------------------------------------------------------------
(* The listening thread.                                                   *)
Go(place, fd) == thread' = [thread EXCEPT !.pc = place, !.fd = fd]

Readable(fd) ==
  IF fd = Listener THEN Pending # {}
  ELSE sock[fd] # None /\ (inbox[sock[fd]] \/ hung[sock[fd]] # "no")

(* The loop over the descriptors that are ready ends; select waits until   *)
(* one of the master set is.                                               *)
Select ==
  /\ Live /\ thread.pc = "scan" /\ thread.ready = {}
  /\ \E fd \in master \cup {Listener} : Readable(fd)
  /\ thread' = [thread EXCEPT !.ready = {fd \in master \cup {Listener} : Readable(fd)}]
  /\ UNCHANGED <<srv, prog, sock, setVars, snd, stop, netVars>>

(* The loop over the descriptors takes the next one that is ready. *)
Serves(fd) ==
  /\ Live /\ thread.pc = "scan"
  /\ thread.ready # {} /\ fd = MinOf(thread.ready)

Served(place, fd) ==
  thread' = [pc |-> place, fd |-> fd, ready |-> thread.ready \ {MinOf(thread.ready)}]

(* accept gives a descriptor that is free; without one it fails.  A        *)
(* connection whose TCP_NODELAY option fails is closed.                    *)
Accept ==
  /\ Serves(Listener)
  /\ \/ /\ Free = {}
        /\ Served("scan", Listener)
        /\ UNCHANGED <<sock, client>>
     \/ \E c \in Pending, fd \in Free :
          \/ /\ sock' = [sock EXCEPT ![fd] = c]
             /\ client' = [client EXCEPT ![c] = "open"]
             /\ Served("add", fd)
          \/ /\ client' = [client EXCEPT ![c] = "closed"]
             /\ Served("scan", Listener)
             /\ UNCHANGED sock
  /\ UNCHANGED <<srv, prog, setVars, snd, stop, hung, inbox, got>>

(* The new connection joins the set, then fdmax follows. *)
Add ==
  /\ Live /\ thread.pc = "add"
  /\ mutex = "free" /\ mutex' = "listening"
  /\ master' = master \cup {thread.fd}
  /\ Go("max", thread.fd)
  /\ UNCHANGED <<srv, prog, sock, fdmax, snd, stop, netVars>>

AddMax ==
  /\ Live /\ thread.pc = "max"
  /\ fdmax' = IF thread.fd > fdmax THEN thread.fd ELSE fdmax
  /\ mutex' = "free"
  /\ Go("scan", Listener)
  /\ UNCHANGED <<srv, prog, sock, master, snd, stop, netVars>>

(* recv gives what has arrived, for the callback.  At the end of the       *)
(* stream, or on an error, the connection is closed.                       *)
Recv(fd) ==
  /\ fd \in Fds /\ Serves(fd)
  /\ LET c == sock[fd]
     IN  \/ /\ c # None /\ hung[c] # "reset" /\ inbox[c]
            /\ inbox' = [inbox EXCEPT ![c] = FALSE]
            /\ Served("scan", Listener)
         \/ /\ c # None => hung[c] = "reset" \/ (hung[c] = "fin" /\ ~inbox[c])
            /\ Served("shut", fd)
            /\ UNCHANGED inbox
  /\ UNCHANGED <<srv, prog, sock, setVars, snd, stop, client, hung, got>>

CloseFd(fd) ==
  /\ sock' = [sock EXCEPT ![fd] = None]
  /\ client' = [c \in Conns |-> IF c = sock[fd] THEN "closed" ELSE client[c]]

(* The connection is closed, then it leaves the set. *)
Shut ==
  /\ Live /\ thread.pc = "shut"
  /\ mutex = "free" /\ mutex' = "listening"
  /\ CloseFd(thread.fd)
  /\ Go("clear", thread.fd)
  /\ UNCHANGED <<srv, prog, master, fdmax, snd, stop, hung, inbox, got>>

(* Mutant: the descriptor stays in the set. *)
Clear_kept ==
  /\ Live /\ thread.pc = "clear"
  /\ mutex' = "free"
  /\ Go("scan", Listener)
  /\ UNCHANGED <<srv, prog, sock, master, fdmax, snd, stop, netVars>>

Clear ==
  /\ Live /\ thread.pc = "clear"
  /\ master' = master \ {thread.fd}
  /\ mutex' = "free"
  /\ Go("scan", Listener)
  /\ UNCHANGED <<srv, prog, sock, fdmax, snd, stop, netVars>>

(* The cancellation is asynchronous: it takes effect at any later step,    *)
(* and a mutex the thread holds stays locked.                              *)
Die ==
  /\ stop.pc # "no" /\ thread.pc # "dead"
  /\ Go("dead", thread.fd)
  /\ UNCHANGED <<srv, prog, sock, setVars, snd, stop, netVars>>

Listening ==
  \/ Select \/ Accept \/ Add \/ AddMax \/ Shut \/ Clear
  \/ \E fd \in Fds : Recv(fd)
-------------------------------------------------------------------------------
(* tcp_server_send of thread s: the set and fdmax are copied under the     *)
(* mutex, the sends come after it.                                         *)
At(s, place) == Live /\ snd[s].pc = place

Connected == {sock[fd] : fd \in master}

CopySet(s) ==
  /\ At(s, "idle") /\ stop.pc = "no" /\ snd[s].num < MaxSent
  /\ mutex = "free" /\ mutex' = s
  /\ snd' = [snd EXCEPT ![s] = [pc |-> "copy", fds |-> master, max |-> 0,
                                num |-> @.num + 1, due |-> Connected]]
  /\ UNCHANGED <<srv, prog, sock, master, fdmax, thread, stop, netVars>>

(* Mutant: the mutex is held until all is sent. *)
CopyMax_holds(s) ==
  /\ At(s, "copy")
  /\ snd' = [snd EXCEPT ![s].pc = "loop", ![s].max = fdmax]
  /\ UNCHANGED <<srv, prog, sock, setVars, thread, stop, netVars>>

CopyMax(s) ==
  /\ At(s, "copy")
  /\ mutex' = "free"
  /\ snd' = [snd EXCEPT ![s].pc = "loop", ![s].max = fdmax]
  /\ UNCHANGED <<srv, prog, sock, master, fdmax, thread, stop, netVars>>

(* Mutant: the loop ends before the last descriptor. *)
Todo_short(s) == {fd \in snd[s].fds : fd < snd[s].max}

Todo(s) == {fd \in snd[s].fds : fd <= snd[s].max}

After(s, fd) == snd[s].fds \ {fd}

(* send to the next descriptor: it waits as long as the client does not    *)
(* read; a closed descriptor is skipped; what goes to a client that has    *)
(* gone makes its side reset the connection, and the next send to it fails *)
(* or raises SIGPIPE, which nothing in the program blocks or ignores.      *)
SendNext(s) ==
  /\ At(s, "loop") /\ Todo(s) # {}
  /\ LET fd == MinOf(Todo(s))
         c  == sock[fd]
     IN  /\ snd' = [snd EXCEPT ![s].fds = After(s, fd)]
         /\ \/ c = None /\ UNCHANGED <<prog, got, hung>>
            \/ /\ c # None /\ hung[c] = "no"
               /\ got' = [got EXCEPT ![c] = Append(@, [from |-> s, num |-> snd[s].num])]
               /\ UNCHANGED <<prog, hung>>
            \/ /\ c # None /\ hung[c] = "fin"
               /\ hung' = [hung EXCEPT ![c] = "reset"]
               /\ UNCHANGED <<prog, got>>
            \/ /\ c # None /\ hung[c] = "reset"
               /\ prog' \in {"run", "killed"}
               /\ UNCHANGED <<got, hung>>
  /\ UNCHANGED <<srv, sock, setVars, thread, stop, client, inbox>>

SendEnds(s) ==
  /\ At(s, "loop") /\ Todo(s) = {}
  /\ snd' = [snd EXCEPT ![s] = [Idle EXCEPT !.num = snd[s].num]]
  /\ UNCHANGED <<srv, prog, sock, setVars, thread, stop, netVars>>

Sending(s) == CopySet(s) \/ CopyMax(s) \/ SendNext(s) \/ SendEnds(s)
-------------------------------------------------------------------------------
(* tcp_server_stop, called when nobody sends: the thread is cancelled, but *)
(* not waited for; then the connections of the set are closed, without the *)
(* mutex.  (pthread_cancel fails only for a thread that has ended; this    *)
(* one never ends by itself.)                                              *)
StopCancel ==
  /\ Live /\ stop.pc = "no"
  /\ \A s \in Senders : snd[s].pc = "idle"
  /\ stop' = [pc |-> "closing", from |-> 0, due |-> Connected]
  /\ UNCHANGED <<srv, prog, sock, setVars, thread, snd, netVars>>

Remaining == {fd \in master : stop.from <= fd /\ fd <= fdmax}

StopClose ==
  /\ Live /\ stop.pc = "closing" /\ Remaining # {}
  /\ LET fd == MinOf(Remaining)
     IN  CloseFd(fd) /\ stop' = [stop EXCEPT !.from = fd + 1]
  /\ UNCHANGED <<srv, prog, setVars, thread, snd, hung, inbox, got>>

(* A locked mutex cannot be destroyed, and the assertion ends the program. *)
(* Otherwise the descriptor is freed and the listener closed.              *)
StopFree ==
  /\ Live /\ stop.pc = "closing" /\ Remaining = {}
  /\ \/ mutex # "free" /\ prog' = "aborted" /\ UNCHANGED <<srv, stop, client>>
     \/ /\ mutex = "free"
        /\ srv' = "freed" /\ stop' = [stop EXCEPT !.pc = "done"]
        /\ client' = [c \in Conns |-> IF c \in Pending THEN "closed" ELSE client[c]]
        /\ UNCHANGED prog
  /\ UNCHANGED <<sock, setVars, thread, snd, hung, inbox, got>>
-------------------------------------------------------------------------------
(* The clients.                                                            *)
Connect(c) ==
  /\ Live /\ client[c] = "new" /\ \A d \in 1 .. c - 1 : client[d] # "new"
  /\ client' = [client EXCEPT ![c] = "pending"]
  /\ UNCHANGED <<srv, prog, sock, setVars, thread, snd, stop, hung, inbox, got>>

Present(c) == Live /\ client[c] \in {"pending", "open"} /\ hung[c] = "no"

ClientSend(c) ==
  /\ Present(c) /\ ~inbox[c]
  /\ inbox' = [inbox EXCEPT ![c] = TRUE]
  /\ UNCHANGED <<srv, prog, sock, setVars, thread, snd, stop, client, hung, got>>

HangUp(c, how) ==
  /\ Present(c)
  /\ hung' = [hung EXCEPT ![c] = how]
  /\ UNCHANGED <<srv, prog, sock, setVars, thread, snd, stop, client, inbox, got>>

Clients == \E c \in Conns :
  Connect(c) \/ ClientSend(c) \/ HangUp(c, "fin") \/ HangUp(c, "reset")

Next ==
  \/ Start
  \/ Select \/ Accept \/ Add \/ AddMax \/ Shut \/ Clear \/ Die
  \/ \E fd \in Fds : Recv(fd)
  \/ \E s \in Senders : CopySet(s) \/ CopyMax(s) \/ SendNext(s) \/ SendEnds(s)
  \/ StopCancel \/ StopClose \/ StopFree
  \/ Clients

(* The listening thread is scheduled, and a thread gives the mutex back.   *)
(* Nothing says that a send returns: its client may not read.              *)
Spec ==
  /\ Init /\ [][Next]_vars
  /\ WF_vars(Listening)
  /\ \A s \in Senders : WF_vars(CopyMax(s))
-------------------------------------------------------------------------------
Place == {"none", "scan", "add", "max", "shut", "clear", "dead"}

TypeOK ==
  /\ srv \in {"none", "live", "freed"} /\ prog \in {"run", "killed", "aborted"}
  /\ sock \in [Fds -> Conns \cup {None}]
  /\ master \subseteq Fds /\ fdmax \in Fds \cup {Listener}
  /\ mutex \in {"free", "listening"} \cup Senders
  /\ thread \in [pc : Place, fd : Fds \cup {Listener}, ready : SUBSET (Fds \cup {Listener})]
  /\ thread.pc \in {"add", "max", "shut", "clear"} => thread.fd \in Fds
  /\ snd \in [Senders -> [pc : {"idle", "copy", "loop"}, fds : SUBSET Fds,
                          max : Fds \cup {Listener, 0}, num : 0 .. MaxSent,
                          due : SUBSET (Conns \cup {None})]]
  /\ stop \in [pc : {"no", "closing", "done"}, from : Nat, due : SUBSET (Conns \cup {None})]
  /\ client \in [Conns -> {"new", "pending", "open", "closed"}]
  /\ hung \in [Conns -> {"no", "fin", "reset"}]
  /\ inbox \in [Conns -> BOOLEAN]
  /\ got \in [Conns -> Seq([from : Senders, num : 1 .. MaxSent])]

(* Until the server is stopped the master set and the system agree: each   *)
(* descriptor of the set is that of an open connection, and the only open  *)
(* one outside it is the one just accepted; while somebody changes the set *)
(* nobody else looks at it.                                                *)
SetMatchesSockets ==
  stop.pc = "no" =>
    {fd \in Fds : sock[fd] # None} =
      (master \cup IF thread.pc = "add" THEN {thread.fd} ELSE {})
        \ IF thread.pc = "clear" THEN {thread.fd} ELSE {}

(* Whoever takes the mutex finds an fdmax that covers the set, so that no  *)
(* client is left out of a copy, nor open after a stop.                    *)
MaxCoversSet == mutex = "free" => \A fd \in master : fd <= fdmax

Has(c, s) == \E i \in DOMAIN got[c] : got[c][i] = [from |-> s, num |-> snd[s].num]

(* A packet goes to every client that is connected from before the send    *)
(* until after it, whoever else comes and goes in between and whichever    *)
(* descriptor they get.                                                    *)
SentToAll ==
  \A s \in Senders : snd[s].pc = "loop" =>
    \A c \in snd[s].due \cap Conns :
      \/ client[c] = "closed" \/ hung[c] # "no" \/ Has(c, s)
      \/ \E fd \in Todo(s) : sock[fd] = c

(* No client gets a packet twice or packets of one sender out of order.    *)
SentOnceInOrder ==
  \A c \in Conns : \A i, j \in DOMAIN got[c] :
    i < j /\ got[c][i].from = got[c][j].from => got[c][i].num < got[c][j].num

(* A stop leaves no connection open that was in the set when it began,     *)
(* whatever the thread, cancelled and not waited for, still does beside it.*)
StopCloses == stop.pc = "done" => \A c \in stop.due \cap Conns : client[c] = "closed"

(* The server knows its connections from the first to the last: the        *)
(* parts above.                                                            *)
ConnectionsKept == TypeOK /\ SetMatchesSockets /\ MaxCoversSet /\ StopCloses

(* Each packet goes to all clients, once and in order. *)
SentOnceToAll == SentToAll /\ SentOnceInOrder

(* A client that connects is accepted, unless the server ends or has no    *)
(* descriptor left; a sender that waits for a client that does not read    *)
(* does not keep it waiting.                                               *)
NewAccepted ==
  \A c \in Conns :
    client[c] = "pending" ~> client[c] # "pending" \/ Free = {} \/ stop.pc # "no" \/ prog # "run"

(* The connection of a client that has gone is closed, unless the server   *)
(* ends first.                                                             *)
GoneClosed ==
  \A c \in Conns :
    (hung[c] # "no" /\ client[c] = "open") ~> client[c] = "closed" \/ stop.pc # "no" \/ prog # "run"

(* Clients are served however long one of them does not read. *)
ClientsServed == NewAccepted /\ GoneClosed

(* tcp_server_p.c:360: 'wait for the listening thread to terminate': the   *)
(* server is not freed before.                                             *)
FreedAfterThread == srv = "freed" => thread.pc = "dead"
===============================================================================
