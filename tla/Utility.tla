------------------------------- MODULE Utility -------------------------------
(***************************************************************************)
(* The life of a utility program: main of can_moni, can_test, can_send and *)
(* can_port, which share their steps and differ in the course they take,   *)
(* and the list of channels that it walks through (lib_parameter of        *)
(* src/Sources/Wrapper/can_api.c behind GetFirstChannel and GetNextChannel *)
(* of src/Sources/PeakCAN.cpp).                                            *)
(* What the command line says is chosen when main looks at it.             *)
(***************************************************************************)
EXTENDS Integers, Sequences

CONSTANTS
  Programs,     \* the programs that run
  NumChannels,  \* length of the channel list can_boards
  Lists,        \* Lists[p]: the lists that the command line may ask for
  Wanted        \* Wanted[p]: index of the interface named, NumChannels for no such name

ASSUME NumChannelsAssumption == NumChannels \in Nat
ASSUME WantedAssumption == Wanted \in [Programs -> 0..NumChannels]

VARIABLES
  tool,      \* which program it is
  pc,        \* where main is; the job has places of its own
  idx_board, \* index of the actual entry in the channel list, -1 before the first
  iter,      \* result of GetFirstChannel or GetNextChannel, "none" outside a walk
  listed,    \* entries that the walk has come by
  fExit,     \* a list was asked for: leave after the lists
  chan,      \* the channel: "closed", "open" (stopped) or "on"
  retVal,    \* "OK" or "error"
  running    \* flag cleared by the signal handler

mainVars == <<tool, pc, idx_board, iter, listed, fExit, chan, retVal, running>>

-------------------------------------------------------------------------------
(* The course of each program through its main: what the command line may  *)
(* ask for before the channel is opened, the way to a running controller,  *)
(* and the job with what follows it.                                       *)

test_lists == <<"json", "list", "test", "leave">>
test_setup == <<"find", "init", "filter", "start", "trace">>
test_end   == <<"job", "teardown">>

send_lists == <<"json", "list", "test", "leave">>
send_setup == <<"find", "init", "filter", "start", "trace">>
send_end   == <<"job", "teardown">>

moni_lists == <<"json", "list", "test", "leave", "exclude">>
moni_setup == <<"find", "init", "filter", "start", "trace">>
moni_end   == <<"job", "teardown">>

port_lists == <<"json", "list", "test", "leave">>
port_setup == <<"find", "init", "filter", "start", "trace">>

(* Mutant: the server runs before anybody has accepted the risks. *)
port_end_early == <<"server", "risks", "job", "abort", "stop", "teardown">>

port_end   == <<"risks", "server", "job", "abort", "stop", "teardown">>

(* can_simu has a server and no channel. *)
simu_course == <<"risks", "server", "job", "abort", "stop", "exit">>

Course ==
  [test |-> test_lists \o test_setup \o test_end,
   send |-> send_lists \o send_setup \o send_end,
   moni |-> moni_lists \o moni_setup \o moni_end,
   port |-> port_lists \o port_setup \o port_end,
   simu |-> simu_course]

Places(t) == {Course[t][i] : i \in DOMAIN Course[t]}

After(t, place) ==
  LET i == CHOOSE i \in DOMAIN Course[t] : Course[t][i] = place IN Course[t][i + 1]

Main ==
  /\ pc = [p \in Programs |-> Head(Course[tool[p]])]
  /\ idx_board = [p \in Programs |-> -1]
  /\ iter = [p \in Programs |-> "none"]
  /\ listed = [p \in Programs |-> <<>>]
  /\ fExit = [p \in Programs |-> FALSE]
  /\ chan = [p \in Programs |-> "closed"]
  /\ retVal = [p \in Programs |-> "error"]
  /\ running = [p \in Programs |-> TRUE]

Goto(p, place) == pc' = [pc EXCEPT ![p] = place]

GoOn(p) == Goto(p, After(tool[p], pc[p]))

Step(p, from, to) == pc[p] = from /\ Goto(p, to)

walkVars == <<idx_board, iter, listed>>
-------------------------------------------------------------------------------
(* Mutant: the search goes on from the entry of the last walk. *)
FirstIndex_kept(i) == IF i < 0 THEN 0 ELSE i

(* CANPROP_SET_FIRST_CHANNEL and CANPROP_SET_NEXT_CHANNEL: the index, and  *)
(* whether there is an entry at it.                                        *)
FirstIndex(i) == 0

NextIndex(i) == IF 0 <= i /\ i < NumChannels THEN i + 1 ELSE i

Entry(i) == 0 <= i /\ i < NumChannels

MoveTo(p, i) ==
  /\ idx_board' = [idx_board EXCEPT ![p] = i]
  /\ iter' = [iter EXCEPT ![p] = IF Entry(i) THEN "more" ELSE "end"]

GetFirstChannel(p) ==
  /\ iter[p] = "none"
  /\ MoveTo(p, FirstIndex(idx_board[p]))
  /\ listed' = [listed EXCEPT ![p] = <<>>]

GetNextChannel(p) ==
  /\ iter[p] = "more"
  /\ MoveTo(p, NextIndex(idx_board[p]))
  /\ listed' = [listed EXCEPT ![p] = Append(@, idx_board[p])]

EndWalk(p) == iter' = [iter EXCEPT ![p] = "none"] /\ UNCHANGED <<idx_board, listed>>

(* WriteJsonFile, ListCanDevices, TestCanDevices: a walk the command line  *)
(* may ask for.  The channels are probed without being opened.             *)
List(p) ==
  /\ pc[p] \in {"json", "list", "test"}
  /\ \/ iter[p] = "none" /\ GoOn(p) /\ UNCHANGED <<walkVars, fExit>>
     \/ /\ pc[p] \in Lists[p]
        /\ GetFirstChannel(p) \/ GetNextChannel(p)
        /\ fExit' = [fExit EXCEPT ![p] = TRUE]
        /\ UNCHANGED pc
     \/ iter[p] = "end" /\ EndWalk(p) /\ GoOn(p) /\ UNCHANGED fExit
  /\ UNCHANGED <<tool, chan, retVal, running>>

Result(p, code, place) == Goto(p, place) /\ retVal' = [retVal EXCEPT ![p] = code]

Done(p) == Result(p, "OK", After(tool[p], pc[p]))

Return(p, code) == Result(p, code, "exit")

(* The JSON file could not be written, or nothing but lists was asked for. *)
Leave(p) ==
  /\ \/ pc[p] = "json" /\ "json" \in Lists[p] /\ iter[p] # "more" /\ Return(p, "error")
     \/ pc[p] = "leave" /\ fExit[p] /\ Return(p, "OK")
     \/ pc[p] = "leave" /\ ~fExit[p] /\ GoOn(p) /\ UNCHANGED retVal
  /\ UNCHANGED <<tool, walkVars, fExit, chan, running>>

(* The search for the interface by its name breaks off where it finds it.  *)
Find(p) ==
  /\ pc[p] = "find"
  /\ \/ GetFirstChannel(p) /\ UNCHANGED <<pc, retVal>>
     \/ iter[p] = "more" /\ idx_board[p] # Wanted[p] /\ GetNextChannel(p) /\ UNCHANGED <<pc, retVal>>
     \/ iter[p] = "more" /\ idx_board[p] = Wanted[p] /\ EndWalk(p) /\ GoOn(p) /\ UNCHANGED retVal
     \/ iter[p] = "end" /\ EndWalk(p) /\ Return(p, "error")
  /\ UNCHANGED <<tool, fExit, chan, running>>
-------------------------------------------------------------------------------
Channel(p, state) == chan' = [chan EXCEPT ![p] = state]

InitializeChannel(p) ==
  /\ pc[p] = "init"
  /\ \/ Result(p, "error", "exit") /\ UNCHANGED chan
     \/ Done(p) /\ Channel(p, "open")
  /\ UNCHANGED <<tool, walkVars, fExit, running>>

(* The two acceptance filters, each only if it was asked for. *)
SetFilter(p) ==
  /\ pc[p] = "filter"
  /\ Result(p, "error", "teardown") \/ Done(p)
  /\ UNCHANGED <<tool, walkVars, fExit, chan, running>>

StartController(p) ==
  /\ pc[p] = "start"
  /\ \/ Result(p, "error", "teardown") /\ UNCHANGED chan
     \/ Done(p) /\ Channel(p, "on")
  /\ UNCHANGED <<tool, walkVars, fExit, running>>

(* A trace session, only if it was asked for, in builds with
   CAN_TRACE_SUPPORTED. *)
StartTrace(p) ==
  /\ pc[p] = "trace"
  /\ Result(p, "error", "teardown") \/ Done(p)
  /\ UNCHANGED <<tool, walkVars, fExit, chan, running>>

(* The result of the teardown is that of the program, whatever came before *)
(* it.  After main the destructor of canDevice tries again what failed.    *)
TeardownChannel(p) ==
  /\ pc[p] = "teardown"
  /\ \/ Return(p, "error") /\ (UNCHANGED chan \/ Channel(p, "closed"))
     \/ Return(p, "OK") /\ Channel(p, "closed")
  /\ UNCHANGED <<tool, walkVars, fExit, running>>

MainStep(p) ==
  \/ List(p) \/ Leave(p) \/ Find(p)
  \/ InitializeChannel(p) \/ SetFilter(p) \/ StartController(p) \/ StartTrace(p)
  \/ TeardownChannel(p)
-------------------------------------------------------------------------------
MainTypeOK ==
  /\ tool \in [Programs -> DOMAIN Course]
  /\ idx_board \in [Programs -> -1..NumChannels]
  /\ iter \in [Programs -> {"none", "more", "end"}]
  /\ listed \in [Programs -> Seq(0..NumChannels)]
  /\ fExit \in [Programs -> BOOLEAN]
  /\ chan \in [Programs -> {"closed", "open", "on"}]
  /\ retVal \in [Programs -> {"OK", "error"}]
  /\ running \in [Programs -> BOOLEAN]

(* A walk through the channel list, whatever walks were before it and      *)
(* wherever they broke off, comes by every channel once and in the order   *)
(* of the list; the program opens the channel it was asked for, and says   *)
(* that it could not be found only when it is not in the list.             *)
WalkComplete ==
  \A p \in Programs :
    /\ iter[p] = "end" => listed[p] = [i \in 1..NumChannels |-> i - 1]
    /\ pc[p] \in {"init", "filter", "start"} => idx_board[p] = Wanted[p]
    /\ pc[p] = "find" /\ iter[p] = "end" => Wanted[p] = NumChannels

(* A program that ends and reports success has given back its channel; one *)
(* that leaves before it opened a channel never had one.                   *)
ChannelReleased ==
  \A p \in Programs :
    /\ pc[p] = "exit" /\ retVal[p] = "OK" => chan[p] = "closed"
    /\ pc[p] \in {"json", "list", "test", "leave", "exclude", "find", "init"} => chan[p] = "closed"
===============================================================================
