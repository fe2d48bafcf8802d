------------------------------ MODULE CanTools ------------------------------
(***************************************************************************)
(* What the programs do beside the steps of Utility: the exclude list of   *)
(* can_moni (src/Utilities/can_moni/Sources/main.cpp), and the server of   *)
(* can_port and can_simu (main.cpp of both), of which TcpServer and        *)
(* CanPort model the inside.  The job of a program is one step here.       *)
(*                                                                         *)
(* An exclude list is its identifiers, each with the separator behind it;  *)
(* a text that is no such list ends the program.                           *)
(***************************************************************************)
EXTENDS Utility, SequencesExt

CONSTANTS
  MaxId,    \* the highest standard identifier
  MaxTokens \* bound on the identifiers in an exclude list

VARIABLES
  exclude,    \* the exclude list, empty without one
  inv,        \* it begins with '~'
  can_id,     \* the standard identifiers that are shown
  can_id_xtd, \* identifiers beyond them are shown
  accepted,   \* the user accepts the risks of the server
  server      \* "off", "on", or "stuck" when it could not be stopped

toolVars == <<exclude, inv, can_id, can_id_xtd, accepted, server>>

courseVars == <<mainVars, toolVars>>

Ids == 0..MaxId

(* The identifiers that a list may have: one beyond the standard ones      *)
(* stands for all of them.                                                 *)
Listed == Ids \cup {MaxId + 1}

ToolsInit ==
  /\ tool \in [Programs -> DOMAIN Course]
  /\ Main
  /\ exclude = [p \in Programs |-> <<>>]
  /\ inv = [p \in Programs |-> FALSE]
  /\ can_id = [p \in Programs |-> Ids]
  /\ can_id_xtd = [p \in Programs |-> TRUE]
  /\ accepted = [p \in Programs |-> FALSE]
  /\ server = [p \in Programs |-> "off"]
-------------------------------------------------------------------------------
Between(a, b) == {id \in Ids : (a <= id /\ id <= b) \/ (b <= id /\ id <= a)}

(* An identifier of the list: it counts if it is a standard one, and the   *)
(* range from the last one to it is walked through unless another '-'      *)
(* follows.                                                                *)
Token(scan, token) ==
  [out  |-> scan.out \cup ({token.id} \cap Ids)
              \cup IF scan.last = -1 \/ token.sep = "-" THEN {} ELSE Between(scan.last, token.id),
   last |-> IF token.sep = "-" THEN token.id ELSE -1]

(* The scans of the beginnings of the list. *)
Scan(list) ==
  LET scan[i \in 0..Len(list)] ==
        IF i = 0 THEN [out |-> {}, last |-> -1] ELSE Token(scan[i - 1], list[i])
  IN  scan

get_exclusion(list) == Scan(list)[Len(list)].out

(* A range has two standard identifiers: the walk through another one      *)
(* leaves the array, and what it does then is undefined.                   *)
ExcludeLists ==
  {list \in BoundedSeq([id : Listed, sep : {",", "-", "end"}], MaxTokens) :
     \A i \in DOMAIN list :
       /\ list[i].sep = "end" <=> i = Len(list)
       /\ list[i].sep = "-" => {list[i].id, list[i + 1].id} \subseteq Ids} \ {<<>>}

Exclude(p) ==
  /\ pc[p] = "exclude"
  /\ \/ GoOn(p) /\ UNCHANGED <<retVal, exclude, inv, can_id, can_id_xtd>>
     \/ Return(p, "error") /\ UNCHANGED <<exclude, inv, can_id, can_id_xtd>>
     \/ \E list \in ExcludeLists, tilde \in BOOLEAN :
          /\ GoOn(p) /\ UNCHANGED retVal
          /\ exclude' = [exclude EXCEPT ![p] = list]
          /\ inv' = [inv EXCEPT ![p] = tilde]
          /\ can_id' = [can_id EXCEPT ![p] = IF tilde THEN get_exclusion(list)
                                             ELSE Ids \ get_exclusion(list)]
          /\ can_id_xtd' = [can_id_xtd EXCEPT ![p] = ~tilde]
  /\ UNCHANGED <<tool, walkVars, fExit, chan, running, accepted, server>>
-------------------------------------------------------------------------------
beside == <<tool, walkVars, fExit, chan, running, exclude, inv, can_id, can_id_xtd>>

(* can_simu has nothing to tear down and reports success in any case. *)
GiveUp(p) == IF tool[p] = "simu" THEN Return(p, "OK") ELSE Result(p, retVal[p], "teardown")

(* The risks are accepted by an option or by the letter that the user types. *)
AcceptRisks(p) ==
  /\ pc[p] = "risks"
  /\ \/ GoOn(p) /\ accepted' = [accepted EXCEPT ![p] = TRUE] /\ UNCHANGED retVal
     \/ GiveUp(p) /\ UNCHANGED accepted
  /\ UNCHANGED <<beside, server>>

(* SetCallback, SetLoggingLevel and Start, each of which may fail. *)
StartServer(p) ==
  /\ pc[p] = "server"
  /\ \/ Done(p) /\ server' = [server EXCEPT ![p] = "on"]
     \/ GiveUp(p) /\ UNCHANGED server
  /\ UNCHANGED <<beside, accepted>>

(* The job, to its end, and SendAbort, whose result nobody looks at. *)
Job(p) ==
  /\ pc[p] \in {"job", "abort"}
  /\ GoOn(p)
  /\ UNCHANGED <<beside, retVal, accepted, server>>

StopServer(p) ==
  /\ pc[p] = "stop"
  /\ \/ Done(p) /\ server' = [server EXCEPT ![p] = "off"]
     \/ GiveUp(p) /\ server' = [server EXCEPT ![p] = "stuck"]
  /\ UNCHANGED <<beside, accepted>>

ToolsNext ==
  \E p \in Programs :
    \/ MainStep(p) /\ UNCHANGED toolVars
    \/ Exclude(p) \/ AcceptRisks(p) \/ StartServer(p) \/ Job(p) \/ StopServer(p)

ToolsSpec == ToolsInit /\ [][ToolsNext]_courseVars
-------------------------------------------------------------------------------
ToolsTypeOK ==
  /\ MainTypeOK
  /\ \A p \in Programs : pc[p] \in Places(tool[p]) \cup {"exit"}
  /\ can_id \in [Programs -> SUBSET Ids]
  /\ can_id_xtd \in [Programs -> BOOLEAN] /\ accepted \in [Programs -> BOOLEAN]
  /\ server \in [Programs -> {"off", "on", "stuck"}]

(* An exclude list as the help of can_moni has it: no '-' after a range.   *)
Documented(list) == \A i \in 1..(Len(list) - 1) : ~(list[i].sep = "-" /\ list[i + 1].sep = "-")

(* The standard identifiers that such a list names. *)
Named(list) ==
  ({list[i].id : i \in DOMAIN list} \cap Ids)
    \cup UNION {Between(list[i].id, list[i + 1].id) :
                  i \in {i \in 1..(Len(list) - 1) : list[i].sep = "-"}}

(* can_moni shows the identifiers that the list does not name, or with '~' *)
(* only those: ranges in either direction, in any order and overlapping,   *)
(* whatever identifiers beyond the standard ones stand between them.       *)
ExclusionNamed ==
  \A p \in Programs :
    Documented(exclude[p]) =>
      can_id[p] = IF inv[p] THEN Named(exclude[p]) ELSE Ids \ Named(exclude[p])

(* A server runs only where the risks were accepted; the clients of        *)
(* can_port write to a running controller; and main leaves no server       *)
(* behind unless it could not be stopped, whichever of the steps failed.   *)
ServerAccepted ==
  \A p \in Programs :
    /\ server[p] # "off" => accepted[p]
    /\ server[p] = "on" /\ tool[p] = "port" => chan[p] = "on"
    /\ pc[p] \in {"teardown", "exit"} => server[p] # "on"

(* Every program takes its course in order, whatever fails on the way: the *)
(* walks through the channel list, the channel given back, the exclusion   *)
(* and the server.                                                         *)
CoursesKept ==
  ToolsTypeOK /\ WalkComplete /\ ChannelReleased /\ ExclusionNamed /\ ServerAccepted
=============================================================================
