---------------------------- MODULE UtilityProofs ----------------------------
(***************************************************************************)
(* What every main of the utilities keeps to, for every channel list; and  *)
(* what the tests of can_test and the sender can_send keep to, for every   *)
(* width of the numbers, any messages, lines and queue of the receiver.    *)
(***************************************************************************)
EXTENDS CanTest, CanTools, SequenceTheorems, WellFoundedInduction, TLAPS

(***************************************************************************)
(* The courses, place by place.                                            *)
(***************************************************************************)
Everywhere ==
  {"json", "list", "test", "leave", "exclude", "find", "init", "filter", "start", "trace",
   "risks", "server", "job", "abort", "stop", "teardown", "exit"}

LEMMA Joined ==
  ASSUME NEW T, NEW a \in Seq(T), NEW b \in Seq(T), NEW c \in Seq(T), NEW s, s = a \o b \o c
  PROVE  /\ s \in Seq(T) /\ Len(s) = Len(a) + Len(b) + Len(c)
         /\ \A i \in 1 .. Len(a) : s[i] = a[i]
         /\ \A i \in 1 .. Len(b) : s[Len(a) + i] = b[i]
         /\ \A i \in 1 .. Len(c) : s[Len(a) + Len(b) + i] = c[i]
PROOF
  OBVIOUS

(* The successor of a place that a course comes by once. *)
LEMMA AfterIs ==
  ASSUME NEW t, NEW k \in DOMAIN Course[t],
         \A i \in DOMAIN Course[t] : Course[t][i] = Course[t][k] => i = k
  PROVE  After(t, Course[t][k]) = Course[t][k + 1]
PROOF
  BY DEF After

(* The programs with a channel but without an exclude list or a server. *)
LEMMA ShortCourse ==
  ASSUME NEW t \in {"test", "send"}
  PROVE  /\ Course[t] \in Seq(Everywhere) /\ Len(Course[t]) = 11
         /\ Course[t][1] = "json" /\ Course[t][2] = "list" /\ Course[t][3] = "test"
         /\ Course[t][4] = "leave" /\ Course[t][5] = "find" /\ Course[t][6] = "init"
         /\ Course[t][7] = "filter" /\ Course[t][8] = "start" /\ Course[t][9] = "trace"
         /\ Course[t][10] = "job" /\ Course[t][11] = "teardown"
PROOF
  <1> DEFINE a == test_lists
             b == test_setup
             c == test_end
  <1>1. Course[t] = a \o b \o c
    <2>1. Course["test"] = a \o b \o c
      BY DEF Course
    <2>2. send_lists = a /\ send_setup = b /\ send_end = c
      BY DEF test_lists, test_setup, test_end, send_lists, send_setup, send_end
    <2>3. Course["send"] = send_lists \o send_setup \o send_end
      BY DEF Course
    <2> QED
      BY <2>1, <2>2, <2>3
  <1>2. /\ a \in Seq(Everywhere) /\ Len(a) = 4
        /\ a[1] = "json" /\ a[2] = "list" /\ a[3] = "test" /\ a[4] = "leave"
    BY DEF test_lists, Everywhere
  <1>3. /\ b \in Seq(Everywhere) /\ Len(b) = 5
        /\ b[1] = "find" /\ b[2] = "init" /\ b[3] = "filter" /\ b[4] = "start" /\ b[5] = "trace"
    BY DEF test_setup, Everywhere
  <1>4. c \in Seq(Everywhere) /\ Len(c) = 2 /\ c[1] = "job" /\ c[2] = "teardown"
    BY DEF test_end, Everywhere
  <1> HIDE DEF a, b, c
  <1>5. PICK s : s = Course[t]
    OBVIOUS
  <1>6. /\ s \in Seq(Everywhere) /\ Len(s) = Len(a) + Len(b) + Len(c)
        /\ \A i \in 1 .. Len(a) : s[i] = a[i]
        /\ \A i \in 1 .. Len(b) : s[Len(a) + i] = b[i]
        /\ \A i \in 1 .. Len(c) : s[Len(a) + Len(b) + i] = c[i]
    <2>1. s = a \o b \o c
      BY <1>1, <1>5
    <2>2. a \in Seq(Everywhere) /\ b \in Seq(Everywhere) /\ c \in Seq(Everywhere)
      BY <1>2, <1>3, <1>4
    <2> QED
      BY <2>1, <2>2, Joined, SMTT(60)
  <1>7. /\ s \in Seq(Everywhere) /\ Len(s) = 11
        /\ s[1] = a[1] /\ s[2] = a[2] /\ s[3] = a[3] /\ s[4] = a[4]
        /\ s[5] = b[1] /\ s[6] = b[2] /\ s[7] = b[3] /\ s[8] = b[4] /\ s[9] = b[5]
        /\ s[10] = c[1] /\ s[11] = c[2]
    BY <1>2, <1>3, <1>4, <1>6
  <1> QED
    BY <1>2, <1>3, <1>4, <1>5, <1>7

LEMMA ShortAfters ==
  ASSUME NEW t \in {"test", "send"}
  PROVE  /\ After(t, "json") = "list" /\ After(t, "list") = "test" /\ After(t, "test") = "leave"
         /\ After(t, "leave") = "find" /\ After(t, "find") = "init" /\ After(t, "init") = "filter"
         /\ After(t, "filter") = "start" /\ After(t, "start") = "trace"
         /\ After(t, "trace") = "job" /\ After(t, "job") = "teardown"
         /\ Places(t) = {"json", "list", "test", "leave", "find", "init", "filter", "start",
                         "trace", "job", "teardown"}
         /\ Head(Course[t]) = "json"
PROOF
  <1>1. PICK s : s = Course[t]
    OBVIOUS
  <1>2. /\ s \in Seq(Everywhere) /\ Len(s) = 11
        /\ s[1] = "json" /\ s[2] = "list" /\ s[3] = "test" /\ s[4] = "leave" /\ s[5] = "find"
        /\ s[6] = "init" /\ s[7] = "filter" /\ s[8] = "start" /\ s[9] = "trace"
        /\ s[10] = "job" /\ s[11] = "teardown"
    BY <1>1, ShortCourse, ZenonT(60)
  <1>3. DOMAIN s = 1 .. 11
    BY <1>2, SMTT(60)
  <1>4. Head(s) = "json"
    BY <1>2, SMTT(60)
  <1>5. \A i, k \in 1 .. 11 : s[i] = s[k] => i = k
    BY <1>2, SMTT(60)
  <1>6. \A k \in 1 .. 11 : After(t, s[k]) = s[k + 1]
    <2>1. ASSUME NEW k \in 1 .. 11 PROVE After(t, Course[t][k]) = Course[t][k + 1]
      <3>1. k \in DOMAIN Course[t]
        BY <1>1, <1>3, ZenonT(60)
      <3>2. \A i \in DOMAIN Course[t] : Course[t][i] = Course[t][k] => i = k
        BY <1>1, <1>3, <1>5, ZenonT(60)
      <3> QED
        BY <3>1, <3>2, AfterIs, ZenonT(60)
    <2> QED
      BY <1>1, <2>1, ZenonT(60)
  <1>7. Places(t) = {s[i] : i \in 1 .. 11}
    BY <1>1, <1>3, ZenonT(60) DEF Places
  <1>8. /\ After(t, s[1]) = s[2] /\ After(t, s[2]) = s[3] /\ After(t, s[3]) = s[4]
        /\ After(t, s[4]) = s[5] /\ After(t, s[5]) = s[6] /\ After(t, s[6]) = s[7]
        /\ After(t, s[7]) = s[8] /\ After(t, s[8]) = s[9] /\ After(t, s[9]) = s[10]
        /\ After(t, s[10]) = s[11]
    BY <1>6, SMTT(60)
  <1>9. Places(t) = {s[1], s[2], s[3], s[4], s[5], s[6], s[7], s[8], s[9], s[10], s[11]}
    BY <1>7, SMTT(60)
  <1> QED
    BY <1>1, <1>2, <1>4, <1>8, <1>9, SMTT(60)

(* The programs with an exclude list, with a server, and without a channel. *)
LEMMA MoniCourse ==
  /\ Course["moni"] \in Seq(Everywhere) /\ Len(Course["moni"]) = 12
  /\ Course["moni"][1] = "json" /\ Course["moni"][2] = "list" /\ Course["moni"][3] = "test"
  /\ Course["moni"][4] = "leave" /\ Course["moni"][5] = "exclude" /\ Course["moni"][6] = "find"
  /\ Course["moni"][7] = "init" /\ Course["moni"][8] = "filter" /\ Course["moni"][9] = "start"
  /\ Course["moni"][10] = "trace" /\ Course["moni"][11] = "job" /\ Course["moni"][12] = "teardown"
PROOF
  <1> DEFINE a == moni_lists
             b == moni_setup
             c == moni_end
  <1>1. Course["moni"] = a \o b \o c
    BY DEF Course
  <1>2. /\ a \in Seq(Everywhere) /\ Len(a) = 5
        /\ a[1] = "json" /\ a[2] = "list" /\ a[3] = "test" /\ a[4] = "leave"
        /\ a[5] = "exclude"
    BY DEF moni_lists, Everywhere
  <1>3. /\ b \in Seq(Everywhere) /\ Len(b) = 5
        /\ b[1] = "find" /\ b[2] = "init" /\ b[3] = "filter" /\ b[4] = "start"
        /\ b[5] = "trace"
    BY DEF moni_setup, Everywhere
  <1>4. /\ c \in Seq(Everywhere) /\ Len(c) = 2
        /\ c[1] = "job" /\ c[2] = "teardown"
    BY DEF moni_end, Everywhere
  <1> HIDE DEF a, b, c
  <1>5. PICK s : s = Course["moni"]
    OBVIOUS
  <1>6. /\ s \in Seq(Everywhere) /\ Len(s) = Len(a) + Len(b) + Len(c)
        /\ \A i \in 1 .. Len(a) : s[i] = a[i]
        /\ \A i \in 1 .. Len(b) : s[Len(a) + i] = b[i]
        /\ \A i \in 1 .. Len(c) : s[Len(a) + Len(b) + i] = c[i]
    <2>1. s = a \o b \o c
      BY <1>1, <1>5
    <2>2. a \in Seq(Everywhere) /\ b \in Seq(Everywhere) /\ c \in Seq(Everywhere)
      BY <1>2, <1>3, <1>4
    <2> QED
      BY <2>1, <2>2, Joined, SMTT(60)
  <1>7. /\ Len(s) = 12
        /\ s[1] = a[1] /\ s[2] = a[2] /\ s[3] = a[3] /\ s[4] = a[4]
        /\ s[5] = a[5] /\ s[6] = b[1] /\ s[7] = b[2] /\ s[8] = b[3]
        /\ s[9] = b[4] /\ s[10] = b[5] /\ s[11] = c[1] /\ s[12] = c[2]
    BY <1>2, <1>3, <1>4, <1>6
  <1> QED
    BY <1>2, <1>3, <1>4, <1>5, <1>6, <1>7

LEMMA PortCourse ==
  /\ Course["port"] \in Seq(Everywhere) /\ Len(Course["port"]) = 15
  /\ Course["port"][1] = "json" /\ Course["port"][2] = "list" /\ Course["port"][3] = "test"
  /\ Course["port"][4] = "leave" /\ Course["port"][5] = "find" /\ Course["port"][6] = "init"
  /\ Course["port"][7] = "filter" /\ Course["port"][8] = "start" /\ Course["port"][9] = "trace"
  /\ Course["port"][10] = "risks" /\ Course["port"][11] = "server" /\ Course["port"][12] = "job"
  /\ Course["port"][13] = "abort" /\ Course["port"][14] = "stop" /\ Course["port"][15] = "teardown"
PROOF
  <1> DEFINE a == port_lists
             b == port_setup
             c == port_end
  <1>1. Course["port"] = a \o b \o c
    BY DEF Course
  <1>2. /\ a \in Seq(Everywhere) /\ Len(a) = 4
        /\ a[1] = "json" /\ a[2] = "list" /\ a[3] = "test" /\ a[4] = "leave"
    BY DEF port_lists, Everywhere
  <1>3. /\ b \in Seq(Everywhere) /\ Len(b) = 5
        /\ b[1] = "find" /\ b[2] = "init" /\ b[3] = "filter" /\ b[4] = "start"
        /\ b[5] = "trace"
    BY DEF port_setup, Everywhere
  <1>4. /\ c \in Seq(Everywhere) /\ Len(c) = 6
        /\ c[1] = "risks" /\ c[2] = "server" /\ c[3] = "job" /\ c[4] = "abort"
        /\ c[5] = "stop" /\ c[6] = "teardown"
    BY DEF port_end, Everywhere
  <1> HIDE DEF a, b, c
  <1>5. PICK s : s = Course["port"]
    OBVIOUS
  <1>6. /\ s \in Seq(Everywhere) /\ Len(s) = Len(a) + Len(b) + Len(c)
        /\ \A i \in 1 .. Len(a) : s[i] = a[i]
        /\ \A i \in 1 .. Len(b) : s[Len(a) + i] = b[i]
        /\ \A i \in 1 .. Len(c) : s[Len(a) + Len(b) + i] = c[i]
    <2>1. s = a \o b \o c
      BY <1>1, <1>5
    <2>2. a \in Seq(Everywhere) /\ b \in Seq(Everywhere) /\ c \in Seq(Everywhere)
      BY <1>2, <1>3, <1>4
    <2> QED
      BY <2>1, <2>2, Joined, SMTT(60)
  <1>7. /\ Len(s) = 15
        /\ s[1] = a[1] /\ s[2] = a[2] /\ s[3] = a[3] /\ s[4] = a[4]
        /\ s[5] = b[1] /\ s[6] = b[2] /\ s[7] = b[3] /\ s[8] = b[4]
        /\ s[9] = b[5] /\ s[10] = c[1] /\ s[11] = c[2] /\ s[12] = c[3]
        /\ s[13] = c[4] /\ s[14] = c[5] /\ s[15] = c[6]
    BY <1>2, <1>3, <1>4, <1>6
  <1> QED
    BY <1>2, <1>3, <1>4, <1>5, <1>6, <1>7

LEMMA SimuCourse ==
  /\ Course["simu"] \in Seq(Everywhere) /\ Len(Course["simu"]) = 6
  /\ Course["simu"][1] = "risks" /\ Course["simu"][2] = "server" /\ Course["simu"][3] = "job"
  /\ Course["simu"][4] = "abort" /\ Course["simu"][5] = "stop" /\ Course["simu"][6] = "exit"
PROOF
  BY DEF Course, simu_course, Everywhere

LEMMA MoniAfters ==
  /\ After("moni", "json") = "list" /\ After("moni", "list") = "test"
  /\ After("moni", "test") = "leave" /\ After("moni", "leave") = "exclude"
  /\ After("moni", "exclude") = "find" /\ After("moni", "find") = "init"
  /\ After("moni", "init") = "filter" /\ After("moni", "filter") = "start"
  /\ After("moni", "start") = "trace" /\ After("moni", "trace") = "job"
  /\ After("moni", "job") = "teardown"
  /\ Places("moni") = {"json", "list", "test", "leave", "exclude", "find",
                     "init", "filter", "start", "trace", "job", "teardown"}
  /\ Head(Course["moni"]) = "json"
PROOF
  <1>1. PICK s : s = Course["moni"] /\ DOMAIN s = 1 .. 12 /\ Head(s) = s[1]
    <2>1. PICK s : s = Course["moni"] /\ s \in Seq(Everywhere) /\ Len(s) = 12
      BY MoniCourse
    <2>2. DOMAIN s = 1 .. 12 /\ Head(s) = s[1]
      BY <2>1
    <2> QED
      BY <2>1, <2>2
  <1>2. /\ s[1] = "json" /\ s[2] = "list" /\ s[3] = "test" /\ s[4] = "leave"
        /\ s[5] = "exclude" /\ s[6] = "find" /\ s[7] = "init" /\ s[8] = "filter"
        /\ s[9] = "start" /\ s[10] = "trace" /\ s[11] = "job" /\ s[12] = "teardown"
    BY <1>1, MoniCourse
  <1>3. \A i, k \in 1 .. 12 : s[i] = s[k] => i = k
    BY <1>2
  <1>4. \A k \in 1 .. 12 : After("moni", s[k]) = s[k + 1]
    BY <1>1, <1>3, AfterIs, ZenonT(90)
  <1>5. /\ After("moni", s[1]) = s[2] /\ After("moni", s[2]) = s[3] /\ After("moni", s[3]) = s[4]
        /\ After("moni", s[4]) = s[5] /\ After("moni", s[5]) = s[6] /\ After("moni", s[6]) = s[7]
        /\ After("moni", s[7]) = s[8] /\ After("moni", s[8]) = s[9] /\ After("moni", s[9]) = s[10]
        /\ After("moni", s[10]) = s[11] /\ After("moni", s[11]) = s[12]
    BY <1>4
  <1>6. Places("moni") = {s[1], s[2], s[3], s[4], s[5], s[6], s[7], s[8], s[9], s[10], s[11], s[12]}
    <2>1. Places("moni") = {s[i] : i \in 1 .. 12}
      BY <1>1 DEF Places
    <2> QED
      BY <2>1
  <1> QED
    BY <1>1, <1>2, <1>5, <1>6

LEMMA PortAfters ==
  /\ After("port", "json") = "list" /\ After("port", "list") = "test"
  /\ After("port", "test") = "leave" /\ After("port", "leave") = "find"
  /\ After("port", "find") = "init" /\ After("port", "init") = "filter"
  /\ After("port", "filter") = "start" /\ After("port", "start") = "trace"
  /\ After("port", "trace") = "risks" /\ After("port", "risks") = "server"
  /\ After("port", "server") = "job" /\ After("port", "job") = "abort"
  /\ After("port", "abort") = "stop" /\ After("port", "stop") = "teardown"
  /\ Places("port") = {"json", "list", "test", "leave", "find", "init", "filter",
                     "start", "trace", "risks", "server", "job", "abort", "stop", "teardown"}
  /\ Head(Course["port"]) = "json"
PROOF
  <1>1. PICK s : s = Course["port"] /\ DOMAIN s = 1 .. 15 /\ Head(s) = s[1]
    <2>1. PICK s : s = Course["port"] /\ s \in Seq(Everywhere) /\ Len(s) = 15
      BY PortCourse
    <2>2. DOMAIN s = 1 .. 15 /\ Head(s) = s[1]
      BY <2>1
    <2> QED
      BY <2>1, <2>2
  <1>2. /\ s[1] = "json" /\ s[2] = "list" /\ s[3] = "test" /\ s[4] = "leave"
        /\ s[5] = "find" /\ s[6] = "init" /\ s[7] = "filter" /\ s[8] = "start"
        /\ s[9] = "trace" /\ s[10] = "risks" /\ s[11] = "server" /\ s[12] = "job"
        /\ s[13] = "abort" /\ s[14] = "stop" /\ s[15] = "teardown"
    BY <1>1, PortCourse
  <1>3. \A i, k \in 1 .. 15 : s[i] = s[k] => i = k
    BY <1>2
  <1>4. \A k \in 1 .. 15 : After("port", s[k]) = s[k + 1]
    BY <1>1, <1>3, AfterIs, ZenonT(90)
  <1>5. /\ After("port", s[1]) = s[2] /\ After("port", s[2]) = s[3] /\ After("port", s[3]) = s[4]
        /\ After("port", s[4]) = s[5] /\ After("port", s[5]) = s[6] /\ After("port", s[6]) = s[7]
        /\ After("port", s[7]) = s[8] /\ After("port", s[8]) = s[9] /\ After("port", s[9]) = s[10]
        /\ After("port", s[10]) = s[11] /\ After("port", s[11]) = s[12] /\ After("port", s[12]) = s[13]
        /\ After("port", s[13]) = s[14] /\ After("port", s[14]) = s[15]
    BY <1>4
  <1>6. Places("port") = {s[1], s[2], s[3], s[4], s[5], s[6], s[7], s[8], s[9], s[10], s[11],
                           s[12], s[13], s[14], s[15]}
    <2>1. Places("port") = {s[i] : i \in 1 .. 15}
      BY <1>1 DEF Places
    <2> QED
      BY <2>1
  <1> QED
    BY <1>1, <1>2, <1>5, <1>6

LEMMA SimuAfters ==
  /\ After("simu", "risks") = "server" /\ After("simu", "server") = "job"
  /\ After("simu", "job") = "abort" /\ After("simu", "abort") = "stop"
  /\ After("simu", "stop") = "exit"
  /\ Places("simu") = {"risks", "server", "job", "abort", "stop", "exit"}
  /\ Head(Course["simu"]) = "risks"
PROOF
  <1>1. PICK s : s = Course["simu"] /\ DOMAIN s = 1 .. 6 /\ Head(s) = s[1]
    <2>1. PICK s : s = Course["simu"] /\ s \in Seq(Everywhere) /\ Len(s) = 6
      BY SimuCourse
    <2>2. DOMAIN s = 1 .. 6 /\ Head(s) = s[1]
      BY <2>1
    <2> QED
      BY <2>1, <2>2
  <1>2. /\ s[1] = "risks" /\ s[2] = "server" /\ s[3] = "job" /\ s[4] = "abort"
        /\ s[5] = "stop" /\ s[6] = "exit"
    BY <1>1, SimuCourse
  <1>3. \A i, k \in 1 .. 6 : s[i] = s[k] => i = k
    BY <1>2
  <1>4. \A k \in 1 .. 6 : After("simu", s[k]) = s[k + 1]
    BY <1>1, <1>3, AfterIs, ZenonT(90)
  <1>5. /\ After("simu", s[1]) = s[2] /\ After("simu", s[2]) = s[3] /\ After("simu", s[3]) = s[4]
        /\ After("simu", s[4]) = s[5] /\ After("simu", s[5]) = s[6]
    BY <1>4
  <1>6. Places("simu") = {s[1], s[2], s[3], s[4], s[5], s[6]}
    <2>1. Places("simu") = {s[i] : i \in 1 .. 6}
      BY <1>1 DEF Places
    <2> QED
      BY <2>1
  <1> QED
    BY <1>1, <1>2, <1>5, <1>6

(* The order of the places that lead to a running controller. *)
Leads(t) ==
  /\ After(t, "json") = "list" /\ After(t, "list") = "test" /\ After(t, "test") = "leave"
  /\ After(t, "leave") \in {"find", "exclude"} /\ After(t, "find") = "init"
  /\ After(t, "init") = "filter" /\ After(t, "filter") = "start" /\ After(t, "start") = "trace"
  /\ After(t, "trace") \in {"job", "risks"}

LEMMA ShortLeads == \A t \in {"test", "send"} : Leads(t)
PROOF
  BY ShortAfters DEF Leads

LEMMA LongLeads == Leads("moni") /\ Leads("port")
PROOF
  BY MoniAfters, PortAfters DEF Leads
-------------------------------------------------------------------------------
(***************************************************************************)
(* The walks through the channel list.                                     *)
(***************************************************************************)
Seen(n) == [i \in 1 .. n |-> i - 1]

LEMMA SeenNext ==
  ASSUME NEW n \in Nat
  PROVE  Append(Seen(n), n) = Seen(n + 1) /\ Seen(n) \in Seq(Nat) /\ Seen(0) = <<>>
PROOF
  <1>1. Seen(n) \in Seq(Nat) /\ Len(Seen(n)) = n
    BY DEF Seen
  <1>2. /\ Append(Seen(n), n) \in Seq(Nat) /\ Len(Append(Seen(n), n)) = n + 1
        /\ \A i \in 1 .. n : Append(Seen(n), n)[i] = i - 1
        /\ Append(Seen(n), n)[n + 1] = n
    BY <1>1 DEF Seen
  <1>3. Seen(n + 1) \in Seq(Nat) /\ Len(Seen(n + 1)) = n + 1
        /\ \A i \in 1 .. n + 1 : Seen(n + 1)[i] = i - 1
    BY DEF Seen
  <1>4. Append(Seen(n), n) = Seen(n + 1)
    BY <1>2, <1>3, SeqEqual, SMTT(60)
  <1>5. Seen(0) = <<>>
    <2>1. Seen(0) \in Seq(Nat) /\ Len(Seen(0)) = 0
      BY DEF Seen
    <2> QED
      BY <2>1, EmptySeq
  <1> QED
    BY <1>1, <1>4, <1>5

WalkPlaces == {"json", "list", "test", "find"}

(* A walk has come by the entries before the actual one, and a search has  *)
(* not come by the interface it is for.                                    *)
WalkAt(place, i, it, seen, wanted) ==
  /\ it = "more" => /\ place \in WalkPlaces /\ Entry(i) /\ seen = Seen(i)
                    /\ place = "find" => i <= wanted
  /\ it = "end" => /\ place \in WalkPlaces \cup {"exit"} /\ seen = Seen(NumChannels)
                   /\ place = "find" => wanted = NumChannels
  /\ place \in {"init", "filter", "start"} => i = wanted

Unopened == {"json", "list", "test", "leave", "exclude", "find", "init"}

ChannelAt(place, state, code) ==
  /\ place = "exit" /\ code = "OK" => state = "closed"
  /\ place \in Unopened => state = "closed"

WalkOf(p)    == WalkAt(pc[p], idx_board[p], iter[p], listed[p], Wanted[p])
ChannelOf(p) == ChannelAt(pc[p], chan[p], retVal[p])

(* Together with the types this is inductive for every main. *)
Orderly ==
  /\ MainTypeOK /\ pc = [p \in Programs |-> pc[p]]
  /\ \A p \in Programs : WalkOf(p) /\ ChannelOf(p)

LEMMA OrderlyTells == Orderly => WalkComplete /\ ChannelReleased
PROOF
  BY DEF Orderly, WalkOf, ChannelOf, WalkAt, ChannelAt, Seen, Unopened, WalkComplete, ChannelReleased

(* What a step of one main leaves alone. *)
Beside(p) ==
  /\ UNCHANGED <<tool, running>>
  /\ \A q \in Programs : q # p =>
       /\ pc'[q] = pc[q] /\ idx_board'[q] = idx_board[q] /\ iter'[q] = iter[q]
       /\ listed'[q] = listed[q] /\ chan'[q] = chan[q] /\ retVal'[q] = retVal[q]

LEMMA MainStepBeside ==
  ASSUME Orderly, NEW p \in Programs, MainStep(p)
  PROVE  Beside(p) /\ pc' = [q \in Programs |-> pc'[q]]
PROOF
  <1> USE DEF Orderly, MainTypeOK, Beside, walkVars, Goto, GoOn, Result, Return, Done, Channel
  <1>1. CASE List(p)
    BY <1>1 DEF List, GetFirstChannel, GetNextChannel, MoveTo, EndWalk
  <1>2. CASE Leave(p)
    BY <1>2 DEF Leave
  <1>3. CASE Find(p)
    BY <1>3 DEF Find, GetFirstChannel, GetNextChannel, MoveTo, EndWalk
  <1>4. CASE InitializeChannel(p) \/ SetFilter(p) \/ StartController(p) \/ StartTrace(p)
    BY <1>4 DEF InitializeChannel, SetFilter, StartController, StartTrace
  <1>5. CASE TeardownChannel(p)
    BY <1>5 DEF TeardownChannel
  <1> QED
    BY <1>1, <1>2, <1>3, <1>4, <1>5 DEF MainStep

LEMMA MainStepWalk ==
  ASSUME Orderly, NEW p \in Programs, MainStep(p), Leads(tool[p])
  PROVE  MainTypeOK' /\ WalkOf(p)' /\ ChannelOf(p)'
PROOF
  <1> DEFINE t == tool[p]
             w == Wanted[p]
             Good == MainTypeOK' /\ WalkOf(p)' /\ ChannelOf(p)'
  <1>1. /\ MainTypeOK /\ WalkOf(p) /\ ChannelOf(p) /\ pc = [q \in Programs |-> pc[q]]
        /\ NumChannels \in Nat /\ w \in 0 .. NumChannels
    BY NumChannelsAssumption, WantedAssumption DEF Orderly
  <1> USE DEF walkVars, Goto, GoOn, Result, Return, Done, Channel
  (* A call of GetFirstChannel or GetNextChannel where main stays. *)
  <1>2. ASSUME pc[p] \in WalkPlaces, GetFirstChannel(p) \/ GetNextChannel(p),
               pc[p] = "find" /\ iter[p] = "more" => idx_board[p] # w,
               UNCHANGED <<pc, tool, chan, retVal, running>>, fExit' \in [Programs -> BOOLEAN]
        PROVE  Good
    <2>1. ASSUME GetFirstChannel(p) PROVE Good
      <3>1. /\ idx_board' = [idx_board EXCEPT ![p] = 0]
            /\ iter' = [iter EXCEPT ![p] = IF 0 < NumChannels THEN "more" ELSE "end"]
            /\ listed' = [listed EXCEPT ![p] = <<>>]
        BY <1>1, <2>1 DEF GetFirstChannel, MoveTo, FirstIndex, Entry
      <3>2. Seen(0) = <<>> /\ <<>> \in Seq(0 .. NumChannels)
        BY SeenNext
      <3>3. MainTypeOK'
        BY <1>1, <1>2, <3>1, <3>2 DEF MainTypeOK
      <3>4. /\ idx_board'[p] = 0 /\ listed'[p] = Seen(0) /\ pc'[p] = pc[p]
            /\ iter'[p] = IF 0 < NumChannels THEN "more" ELSE "end"
        BY <1>1, <1>2, <3>1, <3>2 DEF MainTypeOK
      <3>5. WalkOf(p)'
        BY <1>1, <1>2, <3>4 DEF WalkOf, WalkAt, Entry, WalkPlaces
      <3> QED
        BY <1>1, <1>2, <3>3, <3>5 DEF ChannelOf
    <2>2. ASSUME GetNextChannel(p) PROVE Good
      <3>1. PICK i \in Nat : i = idx_board[p] /\ i < NumChannels
        BY <1>1, <2>2 DEF GetNextChannel, WalkOf, WalkAt, Entry, MainTypeOK
      <3>2. /\ iter[p] = "more" /\ listed[p] = Seen(i) /\ (pc[p] = "find" => i <= w /\ i # w)
        BY <1>1, <1>2, <2>2, <3>1 DEF GetNextChannel, WalkOf, WalkAt
      <3>3. /\ idx_board' = [idx_board EXCEPT ![p] = i + 1]
            /\ iter' = [iter EXCEPT ![p] = IF i + 1 < NumChannels THEN "more" ELSE "end"]
            /\ listed' = [listed EXCEPT ![p] = Seen(i + 1)]
        <4>1. NextIndex(i) = i + 1 /\ (Entry(i + 1) <=> i + 1 < NumChannels)
          BY <3>1 DEF NextIndex, Entry
        <4>2. Append(listed[p], idx_board[p]) = Seen(i + 1)
          BY <3>1, <3>2, SeenNext
        <4> QED
          BY <2>2, <3>1, <4>1, <4>2 DEF GetNextChannel, MoveTo
      <3>4. Seen(i + 1) \in Seq(0 .. NumChannels)
        BY <1>1, <3>1, SMTT(60) DEF Seen
      <3>5. MainTypeOK'
        BY <1>1, <1>2, <3>1, <3>3, <3>4, SMTT(60) DEF MainTypeOK
      <3>6. /\ idx_board'[p] = i + 1 /\ listed'[p] = Seen(i + 1) /\ pc'[p] = pc[p]
            /\ iter'[p] = IF i + 1 < NumChannels THEN "more" ELSE "end"
        BY <1>1, <1>2, <3>3 DEF MainTypeOK
      <3>7. i + 1 >= NumChannels => i + 1 = NumChannels
        BY <1>1, <3>1
      <3>8. WalkOf(p)'
        BY <1>1, <1>2, <3>1, <3>2, <3>6, <3>7 DEF WalkOf, WalkAt, Entry, WalkPlaces
      <3> QED
        BY <1>1, <1>2, <3>5, <3>8 DEF ChannelOf
    <2> QED
      BY <1>2, <2>1, <2>2
  (* A step to another place, without or at the end of a walk. *)
  <1>3. CASE List(p)
    <2>1. After(t, pc[p]) \in {"list", "test", "leave"} /\ pc[p] \in {"json", "list", "test"}
      BY <1>3 DEF List, Leads
    <2>2. ASSUME iter[p] # "more", pc' = [pc EXCEPT ![p] = After(t, pc[p])],
                 iter' = [iter EXCEPT ![p] = "none"],
                 UNCHANGED <<idx_board, listed, fExit, tool, chan, retVal, running>>
          PROVE  Good
      <3>1. MainTypeOK'
        BY <1>1, <2>2 DEF MainTypeOK
      <3>2. pc'[p] \in {"list", "test", "leave"} /\ iter'[p] = "none"
        BY <1>1, <2>1, <2>2 DEF MainTypeOK
      <3>3. chan[p] = "closed"
        BY <1>1, <2>1 DEF ChannelOf, ChannelAt, Unopened
      <3> QED
        BY <2>2, <3>1, <3>2, <3>3 DEF WalkOf, WalkAt, ChannelOf, ChannelAt
    <2>3. CASE iter[p] = "none" /\ GoOn(p) /\ UNCHANGED <<walkVars, fExit>>
      <3>1. iter' = [iter EXCEPT ![p] = "none"]
        BY <1>1, <2>3 DEF MainTypeOK
      <3> QED
        BY <1>3, <2>2, <2>3, <3>1 DEF List
    <2>4. CASE /\ GetFirstChannel(p) \/ GetNextChannel(p)
               /\ fExit' = [fExit EXCEPT ![p] = TRUE]
               /\ UNCHANGED pc
      <3>1. fExit' \in [Programs -> BOOLEAN]
        BY <1>1, <2>4 DEF MainTypeOK
      <3> QED
        BY <1>2, <1>3, <2>1, <2>4, <3>1 DEF List, WalkPlaces
    <2>5. CASE iter[p] = "end" /\ EndWalk(p) /\ GoOn(p) /\ UNCHANGED fExit
      BY <1>3, <2>2, <2>5 DEF List, EndWalk
    <2> QED
      BY <1>3, <2>3, <2>4, <2>5 DEF List
  <1>4. CASE Leave(p)
    <2>1. /\ pc[p] \in {"json", "leave"} /\ iter[p] # "more" /\ chan[p] = "closed"
      BY <1>1, <1>4 DEF Leave, WalkOf, WalkAt, WalkPlaces, ChannelOf, ChannelAt, Unopened
    <2>2. \/ /\ pc' = [pc EXCEPT ![p] = "exit"]
             /\ \E code \in {"OK", "error"} : retVal' = [retVal EXCEPT ![p] = code]
          \/ /\ pc[p] = "leave" /\ pc' = [pc EXCEPT ![p] = After(t, "leave")] /\ UNCHANGED retVal
      BY <1>4 DEF Leave
    <2>3. UNCHANGED <<idx_board, iter, listed, tool, fExit, chan, running>>
      BY <1>4 DEF Leave
    <2>4. MainTypeOK'
      <3>1. retVal \in [Programs -> {"OK", "error"}]
        BY <1>1 DEF MainTypeOK
      <3>2. retVal' \in [Programs -> {"OK", "error"}]
        BY <2>2, <3>1
      <3> QED
        BY <1>1, <2>3, <3>2 DEF MainTypeOK
    <2>5. pc'[p] \in {"exit", "find", "exclude"} /\ (pc'[p] # "exit" => pc[p] = "leave")
      BY <1>1, <2>2 DEF Leads
    <2>6. pc[p] = "leave" => iter[p] = "none"
      BY <1>1, <2>1 DEF WalkOf, WalkAt, WalkPlaces, MainTypeOK
    <2> QED
      BY <1>1, <2>1, <2>3, <2>4, <2>5, <2>6 DEF WalkOf, WalkAt, ChannelOf, ChannelAt
  <1>5. CASE Find(p)
    <2>1. pc[p] = "find" /\ chan[p] = "closed" /\ UNCHANGED <<tool, fExit, chan, running>>
      BY <1>1, <1>5 DEF Find, ChannelOf, ChannelAt, Unopened
    <2>2. CASE /\ GetFirstChannel(p) \/ GetNextChannel(p)
               /\ iter[p] = "more" => idx_board[p] # Wanted[p]
               /\ UNCHANGED <<pc, retVal>>
      BY <1>1, <1>2, <2>1, <2>2 DEF WalkPlaces, MainTypeOK
    <2>3. CASE iter[p] = "more" /\ idx_board[p] = w /\ EndWalk(p) /\ GoOn(p) /\ UNCHANGED retVal
      <3>1. MainTypeOK'
        BY <1>1, <2>1, <2>3 DEF MainTypeOK, EndWalk
      <3>2. pc'[p] = "init" /\ iter'[p] = "none" /\ idx_board'[p] = w
        BY <1>1, <2>1, <2>3 DEF MainTypeOK, EndWalk, Leads
      <3> QED
        BY <2>1, <3>1, <3>2 DEF WalkOf, WalkAt, ChannelOf, ChannelAt
    <2>4. CASE iter[p] = "end" /\ EndWalk(p) /\ Return(p, "error")
      <3>1. MainTypeOK'
        BY <1>1, <2>1, <2>4 DEF MainTypeOK, EndWalk
      <3>2. pc'[p] = "exit" /\ iter'[p] = "none"
        BY <1>1, <2>4 DEF MainTypeOK, EndWalk
      <3> QED
        BY <2>1, <3>1, <3>2 DEF WalkOf, WalkAt, ChannelOf, ChannelAt
    <2> QED
      BY <1>5, <2>2, <2>3, <2>4 DEF Find, GetFirstChannel
  <1>6. CASE InitializeChannel(p) \/ SetFilter(p) \/ StartController(p) \/ StartTrace(p)
    <2>1. /\ pc[p] \in {"init", "filter", "start", "trace"} /\ iter[p] = "none"
          /\ UNCHANGED <<tool, idx_board, iter, listed, fExit, running>>
      BY <1>1, <1>6 DEF InitializeChannel, SetFilter, StartController, StartTrace, WalkOf, WalkAt,
                        WalkPlaces, MainTypeOK
    <2>2. /\ \/ Result(p, "OK", After(t, pc[p]))
             \/ Result(p, "error", "teardown") /\ pc[p] # "init"
             \/ Result(p, "error", "exit")
          /\ UNCHANGED chan \/ Channel(p, "open") \/ Channel(p, "on")
      BY <1>6 DEF InitializeChannel, SetFilter, StartController, StartTrace
    <2>3. MainTypeOK'
      BY <1>1, <2>1, <2>2, ZenonT(90) DEF MainTypeOK
    <2>4. /\ pc'[p] \in {"filter", "start", "trace", "job", "risks", "teardown", "exit"}
          /\ pc'[p] \in {"filter", "start"} => pc[p] \in {"init", "filter"}
          /\ pc'[p] = "exit" => retVal'[p] = "error"
      BY <1>1, <2>1, <2>2 DEF MainTypeOK, Leads
    <2> QED
      BY <1>1, <2>1, <2>3, <2>4 DEF WalkOf, WalkAt, ChannelOf, ChannelAt, Unopened
  <1>7. CASE TeardownChannel(p)
    <2>1. /\ pc[p] = "teardown" /\ iter[p] = "none" /\ pc' = [pc EXCEPT ![p] = "exit"]
          /\ UNCHANGED <<tool, idx_board, iter, listed, fExit, running>>
      BY <1>1, <1>7 DEF TeardownChannel, WalkOf, WalkAt, WalkPlaces, MainTypeOK
    <2>2. MainTypeOK'
      BY <1>1, <1>7, <2>1 DEF TeardownChannel, MainTypeOK
    <2>3. retVal'[p] = "OK" => chan'[p] = "closed"
      BY <1>1, <1>7 DEF TeardownChannel, MainTypeOK
    <2>4. pc'[p] = "exit" /\ iter'[p] = "none"
      BY <1>1, <2>1
    <2> QED
      BY <2>2, <2>3, <2>4 DEF WalkOf, WalkAt, ChannelOf, ChannelAt, Unopened
  <1> QED
    BY <1>3, <1>4, <1>5, <1>6, <1>7 DEF MainStep

LEMMA MainStepOrderly ==
  ASSUME Orderly, NEW p \in Programs, MainStep(p), Leads(tool[p])
  PROVE  Orderly'
PROOF
  <1>1. MainTypeOK' /\ WalkOf(p)' /\ ChannelOf(p)'
    BY MainStepWalk
  <1>2. Beside(p) /\ pc' = [q \in Programs |-> pc'[q]]
    BY MainStepBeside
  <1>3. ASSUME NEW q \in Programs, q # p PROVE WalkOf(q)' /\ ChannelOf(q)'
    BY <1>2, <1>3 DEF Orderly, Beside, WalkOf, ChannelOf
  <1> QED
    BY <1>1, <1>2, <1>3 DEF Orderly

(* The places that a main comes to: a program that has ended stays there. *)
LEMMA MainStepPlaces ==
  ASSUME Orderly, NEW p \in Programs, MainStep(p), tool[p] \in {"test", "send"}
  PROVE  /\ pc'[p] \in Places(tool[p]) \cup {"exit"}
         /\ pc[p] \in Places(tool[p]) \ {"job"}
         /\ pc[p] = "teardown" => pc'[p] = "exit"
PROOF
  <1> DEFINE t == tool[p]
  <1> USE DEF Goto, GoOn, Result, Return, Done, Orderly
  <1>1. /\ After(t, "json") = "list" /\ After(t, "list") = "test" /\ After(t, "test") = "leave"
        /\ After(t, "leave") = "find" /\ After(t, "find") = "init" /\ After(t, "init") = "filter"
        /\ After(t, "filter") = "start" /\ After(t, "start") = "trace"
        /\ After(t, "trace") = "job"
        /\ Places(t) = {"json", "list", "test", "leave", "find", "init", "filter", "start",
                        "trace", "job", "teardown"}
    BY ShortAfters
  <1>2. CASE List(p)
    BY <1>1, <1>2 DEF List
  <1>3. CASE Leave(p)
    BY <1>1, <1>3 DEF Leave
  <1>4. CASE Find(p)
    BY <1>1, <1>4 DEF Find
  <1>5. CASE InitializeChannel(p) \/ SetFilter(p) \/ StartController(p) \/ StartTrace(p)
    BY <1>1, <1>5 DEF InitializeChannel, SetFilter, StartController, StartTrace
  <1>6. CASE TeardownChannel(p)
    BY <1>1, <1>6 DEF TeardownChannel
  <1> QED
    BY <1>2, <1>3, <1>4, <1>5, <1>6 DEF MainStep
-------------------------------------------------------------------------------
(***************************************************************************)
(* Induction, from the fact that the natural numbers are well-founded.     *)
(***************************************************************************)
LEMMA LeastMember ==
  ASSUME NEW T \in SUBSET Nat, T # {}
  PROVE  \E m \in T : \A n \in T : m <= n
PROOF
  <1> DEFINE less == {ss \in Nat \X Nat : ss[1] < ss[2]}
  <1>1. IsWellFoundedOn(less, Nat)
    BY NatLessThanWellFounded DEF OpToRel
  <1>2. \A m, n \in Nat : m < n => <<m, n>> \in less
    OBVIOUS
  <1> HIDE DEF less
  <1>3. PICK m \in T : \A n \in T : ~(<<n, m>> \in less)
    BY <1>1, WFMin
  <1>4. \A n \in T : ~(n < m)
    BY <1>2, <1>3
  <1> QED
    BY <1>3, <1>4

LEMMA Induction ==
  ASSUME NEW S, 0 \in S, \A n \in Nat : n \in S => n + 1 \in S
  PROVE  Nat \subseteq S
PROOF
  <1> SUFFICES ASSUME Nat \ S # {} PROVE FALSE
    OBVIOUS
  <1>1. PICK n \in Nat \ S : \A m \in Nat \ S : n <= m
    BY LeastMember
  <1>2. n # 0 /\ n - 1 \in Nat /\ n - 1 \notin Nat \ S
    BY <1>1
  <1> QED
    BY <1>2
-------------------------------------------------------------------------------
(***************************************************************************)
(* The exclude list of can_moni.                                           *)
(***************************************************************************)
Tokens == [id : Listed, sep : {",", "-", "end"}]

Scans == [out : SUBSET Ids, last : Listed \cup {-1}]

EmptyScan == [out |-> {}, last |-> -1]

LEMMA TokenType ==
  ASSUME NEW scan \in Scans, NEW token \in Tokens
  PROVE  Token(scan, token) \in Scans
PROOF
  <1>1. PICK id \in Listed : id = token.id
    BY DEF Tokens
  <1>2. Between(scan.last, id) \subseteq Ids /\ scan.out \subseteq Ids
    BY DEF Between, Scans
  <1> QED
    BY <1>1, <1>2 DEF Token, Scans

(* The scan of a list exists, and is that of its beginnings. *)
ScanOf(f, list, n) ==
  f[0] = EmptyScan /\ \A i \in 1 .. n : f[i] = Token(f[i - 1], list[i])

LEMMA ScanExists ==
  ASSUME NEW list, NEW n \in Nat
  PROVE  \E f : ScanOf(f, list, n)
PROOF
  <1> DEFINE S == {k \in Nat : \E f : ScanOf(f, list, k)}
  <1>1. 0 \in S
    <2>1. ScanOf([i \in {0} |-> EmptyScan], list, 0)
      BY DEF ScanOf
    <2> QED
      BY <2>1
  <1>2. ASSUME NEW k \in Nat, k \in S PROVE k + 1 \in S
    <2>1. PICK f : ScanOf(f, list, k)
      BY <1>2
    <2> DEFINE g == [i \in 0 .. k + 1 |-> IF i = k + 1 THEN Token(f[k], list[k + 1]) ELSE f[i]]
    <2>2. g[0] = EmptyScan
      BY <2>1 DEF ScanOf
    <2>3. ASSUME NEW i \in 1 .. k + 1 PROVE g[i] = Token(g[i - 1], list[i])
      <3>1. i - 1 \in 0 .. k + 1 /\ i - 1 # k + 1 /\ g[i - 1] = f[i - 1]
        OBVIOUS
      <3>2. CASE i = k + 1
        BY <3>1, <3>2
      <3>3. CASE i # k + 1
        BY <2>1, <3>1, <3>3 DEF ScanOf
      <3> QED
        BY <3>2, <3>3
    <2> HIDE DEF g
    <2> QED
      BY <2>2, <2>3 DEF ScanOf
  <1> HIDE DEF S
  <1>3. n \in S
    BY <1>1, <1>2, Induction
  <1> QED
    BY <1>3 DEF S

LEMMA ScanIs ==
  ASSUME NEW list \in Seq(Tokens)
  PROVE  /\ ScanOf(Scan(list), list, Len(list))
         /\ \A i \in 0 .. Len(list) : Scan(list)[i] \in Scans
PROOF
  <1> DEFINE n == Len(list)
             Is(f) == f = [i \in 0 .. n |-> IF i = 0 THEN [out |-> {}, last |-> -1]
                                            ELSE Token(f[i - 1], list[i])]
  <1>1. n \in Nat
    BY LenProperties
  <1>2. \E f : Is(f)
    <2>1. PICK f : ScanOf(f, list, n)
      BY <1>1, ScanExists
    <2> DEFINE g == [i \in 0 .. n |-> f[i]]
    <2>2. ASSUME NEW i \in 0 .. n
          PROVE  g[i] = IF i = 0 THEN [out |-> {}, last |-> -1] ELSE Token(g[i - 1], list[i])
      BY <1>1, <2>1, <2>2 DEF ScanOf, EmptyScan
    <2>3. Is(g)
      BY <2>2
    <2> QED
      BY <2>3
  <1>3. Is(Scan(list))
    BY <1>2 DEF Scan
  <1> HIDE DEF n
  <1>4. PICK f : f = Scan(list) /\ Is(f)
    BY <1>3
  <1>5. ScanOf(f, list, n)
    <2>1. f = [i \in 0 .. n |-> IF i = 0 THEN EmptyScan ELSE Token(f[i - 1], list[i])]
      BY <1>4 DEF EmptyScan
    <2> HIDE DEF Is
    <2>2. f[0] = EmptyScan
      BY <1>1, <2>1
    <2>3. \A i \in 1 .. n : i \in 0 .. n /\ i # 0
      BY <1>1
    <2>4. \A i \in 1 .. n : f[i] = Token(f[i - 1], list[i])
      BY <2>1, <2>3
    <2> QED
      BY <2>2, <2>4 DEF ScanOf
  <1> HIDE DEF Is
  <1> DEFINE S == {i \in Nat : i <= n => f[i] \in Scans}
  <1>6. 0 \in S
    BY <1>5 DEF ScanOf, EmptyScan, Scans
  <1>7. ASSUME NEW i \in Nat, i \in S PROVE i + 1 \in S
    <2> SUFFICES ASSUME i + 1 <= n PROVE f[i + 1] \in Scans
      OBVIOUS
    <2>1. i + 1 \in 1 .. n /\ (i + 1) - 1 = i /\ f[i] \in Scans
      BY <1>1, <1>7
    <2>2. f[i + 1] = Token(f[i], list[i + 1])
      BY <1>5, <2>1 DEF ScanOf
    <2>3. list[i + 1] \in Tokens
      BY <2>1 DEF n
    <2> QED
      BY <2>1, <2>2, <2>3, TokenType
  <1> HIDE DEF S
  <1>8. Nat \subseteq S
    BY <1>6, <1>7, Induction
  <1>9. \A i \in 0 .. n : f[i] \in Scans
    BY <1>1, <1>8 DEF S
  <1> QED
    BY <1>4, <1>5, <1>9 DEF n

(* What the scan of a documented list has come to: the identifiers named   *)
(* so far, and the beginning of a range.                                   *)
NamedTo(list, n) ==
  ({list[j].id : j \in 1 .. n} \cap Ids)
    \cup UNION {Between(list[j].id, list[j + 1].id) : j \in {j \in 1 .. n - 1 : list[j].sep = "-"}}

ScanAt(scan, list, n) ==
  /\ scan.out = NamedTo(list, n)
  /\ scan.last = IF n > 0 /\ list[n].sep = "-" THEN list[n].id ELSE -1

LEMMA NamedNext ==
  ASSUME NEW list, NEW n \in Nat
  PROVE  NamedTo(list, n + 1) =
           NamedTo(list, n) \cup ({list[n + 1].id} \cap Ids)
             \cup (IF n > 0 /\ list[n].sep = "-" THEN Between(list[n].id, list[n + 1].id) ELSE {})
PROOF
  <1> DEFINE D(k) == {j \in 1 .. k - 1 : list[j].sep = "-"}
             B(j) == Between(list[j].id, list[j + 1].id)
             E    == IF n > 0 /\ list[n].sep = "-" THEN {n} ELSE {}
  <1>1. {list[j].id : j \in 1 .. n + 1} = {list[j].id : j \in 1 .. n} \cup {list[n + 1].id}
    <2>1. 1 .. n + 1 = (1 .. n) \cup {n + 1}
      OBVIOUS
    <2> QED
      BY <2>1
  <1>2. D(n + 1) = D(n) \cup E
    <2>1. \A j : j \in 1 .. (n + 1) - 1 <=> (j \in 1 .. n - 1 \/ (n > 0 /\ j = n))
      OBVIOUS
    <2> QED
      BY <2>1
  <1> HIDE DEF D, B
  <1>3. UNION {B(j) : j \in D(n + 1)}
          = (UNION {B(j) : j \in D(n)}) \cup (IF n > 0 /\ list[n].sep = "-" THEN B(n) ELSE {})
    BY <1>2
  <1> QED
    BY <1>1, <1>3 DEF NamedTo, D, B

LEMMA ExclusionIsNamed ==
  ASSUME NEW list \in Seq(Tokens), Documented(list), MaxId \in Nat
  PROVE  get_exclusion(list) = Named(list)
PROOF
  <1> DEFINE n == Len(list)
             f == Scan(list)
             S == {i \in Nat : i <= n => ScanAt(f[i], list, i)}
  <1>1. n \in Nat /\ DOMAIN list = 1 .. n /\ \A i \in 1 .. n : list[i] \in Tokens
    BY LenProperties
  <1>2. ScanOf(f, list, n)
    BY ScanIs
  <1>3. \A i \in 1 .. n - 1 : ~(list[i].sep = "-" /\ list[i + 1].sep = "-")
    BY DEF Documented
  <1> HIDE DEF f, n
  <1>4. 0 \in S
    <2>1. NamedTo(list, 0) = {}
      BY DEF NamedTo
    <2>2. ScanAt(f[0], list, 0)
      BY <1>2, <2>1 DEF ScanOf, EmptyScan, ScanAt
    <2> QED
      BY <2>2
  <1>5. ASSUME NEW i \in Nat, i \in S PROVE i + 1 \in S
    <2> SUFFICES ASSUME i + 1 <= n PROVE ScanAt(f[i + 1], list, i + 1)
      OBVIOUS
    <2>1. i + 1 \in 1 .. n /\ (i + 1) - 1 = i /\ i + 1 > 0 /\ ScanAt(f[i], list, i)
      BY <1>1, <1>5
    <2>2. f[i + 1] = Token(f[i], list[i + 1])
      BY <1>2, <2>1 DEF ScanOf
    <2>3. list[i + 1].id \in Listed
      BY <1>1, <2>1 DEF Tokens
    <2>4. i > 0 => list[i].id \in Listed /\ i \in 1 .. n - 1
      <3>1. i > 0 => i \in 1 .. n - 1 /\ i \in 1 .. n
        BY <1>1, <2>1
      <3> QED
        BY <1>1, <3>1 DEF Tokens
    <2>5. -1 \notin Listed
      BY DEF Listed, Ids
    <2>6. CASE i > 0 /\ list[i].sep = "-"
      <3>1. f[i].last = list[i].id /\ list[i].id # -1 /\ list[i + 1].sep # "-"
        BY <1>3, <2>1, <2>4, <2>5, <2>6 DEF ScanAt
      <3>2. f[i + 1].out = f[i].out \cup ({list[i + 1].id} \cap Ids) \cup Between(list[i].id, list[i + 1].id)
        BY <2>2, <3>1 DEF Token
      <3>3. f[i + 1].last = IF list[i + 1].sep = "-" THEN list[i + 1].id ELSE -1
        BY <2>2 DEF Token
      <3>4. f[i + 1].out = NamedTo(list, i + 1)
        BY <2>1, <2>6, <3>2, NamedNext DEF ScanAt
      <3> QED
        BY <2>1, <3>3, <3>4 DEF ScanAt
    <2>7. CASE ~(i > 0 /\ list[i].sep = "-")
      <3>1. f[i].last = -1
        BY <2>1, <2>7 DEF ScanAt
      <3>2. f[i + 1].out = f[i].out \cup ({list[i + 1].id} \cap Ids)
        BY <2>2, <3>1 DEF Token
      <3>3. f[i + 1].last = IF list[i + 1].sep = "-" THEN list[i + 1].id ELSE -1
        BY <2>2 DEF Token
      <3>4. f[i + 1].out = NamedTo(list, i + 1)
        <4>1. NamedTo(list, i + 1) = NamedTo(list, i) \cup ({list[i + 1].id} \cap Ids) \cup {}
          BY <2>7, NamedNext
        <4> QED
          BY <2>1, <3>2, <4>1 DEF ScanAt
      <3> QED
        BY <2>1, <3>3, <3>4 DEF ScanAt
    <2> QED
      BY <2>6, <2>7
  <1> HIDE DEF S
  <1>6. n \in S
    BY <1>1, <1>4, <1>5, Induction
  <1>7. f[n].out = NamedTo(list, n)
    BY <1>1, <1>6 DEF S, ScanAt
  <1>8. NamedTo(list, n) = Named(list)
    BY <1>1 DEF NamedTo, Named, n
  <1> QED
    BY <1>7, <1>8 DEF get_exclusion, f, n
-------------------------------------------------------------------------------
(***************************************************************************)
(* The courses of all five programs.                                       *)
(***************************************************************************)
ToolTypes ==
  /\ exclude \in [Programs -> Seq(Tokens)] /\ inv \in [Programs -> BOOLEAN]
  /\ can_id \in [Programs -> SUBSET Ids] /\ can_id_xtd \in [Programs -> BOOLEAN]
  /\ accepted \in [Programs -> BOOLEAN] /\ server \in [Programs -> {"off", "on", "stuck"}]

(* A program with a server comes by the places of the server only where    *)
(* the risks are accepted, and with a channel that is on if it has one.    *)
Guarded(t, place, state, risks, serv) ==
  /\ serv # "off" => risks /\ t \in {"port", "simu"}
  /\ serv = "on" => place \in {"job", "abort", "stop"}
  /\ t \in {"port", "simu"} /\ place \in {"server", "job", "abort", "stop"} => risks
  /\ t = "port" /\ place \in {"trace", "risks", "server", "job", "abort", "stop"} => state = "on"
  /\ t = "simu" => state = "closed"

PlaceOf(p)  == pc[p] \in Places(tool[p]) \cup {"exit"}
ServerOf(p) == Guarded(tool[p], pc[p], chan[p], accepted[p], server[p])

ExclusionOf(p) ==
  Documented(exclude[p]) =>
    can_id[p] = IF inv[p] THEN Named(exclude[p]) ELSE Ids \ Named(exclude[p])

ToolsInv ==
  /\ Orderly /\ ToolTypes
  /\ \A p \in Programs : PlaceOf(p) /\ ServerOf(p) /\ ExclusionOf(p)

Channeled == {"test", "send", "moni", "port"}

LEMMA Afters ==
  /\ DOMAIN Course = Channeled \cup {"simu"}
  /\ \A t \in Channeled :
       /\ Leads(t) /\ {"json", "teardown", "job"} \subseteq Places(t)
       /\ \A place \in Places(t) \ {"teardown"} : After(t, place) \in Places(t)
       /\ Head(Course[t]) = "json"
  /\ Head(Course["simu"]) = "risks"
  /\ Places("simu") = {"risks", "server", "job", "abort", "stop", "exit"}
PROOF
  <1>1. DOMAIN Course = Channeled \cup {"simu"}
    BY DEF Course, Channeled
  <1>2. ASSUME NEW t \in Channeled
        PROVE  /\ Leads(t) /\ {"json", "teardown", "job"} \subseteq Places(t)
               /\ \A place \in Places(t) \ {"teardown"} : After(t, place) \in Places(t)
               /\ Head(Course[t]) = "json"
    <2>1. CASE t \in {"test", "send"}
      BY <2>1, ShortAfters, ShortLeads
    <2>2. CASE t = "moni"
      BY <2>2, MoniAfters, LongLeads
    <2>3. CASE t = "port"
      BY <2>3, PortAfters, LongLeads
    <2> QED
      BY <2>1, <2>2, <2>3 DEF Channeled
  <1> QED
    BY <1>1, <1>2, SimuAfters

LEMMA ToolsInvInit == ToolsInit => ToolsInv
PROOF
  <1> SUFFICES ASSUME ToolsInit PROVE ToolsInv
    OBVIOUS
  <1>1. /\ tool \in [Programs -> DOMAIN Course]
        /\ pc = [p \in Programs |-> Head(Course[tool[p]])]
        /\ idx_board = [p \in Programs |-> -1] /\ iter = [p \in Programs |-> "none"]
        /\ listed = [p \in Programs |-> <<>>] /\ fExit = [p \in Programs |-> FALSE]
        /\ chan = [p \in Programs |-> "closed"] /\ retVal = [p \in Programs |-> "error"]
        /\ running = [p \in Programs |-> TRUE]
    BY DEF ToolsInit, Main
  <1>2. \A p \in Programs : \/ tool[p] \in Channeled /\ pc[p] = "json"
                            \/ tool[p] = "simu" /\ pc[p] = "risks"
    BY <1>1, Afters
  <1>3. Orderly
    <2>1. MainTypeOK
      BY <1>1, NumChannelsAssumption DEF MainTypeOK
    <2>2. \A p \in Programs : WalkOf(p) /\ ChannelOf(p)
      BY <1>1, <1>2 DEF WalkOf, WalkAt, ChannelOf, ChannelAt
    <2> QED
      BY <1>1, <2>1, <2>2 DEF Orderly
  <1>4. /\ exclude = [p \in Programs |-> <<>>] /\ inv = [p \in Programs |-> FALSE]
        /\ can_id = [p \in Programs |-> Ids] /\ can_id_xtd = [p \in Programs |-> TRUE]
        /\ accepted = [p \in Programs |-> FALSE] /\ server = [p \in Programs |-> "off"]
    BY DEF ToolsInit
  <1>5. ToolTypes
    BY <1>4 DEF ToolTypes
  <1>6. ASSUME NEW p \in Programs PROVE PlaceOf(p) /\ ServerOf(p) /\ ExclusionOf(p)
    <2>1. PlaceOf(p)
      BY <1>2, Afters DEF PlaceOf
    <2>2. ServerOf(p)
      BY <1>1, <1>2, <1>4 DEF ServerOf, Guarded, Channeled
    <2>3. Named(<<>>) = {}
      BY DEF Named
    <2>4. ExclusionOf(p)
      BY <1>4, <2>3 DEF ExclusionOf
    <2> QED
      BY <2>1, <2>2, <2>4
  <1> QED
    BY <1>3, <1>5, <1>6 DEF ToolsInv

(* A step of one main, for the places and the channel of it. *)
LEMMA MainStepCourse ==
  ASSUME Orderly, NEW p \in Programs, MainStep(p)
  PROVE  /\ pc[p] \in {"json", "list", "test", "leave", "find", "init", "filter", "start",
                       "trace", "teardown"}
         /\ \/ pc'[p] \in {pc[p], "exit"}
            \/ pc[p] # "teardown" /\ pc'[p] = After(tool[p], pc[p])
            \/ pc'[p] = "teardown"
         /\ pc[p] = "start" => pc'[p] \in {"exit", "teardown"} \/ chan'[p] = "on"
         /\ pc[p] = "trace" => chan'[p] = chan[p]
PROOF
  <1> USE DEF Goto, GoOn, Result, Return, Done, Channel, Orderly, MainTypeOK
  <1>1. CASE List(p)
    BY <1>1 DEF List
  <1>2. CASE Leave(p)
    BY <1>2 DEF Leave
  <1>3. CASE Find(p)
    BY <1>3 DEF Find
  <1>4. CASE InitializeChannel(p) \/ SetFilter(p) \/ StartController(p) \/ StartTrace(p)
    BY <1>4 DEF InitializeChannel, SetFilter, StartController, StartTrace
  <1>5. CASE TeardownChannel(p)
    BY <1>5 DEF TeardownChannel
  <1> QED
    BY <1>1, <1>2, <1>3, <1>4, <1>5 DEF MainStep

(* What a step leaves alone of the other programs. *)
ToolsBeside(p) ==
  \A q \in Programs : q # p =>
    /\ exclude'[q] = exclude[q] /\ inv'[q] = inv[q] /\ can_id'[q] = can_id[q]
    /\ accepted'[q] = accepted[q] /\ server'[q] = server[q]

(* So only the program of the step has to be looked at. *)
LEMMA OneProgram ==
  ASSUME ToolsInv, NEW p \in Programs, Beside(p), ToolsBeside(p),
         MainTypeOK', ToolTypes', pc' = [q \in Programs |-> pc'[q]],
         WalkOf(p)', ChannelOf(p)', PlaceOf(p)', ServerOf(p)', ExclusionOf(p)'
  PROVE  ToolsInv'
PROOF
  <1>1. ASSUME NEW q \in Programs, q # p
        PROVE  /\ WalkOf(q)' /\ ChannelOf(q)'
               /\ PlaceOf(q)' /\ ServerOf(q)' /\ ExclusionOf(q)'
    <2>1. WalkOf(q)' /\ ChannelOf(q)'
      BY <1>1 DEF ToolsInv, Orderly, Beside, WalkOf, ChannelOf
    <2>2. PlaceOf(q)' /\ ServerOf(q)' /\ ExclusionOf(q)'
      BY <1>1, ZenonT(90) DEF ToolsInv, Beside, ToolsBeside, PlaceOf, ServerOf, ExclusionOf
    <2> QED
      BY <2>1, <2>2
  <1> QED
    BY <1>1 DEF ToolsInv, Orderly

LEMMA ToolsMainStep ==
  ASSUME ToolsInv, NEW p \in Programs, MainStep(p), UNCHANGED toolVars
  PROVE  ToolsInv'
PROOF
  <1> DEFINE t == tool[p]
  <1>1. Orderly /\ ToolTypes /\ PlaceOf(p) /\ ServerOf(p) /\ ExclusionOf(p) /\ t \in DOMAIN Course
    BY DEF ToolsInv, Orderly, MainTypeOK
  <1>2. /\ pc[p] \in {"json", "list", "test", "leave", "find", "init", "filter", "start",
                      "trace", "teardown"}
        /\ \/ pc'[p] \in {pc[p], "exit"}
           \/ pc[p] # "teardown" /\ pc'[p] = After(t, pc[p])
           \/ pc'[p] = "teardown"
        /\ pc[p] = "start" => pc'[p] \in {"exit", "teardown"} \/ chan'[p] = "on"
        /\ pc[p] = "trace" => chan'[p] = chan[p]
    BY <1>1, MainStepCourse
  <1>3. t \in Channeled /\ pc[p] \in Places(t)
    BY <1>1, <1>2, Afters DEF PlaceOf, Channeled
  <1>4. Leads(t)
    BY <1>3, Afters
  <1>5. MainTypeOK' /\ WalkOf(p)' /\ ChannelOf(p)'
    BY <1>1, <1>4, MainStepWalk
  <1>6. Beside(p) /\ pc' = [q \in Programs |-> pc'[q]]
    BY <1>1, MainStepBeside
  <1>7. UNCHANGED <<tool, exclude, inv, can_id, can_id_xtd, accepted, server>>
    BY <1>6 DEF toolVars, Beside
  <1>8. PlaceOf(p)'
    BY <1>2, <1>3, <1>7, Afters DEF PlaceOf
  <1>9. ServerOf(p)'
    <2>1. server[p] # "on" /\ t # "simu" /\ (server[p] # "off" => accepted[p] /\ t = "port")
      BY <1>1, <1>2, <1>3 DEF ServerOf, Guarded, Channeled
    <2>2. t = "port" => /\ pc'[p] \notin {"server", "job", "abort", "stop"}
                        /\ pc'[p] \in {"trace", "risks"} => chan'[p] = "on"
      <3> SUFFICES ASSUME t = "port"
                   PROVE  /\ pc'[p] \notin {"server", "job", "abort", "stop"}
                          /\ pc'[p] \in {"trace", "risks"} => chan'[p] = "on"
        OBVIOUS
      <3>1. pc[p] = "trace" => chan[p] = "on"
        BY <1>1 DEF ServerOf, Guarded
      <3> QED
        BY <1>2, <3>1, PortAfters
    <2> QED
      BY <1>7, <2>1, <2>2 DEF ServerOf, Guarded
  <1>10. ToolTypes' /\ ExclusionOf(p)' /\ ToolsBeside(p)
    BY <1>1, <1>7 DEF ToolTypes, ExclusionOf, ToolsBeside
  <1> QED
    BY <1>5, <1>6, <1>8, <1>9, <1>10, OneProgram

(* A step of a program that is not in Utility: main goes to another place. *)
LEMMA PlaceStep ==
  ASSUME ToolsInv, NEW p \in Programs, NEW place, pc' = [pc EXCEPT ![p] = place],
         pc[p] \notin WalkPlaces \cup {"exit"}, place \notin {"init", "filter", "start"},
         place \in Unopened => pc[p] \in Unopened,
         NEW code \in {"OK", "error"}, retVal' = [retVal EXCEPT ![p] = code],
         place = "exit" /\ code = "OK" => chan[p] = "closed",
         UNCHANGED <<tool, walkVars, fExit, chan, running>>
  PROVE  /\ Beside(p) /\ MainTypeOK' /\ pc' = [q \in Programs |-> pc'[q]] /\ pc'[p] = place
         /\ WalkOf(p)' /\ ChannelOf(p)'
PROOF
  <1>1. MainTypeOK /\ WalkOf(p) /\ ChannelOf(p) /\ pc = [q \in Programs |-> pc[q]]
    BY DEF ToolsInv, Orderly
  <1>2. iter[p] = "none"
    BY <1>1 DEF WalkOf, WalkAt, MainTypeOK
  <1>3. /\ pc'[p] = place /\ pc' = [q \in Programs |-> pc'[q]] /\ retVal'[p] = code
        /\ UNCHANGED <<idx_board, iter, listed>>
    BY <1>1 DEF MainTypeOK, walkVars
  <1>4. Beside(p)
    BY <1>1, <1>3 DEF Beside, MainTypeOK
  <1>5. MainTypeOK'
    BY <1>1, <1>3 DEF MainTypeOK
  <1>6. WalkOf(p)' /\ ChannelOf(p)'
    BY <1>1, <1>2, <1>3 DEF WalkOf, WalkAt, ChannelOf, ChannelAt
  <1> QED
    BY <1>3, <1>4, <1>5, <1>6

LEMMA ExcludeStep ==
  ASSUME ToolsInv, MaxId \in Nat, NEW p \in Programs, Exclude(p)
  PROVE  ToolsInv'
PROOF
  <1>1. /\ Orderly /\ MainTypeOK /\ ToolTypes /\ PlaceOf(p) /\ ServerOf(p) /\ ExclusionOf(p)
        /\ tool[p] \in DOMAIN Course /\ pc[p] = "exclude"
    BY DEF ToolsInv, Orderly, MainTypeOK, Exclude
  <1>2. tool[p] = "moni"
    <2>1. \A t \in {"test", "send"} : "exclude" \notin Places(t)
      BY ShortAfters
    <2> QED
      BY <1>1, <2>1, PortAfters, SimuAfters, Afters DEF PlaceOf, Channeled
  <1>3. /\ UNCHANGED <<tool, walkVars, fExit, chan, running, accepted, server>>
        /\ \/ pc' = [pc EXCEPT ![p] = "find"] /\ UNCHANGED retVal
           \/ pc' = [pc EXCEPT ![p] = "exit"] /\ retVal' = [retVal EXCEPT ![p] = "error"]
    BY <1>1, <1>2, MoniAfters DEF Exclude, GoOn, Goto, Return, Result
  <1>4. PICK place \in {"find", "exit"}, code \in {"OK", "error"} :
          /\ pc' = [pc EXCEPT ![p] = place] /\ retVal' = [retVal EXCEPT ![p] = code]
          /\ place = "exit" => code = "error"
    <2>1. retVal[p] \in {"OK", "error"} /\ retVal = [retVal EXCEPT ![p] = retVal[p]]
      BY <1>1 DEF MainTypeOK
    <2> QED
      BY <1>3, <2>1
  <1>5. /\ Beside(p) /\ MainTypeOK' /\ pc' = [q \in Programs |-> pc'[q]] /\ pc'[p] = place
        /\ WalkOf(p)' /\ ChannelOf(p)'
    BY <1>1, <1>3, <1>4, PlaceStep DEF WalkPlaces, Unopened
  <1>6. PlaceOf(p)' /\ ServerOf(p)'
    BY <1>1, <1>2, <1>3, <1>5, MoniAfters DEF PlaceOf, ServerOf, Guarded
  <1>7. ToolTypes' /\ ToolsBeside(p) /\ ExclusionOf(p)'
    <2>1. CASE UNCHANGED <<exclude, inv, can_id, can_id_xtd>>
      BY <1>1, <1>3, <2>1 DEF ToolTypes, ToolsBeside, ExclusionOf
    <2>2. ASSUME NEW list \in ExcludeLists, NEW tilde \in BOOLEAN,
                 exclude' = [exclude EXCEPT ![p] = list], inv' = [inv EXCEPT ![p] = tilde],
                 can_id' = [can_id EXCEPT ![p] = IF tilde THEN get_exclusion(list)
                                                 ELSE Ids \ get_exclusion(list)],
                 can_id_xtd' = [can_id_xtd EXCEPT ![p] = ~tilde]
          PROVE  ToolTypes' /\ ToolsBeside(p) /\ ExclusionOf(p)'
      <3>1. list \in Seq(Tokens)
        <4>1. PICK m \in 0 .. MaxTokens : list \in [1 .. m -> Tokens]
          BY DEF ExcludeLists, BoundedSeq, SeqOf, Tokens
        <4>2. m \in Nat
          OBVIOUS
        <4> QED
          BY <4>1, <4>2
      <3>2. get_exclusion(list) \in SUBSET Ids
        <4>1. Len(list) \in 0 .. Len(list)
          BY <3>1, LenProperties
        <4> QED
          BY <3>1, <4>1, ScanIs DEF get_exclusion, Scans
      <3>3. Documented(list) => get_exclusion(list) = Named(list)
        BY <3>1, ExclusionIsNamed
      <3>4. ToolTypes'
        BY <1>1, <1>3, <2>2, <3>1, <3>2 DEF ToolTypes
      <3>5. ToolsBeside(p)
        BY <1>1, <1>3, <2>2 DEF ToolTypes, ToolsBeside
      <3>6. ExclusionOf(p)'
        BY <1>1, <2>2, <3>3 DEF ToolTypes, ExclusionOf
      <3> QED
        BY <3>4, <3>5, <3>6
    <2> QED
      BY <2>1, <2>2 DEF Exclude
  <1> QED
    BY <1>5, <1>6, <1>7, OneProgram

(* The steps around the server. *)
LEMMA ServerStep ==
  ASSUME ToolsInv, NEW p \in Programs, AcceptRisks(p) \/ StartServer(p) \/ Job(p) \/ StopServer(p)
  PROVE  ToolsInv'
PROOF
  <1> DEFINE t == tool[p]
             next == After(t, pc[p])
             end == IF t = "simu" THEN "exit" ELSE "teardown"
  <1>1. /\ Orderly /\ MainTypeOK /\ ToolTypes /\ PlaceOf(p) /\ ServerOf(p) /\ ExclusionOf(p)
        /\ t \in DOMAIN Course /\ pc[p] \in {"risks", "server", "job", "abort", "stop"}
    BY DEF ToolsInv, Orderly, MainTypeOK, AcceptRisks, StartServer, Job, StopServer
  <1>2. t \in {"port", "simu"} \/ pc[p] = "job"
    <2>1. \A u \in {"test", "send"} : Places(u) \cap {"risks", "server", "abort", "stop"} = {}
      BY ShortAfters
    <2>2. Places("moni") \cap {"risks", "server", "abort", "stop"} = {}
      BY MoniAfters
    <2> QED
      BY <1>1, <2>1, <2>2, Afters DEF PlaceOf, Channeled
  <1>3. /\ t \in {"port", "simu"} => next = CASE pc[p] = "risks"  -> "server"
                                             [] pc[p] = "server" -> "job"
                                             [] pc[p] = "job"    -> "abort"
                                             [] pc[p] = "abort"  -> "stop"
                                             [] pc[p] = "stop"   -> end
        /\ t \notin {"port", "simu"} => next = "teardown"
    <2>1. t \in {"test", "send"} => After(t, "job") = "teardown"
      BY ShortAfters
    <2> QED
      BY <1>1, <1>2, <2>1, MoniAfters, PortAfters, SimuAfters, Afters DEF Channeled
  <1>4. /\ UNCHANGED <<tool, walkVars, fExit, chan, running, exclude, inv, can_id, can_id_xtd>>
        /\ \/ pc' = [pc EXCEPT ![p] = next] /\ UNCHANGED retVal
           \/ pc' = [pc EXCEPT ![p] = next] /\ retVal' = [retVal EXCEPT ![p] = "OK"]
           \/ GiveUp(p) /\ pc[p] # "job"
    BY DEF AcceptRisks, StartServer, Job, StopServer, beside, GoOn, Goto, Done, Result
  <1>5. PICK place \in {next, end}, code \in {"OK", "error"} :
          /\ pc' = [pc EXCEPT ![p] = place] /\ retVal' = [retVal EXCEPT ![p] = code]
          /\ place # next => GiveUp(p)
    <2>1. retVal[p] \in {"OK", "error"} /\ retVal = [retVal EXCEPT ![p] = retVal[p]]
      BY <1>1 DEF MainTypeOK
    <2>2. CASE GiveUp(p)
      <3>1. CASE t = "simu"
        BY <2>2, <3>1 DEF GiveUp, Return, Result, Goto
      <3>2. CASE t # "simu"
        BY <2>1, <2>2, <3>2 DEF GiveUp, Result, Goto
      <3> QED
        BY <3>1, <3>2
    <2> QED
      BY <1>4, <2>1, <2>2
  <1>6. /\ place \in {"server", "job", "abort", "stop", "teardown", "exit"}
        /\ place = "exit" => chan[p] = "closed"
    <2>1. t = "simu" => chan[p] = "closed"
      BY <1>1 DEF ServerOf, Guarded
    <2> QED
      BY <1>1, <1>2, <1>3, <1>5, <2>1
  <1>7. /\ Beside(p) /\ MainTypeOK' /\ pc' = [q \in Programs |-> pc'[q]] /\ pc'[p] = place
        /\ WalkOf(p)' /\ ChannelOf(p)'
    <2>1. pc[p] \notin WalkPlaces \cup {"exit"} /\ place \notin {"init", "filter", "start"}
      BY <1>1, <1>6 DEF WalkPlaces
    <2>2. place \notin Unopened
      BY <1>6 DEF Unopened
    <2> QED
      BY <1>4, <1>5, <1>6, <2>1, <2>2, PlaceStep
  <1>8. PlaceOf(p)'
    <2>1. tool'[p] = t /\ pc'[p] = place
      BY <1>4, <1>7
    <2>2. CASE t \in {"port", "simu"}
      BY <1>1, <1>3, <1>5, <2>1, <2>2, PortAfters, SimuAfters DEF PlaceOf
    <2>3. CASE t \notin {"port", "simu"}
      BY <1>1, <1>2, <1>3, <1>5, <2>1, <2>3, Afters DEF PlaceOf, Channeled
    <2> QED
      BY <2>2, <2>3
  <1>9. ToolTypes' /\ ToolsBeside(p) /\ ServerOf(p)'
    <2> DEFINE Good == ToolTypes' /\ ToolsBeside(p) /\ ServerOf(p)'
    <2>1. /\ tool'[p] = t /\ pc'[p] = place /\ chan'[p] = chan[p]
          /\ Guarded(t, pc[p], chan[p], accepted[p], server[p])
      BY <1>1, <1>4, <1>7 DEF ServerOf
    <2>2. ASSUME NEW risks \in BOOLEAN, NEW serv \in {"off", "on", "stuck"},
                 accepted' = [accepted EXCEPT ![p] = risks],
                 server' = [server EXCEPT ![p] = serv],
                 Guarded(t, place, chan[p], risks, serv)
          PROVE  Good
      <3>1. ToolTypes' /\ accepted'[p] = risks /\ server'[p] = serv
        BY <1>1, <1>4, <2>2 DEF ToolTypes
      <3>2. ToolsBeside(p)
        BY <1>1, <1>4, <2>2 DEF ToolTypes, ToolsBeside
      <3>3. ServerOf(p)'
        BY <2>1, <2>2, <3>1 DEF ServerOf
      <3> QED
        BY <3>1, <3>2, <3>3
    <2>3. /\ accepted[p] \in BOOLEAN /\ accepted = [accepted EXCEPT ![p] = accepted[p]]
          /\ server[p] \in {"off", "on", "stuck"} /\ server = [server EXCEPT ![p] = server[p]]
      BY <1>1 DEF ToolTypes
    <2>4. CASE AcceptRisks(p)
      <3>1. pc[p] = "risks" /\ t \in {"port", "simu"} /\ next = "server" /\ server' = server
        BY <1>2, <1>3, <2>4 DEF AcceptRisks
      <3>2. CASE accepted' = [accepted EXCEPT ![p] = TRUE]
        <4>1. Guarded(t, place, chan[p], TRUE, server[p])
          BY <1>5, <2>1, <3>1 DEF Guarded
        <4> QED
          BY <2>2, <2>3, <3>1, <3>2, <4>1
      <3>3. CASE GiveUp(p) /\ UNCHANGED accepted
        <4>1. place = end
          BY <1>1, <1>5, <3>1, <3>3 DEF GiveUp, Return, Result, Goto, Orderly, MainTypeOK
        <4>2. Guarded(t, place, chan[p], accepted[p], server[p])
          BY <2>1, <3>1, <4>1 DEF Guarded
        <4> QED
          BY <2>2, <2>3, <3>1, <3>3, <4>2
      <3> QED
        BY <2>4, <3>2, <3>3 DEF AcceptRisks
    <2>5. CASE StartServer(p)
      <3>1. /\ pc[p] = "server" /\ t \in {"port", "simu"} /\ next = "job" /\ accepted' = accepted
            /\ server' = server \/ (Done(p) /\ server' = [server EXCEPT ![p] = "on"])
            /\ server' = server => GiveUp(p) \/ Done(p)
        BY <1>2, <1>3, <2>5 DEF StartServer
      <3>2. CASE Done(p) /\ server' = [server EXCEPT ![p] = "on"]
        <4>1. place = "job"
          BY <1>1, <1>7, <3>1, <3>2 DEF Done, Result, Goto, Orderly
        <4>2. Guarded(t, place, chan[p], accepted[p], "on")
          BY <2>1, <3>1, <4>1 DEF Guarded
        <4> QED
          BY <2>2, <2>3, <3>1, <3>2, <4>2
      <3>3. CASE server' = server
        <4>1. Guarded(t, place, chan[p], accepted[p], server[p])
          BY <1>5, <2>1, <3>1 DEF Guarded
        <4> QED
          BY <2>2, <2>3, <3>1, <3>3, <4>1
      <3> QED
        BY <3>1, <3>2, <3>3
    <2>6. CASE Job(p)
      <3>1. /\ pc[p] \in {"job", "abort"} /\ accepted' = accepted /\ server' = server
            /\ pc' = [pc EXCEPT ![p] = next]
        BY <2>6 DEF Job, GoOn, Goto
      <3>2. place = next
        BY <1>1, <1>7, <3>1 DEF Orderly
      <3>3. Guarded(t, place, chan[p], accepted[p], server[p])
        BY <1>2, <1>3, <2>1, <3>1, <3>2 DEF Guarded
      <3> QED
        BY <2>2, <2>3, <3>1, <3>3
    <2>7. CASE StopServer(p)
      <3>1. /\ pc[p] = "stop" /\ t \in {"port", "simu"} /\ next = end /\ accepted' = accepted
            /\ \E serv \in {"off", "stuck"} : server' = [server EXCEPT ![p] = serv]
        BY <1>2, <1>3, <2>7 DEF StopServer
      <3>2. \A serv \in {"off", "stuck"} : Guarded(t, place, chan[p], accepted[p], serv)
        BY <1>5, <2>1, <3>1 DEF Guarded
      <3> QED
        BY <2>2, <2>3, <3>1, <3>2
    <2> QED
      BY <2>4, <2>5, <2>6, <2>7
  <1>10. ExclusionOf(p)'
    BY <1>1, <1>4 DEF ExclusionOf
  <1> QED
    BY <1>7, <1>8, <1>9, <1>10, OneProgram

LEMMA ToolsInvNext == ASSUME MaxId \in Nat PROVE ToolsInv /\ [ToolsNext]_courseVars => ToolsInv'
PROOF
  <1> SUFFICES ASSUME ToolsInv, [ToolsNext]_courseVars PROVE ToolsInv'
    OBVIOUS
  <1>1. CASE UNCHANGED courseVars
    BY <1>1 DEF courseVars, mainVars, toolVars, ToolsInv, Orderly, MainTypeOK, ToolTypes, WalkOf,
                ChannelOf, PlaceOf, ServerOf, ExclusionOf
  <1>2. ASSUME NEW p \in Programs,
               \/ MainStep(p) /\ UNCHANGED toolVars
               \/ Exclude(p) \/ AcceptRisks(p) \/ StartServer(p) \/ Job(p) \/ StopServer(p)
        PROVE  ToolsInv'
    BY <1>2, ToolsMainStep, ExcludeStep, ServerStep
  <1> QED
    BY <1>1, <1>2 DEF ToolsNext
-------------------------------------------------------------------------------
(* Every program takes its course in order, whatever fails on the way: its *)
(* walks through the channel list are complete, can_moni shows the         *)
(* identifiers that a documented exclude list leaves, however long it is,  *)
(* a server runs only where the risks were accepted and is gone before the *)
(* channel is, and a program that ends well has given its channel back.    *)
THEOREM CoursesTaken == ASSUME MaxId \in Nat PROVE ToolsSpec => []CoursesKept
PROOF
  <1>1. ToolsInit => ToolsInv
    BY ToolsInvInit
  <1>2. ToolsInv /\ [ToolsNext]_courseVars => ToolsInv'
    BY ToolsInvNext
  <1>3. ToolsInv => CoursesKept
    <2> SUFFICES ASSUME ToolsInv PROVE CoursesKept
      OBVIOUS
    <2>1. ToolsTypeOK
      BY DEF ToolsInv, Orderly, PlaceOf, ToolTypes, ToolsTypeOK
    <2>2. WalkComplete /\ ChannelReleased
      BY OrderlyTells DEF ToolsInv
    <2>3. ExclusionNamed
      BY DEF ToolsInv, ExclusionOf, ExclusionNamed
    <2>4. ServerAccepted
      BY DEF ToolsInv, ServerOf, Guarded, ServerAccepted
    <2> QED
      BY <2>1, <2>2, <2>3, <2>4 DEF CoursesKept
  <1> QED
    BY <1>1, <1>2, <1>3, PTL DEF ToolsSpec

-------------------------------------------------------------------------------
(***************************************************************************)
(* How far a main still has to go.                                         *)
(***************************************************************************)
(* Where a place is in any of the courses. *)
Rank(place) ==
  CASE place = "json" -> 1 [] place = "list" -> 2 [] place = "test" -> 3 [] place = "leave" -> 4
    [] place = "exclude" -> 5 [] place = "find" -> 6 [] place = "init" -> 7
    [] place = "filter" -> 8 [] place = "start" -> 9 [] place = "trace" -> 10
    [] place = "risks" -> 11 [] place = "server" -> 12 [] place = "job" -> 13
    [] place = "abort" -> 14 [] place = "stop" -> 15 [] place = "teardown" -> 16
    [] place = "exit" -> 17

(* The calls that a walk can still make, and with them the steps of a main *)
(* to its end, at the most.                                                *)
CallsLeft(p) ==
  CASE iter[p] = "none" -> NumChannels + 2
    [] iter[p] = "more" -> NumChannels + 1 - idx_board[p]
    [] iter[p] = "end"  -> 0

MostSteps == 17 * (NumChannels + 3)

StepsLeft(p) == (17 - Rank(pc[p])) * (NumChannels + 3) + CallsLeft(p)

LEMMA RankAfter ==
  ASSUME NEW t \in DOMAIN Course, NEW place \in Places(t) \ {"teardown", "exit"}
  PROVE  Rank(place) < Rank(After(t, place))
PROOF
  <1>1. CASE t \in {"test", "send"}
    BY <1>1, ShortAfters, SMTT(60) DEF Rank
  <1>2. CASE t = "moni"
    BY <1>2, MoniAfters, SMTT(60) DEF Rank
  <1>3. CASE t = "port"
    BY <1>3, PortAfters, SMTT(60) DEF Rank
  <1>4. CASE t = "simu"
    BY <1>4, SimuAfters, SMTT(60) DEF Rank
  <1> QED
    BY <1>1, <1>2, <1>3, <1>4, Afters DEF Channeled

LEMMA RankOf == \A place \in Everywhere : Rank(place) \in 1 .. 17
PROOF
  BY DEF Everywhere, Rank

LEMMA PlacesKnown == \A t \in DOMAIN Course : Places(t) \subseteq Everywhere
PROOF
  <1>1. \A t \in {"test", "send"} : Places(t) \subseteq Everywhere
    BY ShortAfters DEF Everywhere
  <1>2. \A t \in {"moni", "port", "simu"} : Places(t) \subseteq Everywhere
    BY MoniAfters, PortAfters, SimuAfters DEF Everywhere
  <1> QED
    BY <1>1, <1>2, Afters DEF Channeled

(* The place counts for more than the walk. *)
LEMMA PlaceFirst ==
  ASSUME NEW k \in Nat, NEW a \in Nat, NEW b \in Nat, a < b,
         NEW v \in Nat, v < k, NEW w \in Nat
  PROVE  a * k + v < b * k + w
PROOF
  <1>1. PICK d \in Nat : b = a + 1 + d
    <2>1. b - a - 1 \in Nat /\ b = a + 1 + (b - a - 1)
      OBVIOUS
    <2> QED
      BY <2>1
  <1>2. b * k = a * k + k + d * k
    BY <1>1
  <1>3. d * k \in Nat /\ a * k \in Nat
    OBVIOUS
  <1> QED
    BY <1>2, <1>3

(* The weights in the measure. *)
LEMMA Weights ==
  ASSUME NEW n \in Nat, NEW r \in 1 .. 17, NEW c \in 0 .. n + 2
  PROVE  \E k \in Nat, a \in 0 .. 16, w \in Nat : w < k /\ k = n + 3 /\ a = 17 - r /\ w = c
PROOF
  <1>1. n + 3 \in Nat /\ 17 - r \in 0 .. 16 /\ c \in Nat /\ c < n + 3
    OBVIOUS
  <1> QED
    BY <1>1, Zenon

(* The measure of a main that is in order. *)
Measure ==
  \A p \in Programs : /\ Rank(pc[p]) \in 1 .. 17 /\ CallsLeft(p) \in 0 .. NumChannels + 2
                      /\ StepsLeft(p) \in 0 .. MostSteps

LEMMA Measured == ToolsInv => Measure
PROOF
  <1> SUFFICES ASSUME ToolsInv, NEW p \in Programs
               PROVE  /\ Rank(pc[p]) \in 1 .. 17 /\ CallsLeft(p) \in 0 .. NumChannels + 2
                      /\ StepsLeft(p) \in 0 .. MostSteps
    BY DEF Measure
  <1>1. /\ tool[p] \in DOMAIN Course /\ PlaceOf(p) /\ WalkOf(p) /\ NumChannels \in Nat
        /\ iter[p] \in {"none", "more", "end"} /\ idx_board[p] \in -1 .. NumChannels
    BY NumChannelsAssumption DEF ToolsInv, Orderly, MainTypeOK
  <1>2. pc[p] \in Everywhere
    BY <1>1, PlacesKnown DEF PlaceOf, Everywhere
  <1>3. Rank(pc[p]) \in 1 .. 17
    BY <1>2, RankOf
  <1>4. CallsLeft(p) \in 0 .. NumChannels + 2
    <2>1. iter[p] = "more" => 0 <= idx_board[p] /\ idx_board[p] < NumChannels
      BY <1>1 DEF WalkOf, WalkAt, Entry
    <2> QED
      BY <1>1, <2>1 DEF CallsLeft
  <1>5. StepsLeft(p) \in 0 .. MostSteps
    <2>1. PICK k \in Nat, a \in 0 .. 16, w \in Nat :
            w < k /\ k = NumChannels + 3 /\ a = 17 - Rank(pc[p]) /\ w = CallsLeft(p)
      BY <1>1, <1>3, <1>4, Weights
    <2>2. a \in Nat /\ a < 17
      OBVIOUS
    <2>3. a * k + w < 17 * k + 0
      BY <2>1, <2>2, PlaceFirst
    <2>4. a * k \in Nat
      BY <2>2
    <2> QED
      BY <2>1, <2>3, <2>4 DEF StepsLeft, MostSteps
  <1> QED
    BY <1>3, <1>4, <1>5

(* A call of a walk leaves less of it. *)
LEMMA WalkGoesOn ==
  ASSUME ToolsInv, NEW p \in Programs, GetFirstChannel(p) \/ GetNextChannel(p)
  PROVE  CallsLeft(p)' < CallsLeft(p)
PROOF
  <1>1. /\ MainTypeOK /\ WalkOf(p) /\ NumChannels \in Nat
    BY NumChannelsAssumption DEF ToolsInv, Orderly
  <1>2. ASSUME NEW i \in Nat, i <= NumChannels, MoveTo(p, i)
        PROVE  CallsLeft(p)' <= NumChannels + 1 - i
    <2>1. idx_board'[p] = i /\ iter'[p] = IF i < NumChannels THEN "more" ELSE "end"
      BY <1>1, <1>2 DEF MoveTo, MainTypeOK, Entry
    <2> QED
      BY <1>1, <1>2, <2>1 DEF CallsLeft
  <1>3. CASE GetFirstChannel(p)
    <2>1. CallsLeft(p) = NumChannels + 2
      BY <1>3 DEF GetFirstChannel, CallsLeft
    <2>2. MoveTo(p, 0)
      BY <1>3 DEF GetFirstChannel, FirstIndex
    <2>3. CallsLeft(p)' <= NumChannels + 1 - 0
      BY <1>1, <1>2, <2>2
    <2>4. CallsLeft(p)' \in Int
      <3>1. idx_board'[p] = 0 /\ iter'[p] \in {"more", "end"}
        BY <1>1, <2>2 DEF MoveTo, MainTypeOK
      <3> QED
        BY <1>1, <3>1 DEF CallsLeft
    <2> QED
      BY <1>1, <2>1, <2>3, <2>4
  <1>4. CASE GetNextChannel(p)
    <2>1. PICK i \in Nat : i = idx_board[p] /\ i < NumChannels
      BY <1>1, <1>4 DEF GetNextChannel, WalkOf, WalkAt, Entry, MainTypeOK
    <2>2. CallsLeft(p) = NumChannels + 1 - i
      BY <1>4, <2>1 DEF GetNextChannel, CallsLeft
    <2>3. MoveTo(p, i + 1)
      BY <1>4, <2>1 DEF GetNextChannel, NextIndex
    <2>4. CallsLeft(p)' <= NumChannels + 1 - (i + 1)
      BY <1>1, <1>2, <2>1, <2>3
    <2>5. CallsLeft(p)' \in Int
      <3>1. idx_board'[p] = i + 1 /\ iter'[p] \in {"more", "end"}
        BY <1>1, <2>3 DEF MoveTo, MainTypeOK
      <3> QED
        BY <1>1, <2>1, <3>1 DEF CallsLeft
    <2> QED
      BY <1>1, <2>1, <2>2, <2>4, <2>5
  <1> QED
    BY <1>3, <1>4

(* A step of main is a call of a walk, or main goes to a place that comes  *)
(* later in every course.                                                  *)
LEMMA MainStepMoves ==
  ASSUME ToolsInv, NEW p \in Programs, MainStep(p)
  PROVE  \/ UNCHANGED pc /\ (GetFirstChannel(p) \/ GetNextChannel(p))
         \/ Rank(pc[p]) < Rank(pc'[p])
PROOF
  <1> DEFINE t == tool[p]
  <1>1. /\ t \in DOMAIN Course /\ PlaceOf(p) /\ pc = [q \in Programs |-> pc[q]] /\ Orderly
    BY DEF ToolsInv, Orderly, MainTypeOK
  <1>2. pc[p] \in {"json", "list", "test", "leave", "find", "init", "filter", "start",
                   "trace", "teardown"}
    BY <1>1, MainStepCourse
  <1>3. pc[p] \in Places(t)
    BY <1>1, <1>2 DEF PlaceOf
  <1>4. ASSUME pc[p] # "teardown", GoOn(p) \/ Done(p) PROVE Rank(pc[p]) < Rank(pc'[p])
    <2>1. pc'[p] = After(t, pc[p])
      BY <1>1, <1>4 DEF GoOn, Done, Result, Goto
    <2> QED
      BY <1>1, <1>2, <1>3, <1>4, <2>1, RankAfter
  <1>5. ASSUME NEW code, Return(p, code) \/ Result(p, code, "exit") PROVE Rank(pc[p]) < Rank(pc'[p])
    <2>1. pc'[p] = "exit"
      BY <1>1, <1>5 DEF Return, Result, Goto
    <2> QED
      BY <1>2, <2>1 DEF Rank
  <1>6. ASSUME pc[p] # "teardown", Result(p, "error", "teardown") PROVE Rank(pc[p]) < Rank(pc'[p])
    <2>1. pc'[p] = "teardown"
      BY <1>1, <1>6 DEF Result, Goto
    <2> QED
      BY <1>2, <1>6, <2>1 DEF Rank
  <1>7. CASE List(p)
    BY <1>4, <1>7 DEF List
  <1>8. CASE Leave(p)
    BY <1>4, <1>5, <1>8 DEF Leave
  <1>9. CASE Find(p)
    BY <1>4, <1>5, <1>9 DEF Find
  <1>10. CASE InitializeChannel(p) \/ SetFilter(p) \/ StartController(p) \/ StartTrace(p)
    BY <1>4, <1>5, <1>6, <1>10 DEF InitializeChannel, SetFilter, StartController, StartTrace
  <1>11. CASE TeardownChannel(p)
    BY <1>5, <1>11 DEF TeardownChannel
  <1> QED
    BY <1>7, <1>8, <1>9, <1>10, <1>11 DEF MainStep

(* The steps beside those of Utility go on to a later place. *)
LEMMA ToolStepMoves ==
  ASSUME ToolsInv, NEW p \in Programs,
         Exclude(p) \/ AcceptRisks(p) \/ StartServer(p) \/ Job(p) \/ StopServer(p)
  PROVE  Rank(pc[p]) < Rank(pc'[p]) /\ UNCHANGED tool
PROOF
  <1> DEFINE t == tool[p]
  <1>1. /\ t \in DOMAIN Course /\ PlaceOf(p) /\ pc = [q \in Programs |-> pc[q]]
    BY DEF ToolsInv, Orderly, MainTypeOK
  <1>2. pc[p] \in {"exclude", "risks", "server", "job", "abort", "stop"} /\ UNCHANGED tool
    BY DEF Exclude, AcceptRisks, StartServer, Job, StopServer, beside
  <1>3. \/ GoOn(p) \/ Done(p)
        \/ \E code \in {"OK", "error"} : Return(p, code)
        \/ Result(p, retVal[p], "teardown")
    BY DEF Exclude, AcceptRisks, StartServer, Job, StopServer, GiveUp
  <1>4. \/ pc'[p] = After(t, pc[p]) \/ pc'[p] \in {"exit", "teardown"}
    BY <1>1, <1>3 DEF GoOn, Done, Return, Result, Goto
  <1>5. CASE pc'[p] = After(t, pc[p])
    BY <1>1, <1>2, <1>5, RankAfter DEF PlaceOf
  <1>6. CASE pc'[p] \in {"exit", "teardown"}
    BY <1>2, <1>6 DEF Rank
  <1> QED
    BY <1>2, <1>4, <1>5, <1>6

LEMMA ToolsStepMoves ==
  ASSUME ToolsInv, Measure, Measure', NEW p \in Programs,
         \/ MainStep(p) /\ UNCHANGED toolVars
         \/ Exclude(p) \/ AcceptRisks(p) \/ StartServer(p) \/ Job(p) \/ StopServer(p)
  PROVE  /\ StepsLeft(p)' < StepsLeft(p)
         /\ \A q \in Programs \ {p} : StepsLeft(q)' = StepsLeft(q)
PROOF
  <1>1. \/ UNCHANGED pc /\ (GetFirstChannel(p) \/ GetNextChannel(p))
        \/ Rank(pc[p]) < Rank(pc'[p])
    BY MainStepMoves, ToolStepMoves
  <1>2. NumChannels \in Nat
    BY NumChannelsAssumption
  <1>3. PICK k \in Nat, a \in 0 .. 16, w \in Nat :
          w < k /\ k = NumChannels + 3 /\ a = 17 - Rank(pc[p]) /\ w = CallsLeft(p)
    BY <1>2, Weights DEF Measure
  <1>4. PICK b \in 0 .. 16, v \in Nat : v < k /\ b = 17 - Rank(pc'[p]) /\ v = CallsLeft(p)'
    <2>1. Rank(pc'[p]) \in 1 .. 17 /\ CallsLeft(p)' \in 0 .. NumChannels + 2
      BY DEF Measure
    <2>2. 17 - Rank(pc'[p]) \in 0 .. 16 /\ CallsLeft(p)' \in Nat /\ CallsLeft(p)' < k
      BY <1>2, <1>3, <2>1
    <2> QED
      BY <2>2, Zenon
  <1>5. StepsLeft(p) = a * k + w /\ StepsLeft(p)' = b * k + v
    BY <1>3, <1>4 DEF StepsLeft
  <1>6. b * k + v < a * k + w
    <2>1. CASE UNCHANGED pc /\ (GetFirstChannel(p) \/ GetNextChannel(p))
      <3>1. a = b /\ v < w
        BY <1>3, <1>4, <2>1, WalkGoesOn
      <3>2. a * k \in Nat
        OBVIOUS
      <3> QED
        BY <3>1, <3>2
    <2>2. CASE Rank(pc[p]) < Rank(pc'[p])
      <3>1. b < a
        <4>1. Rank(pc[p]) \in 1 .. 17 /\ Rank(pc'[p]) \in 1 .. 17
          BY DEF Measure
        <4> QED
          BY <1>3, <1>4, <2>2, <4>1
      <3>2. a \in Nat /\ b \in Nat /\ v < k
        BY <1>4
      <3> QED
        BY <3>1, <3>2, PlaceFirst
    <2> QED
      BY <1>1, <2>1, <2>2
  <1>7. ASSUME NEW q \in Programs \ {p} PROVE StepsLeft(q)' = StepsLeft(q)
    <2>1. pc'[q] = pc[q] /\ iter'[q] = iter[q] /\ idx_board'[q] = idx_board[q]
      <3>1. CASE MainStep(p)
        BY <3>1, MainStepBeside DEF ToolsInv, Beside
      <3>2. CASE Exclude(p) \/ AcceptRisks(p) \/ StartServer(p) \/ Job(p) \/ StopServer(p)
        <4>1. UNCHANGED walkVars /\ \E place : pc' = [pc EXCEPT ![p] = place]
          BY <3>2 DEF Exclude, AcceptRisks, StartServer, Job, StopServer, beside, GiveUp, GoOn,
                      Done, Return, Result, Goto
        <4>2. pc = [r \in Programs |-> pc[r]]
          BY DEF ToolsInv, Orderly
        <4> QED
          BY <4>1, <4>2 DEF walkVars
      <3> QED
        BY <3>1, <3>2
    <2> QED
      BY <2>1 DEF StepsLeft, CallsLeft
  <1> QED
    BY <1>5, <1>6, <1>7

(* Every step of a program brings that program nearer to its end, and none *)
(* of the others further from theirs: no walk through the channel list, no *)
(* failure and no way back keeps a main going, and each of them is at its  *)
(* end after MostSteps steps of its own at the latest, the job counted as  *)
(* one.                                                                    *)
THEOREM CoursesEnd ==
  ASSUME MaxId \in Nat
  PROVE  ToolsSpec =>
           /\ [](\A p \in Programs : StepsLeft(p) \in 0 .. MostSteps)
           /\ [][\E p \in Programs :
                   /\ StepsLeft(p)' < StepsLeft(p)
                   /\ \A q \in Programs \ {p} : StepsLeft(q)' = StepsLeft(q)]_courseVars
PROOF
  <1> DEFINE Nearer == \E p \in Programs :
                         /\ StepsLeft(p)' < StepsLeft(p)
                         /\ \A q \in Programs \ {p} : StepsLeft(q)' = StepsLeft(q)
  <1>1. ToolsInit => ToolsInv
    BY ToolsInvInit
  <1>2. ToolsInv /\ [ToolsNext]_courseVars => ToolsInv'
    BY ToolsInvNext
  <1>3. ToolsInv => Measure
    BY Measured
  <1>4. Measure => \A p \in Programs : StepsLeft(p) \in 0 .. MostSteps
    BY DEF Measure
  <1>5. ToolsInv /\ Measure /\ Measure' /\ [ToolsNext]_courseVars => [Nearer]_courseVars
    BY ToolsStepMoves DEF ToolsNext
  <1> QED
    BY <1>1, <1>2, <1>3, <1>4, <1>5, PTL DEF ToolsSpec

-------------------------------------------------------------------------------
(***************************************************************************)
(* The parts of the invariant.                                             *)
(***************************************************************************)
Top == Values(MaxWidth)

LineTop == Values(LineWidth)

Widths == MinWidth .. MaxWidth

MainPlaces ==
  {"json", "list", "test", "leave", "find", "init", "filter", "start", "trace", "job", "teardown"}

TypeJob ==
  /\ job \in {"time", "frames", "random", "send"}
  /\ stop \in BOOLEAN /\ acks \in BOOLEAN /\ number \in [Programs -> 0 .. Top - 1]
  /\ tool = [p \in Programs |-> IF p = tx /\ job = "send" THEN "send" ELSE "test"]
  /\ pc[tx] \in MainPlaces \cup {"write", "check", "line", "exit"}
  /\ pc[rx] \in MainPlaces \cup {"check", "wait", "exit"}
  /\ pc[tx] = "line" => job = "send"

LineRecords ==
  [left : Nat, count : Nat, data : 0 .. LineTop - 1, first : 0 .. LineTop - 1, incr : -1 .. 1]

TypeTx ==
  /\ frames \in 0 .. (IF job = "send" THEN MaxLines ELSE MaxFrames)
  /\ job # "send" /\ pc[tx] = "write" => frames < MaxFrames
  /\ line \in LineRecords /\ line.left <= line.count
  /\ job = "send" /\ pc[tx] = "write" => line.left >= 1
  /\ batch \in Seq(0 .. LineTop - 1) /\ Len(batch) = line.count - line.left
  /\ sent \in Int

Frames == [n : 0 .. Top - 1, width : Widths]

TypeRx ==
  /\ rxq \in Seq(Frames) /\ Len(rxq) <= QueueSize
  /\ expected \in 0 .. Top - 1
  /\ judged \in [prev : Frames, now : Frames, alarm : BOOLEAN]

Types == Orderly /\ TypeJob /\ TypeTx /\ TypeRx

(* A message that a transmitter test has counted is on the bus. *)
NumbersFollow == job # "send" /\ acks => sent = Uint64(number[tx] + frames - 1)

(* The receiver test expects the number after what the data of the message *)
(* it has judged keeps, until it has stopped on an error.                  *)
Following(frame) == Uint64(Carried(frame.n, frame.width) + 1)

ExpectsNext == pc[rx] \notin {"teardown", "exit"} => expected = Following(judged.now)

(* The number that a message k lines after the first one has. *)
NumberAt(k) == (line.first + k * line.incr) % LineTop

BatchCounted ==
  line.incr # 0 =>
    /\ line.data = NumberAt(line.count - line.left)
    /\ \A i \in 1 .. line.count - line.left : batch[i] = NumberAt(i - 1)

Inv == Types /\ NumbersFollow /\ ExpectsNext /\ AlarmsTell /\ BatchCounted
-------------------------------------------------------------------------------
(***************************************************************************)
(* Numbers in the data of a message.                                       *)
(***************************************************************************)
LEMMA TopNat ==
  /\ Top \in Nat \ {0} /\ MaxWidth \in Widths
  /\ LineTop \in Nat \ {0} /\ LineTop <= Top /\ LineWidth \in Widths
PROOF
  <1>1. MaxWidth \in Widths /\ LineWidth \in Widths /\ LineWidth <= MaxWidth
    BY WidthAssumption DEF Widths
  <1> QED
    BY <1>1, PowersAssumption DEF Top, LineTop, Widths

(* The data of a message tells as many numbers apart as fit into it, and   *)
(* that many divides whatever wider data tells.                            *)
LEMMA Powers ==
  ASSUME NEW v \in Widths, NEW w \in Widths, v <= w
  PROVE  /\ Values(v) \in Nat \ {0} /\ Values(w) \in Nat \ {0} /\ Values(w) % Values(v) = 0
         /\ v < w => Values(v) < Values(w)
PROOF
  <1>1. w <= w
    BY WidthAssumption DEF Widths
  <1> QED
    BY <1>1, PowersAssumption DEF Widths

LEMMA BelowTop ==
  ASSUME NEW w \in Widths
  PROVE  /\ Values(w) \in Nat \ {0} /\ Values(w) <= Top /\ Top % Values(w) = 0
         /\ w < MaxWidth <=> Values(w) < Top
PROOF
  <1>1. w <= MaxWidth /\ (w < MaxWidth \/ w = MaxWidth) /\ MaxWidth \in Widths
    BY WidthAssumption DEF Widths
  <1> QED
    BY <1>1, TopNat, Powers DEF Top

LEMMA CarriedRange ==
  ASSUME NEW n \in Nat, NEW w \in Widths
  PROVE  /\ Carried(n, w) \in 0 .. Top - 1
         /\ n < Values(w) => Carried(n, w) = n
PROOF
  <1>1. Values(w) \in Nat \ {0} /\ Values(w) <= Top /\ Top \in Nat
    BY TopNat, BelowTop
  <1>2. PICK m \in Nat \ {0} : m = Values(w)
    BY <1>1
  <1>3. n % m \in 0 .. m - 1 /\ (n < m => n % m = n)
    OBVIOUS
  <1> QED
    BY <1>1, <1>2, <1>3 DEF Carried

LEMMA Uint64Range ==
  ASSUME NEW n \in Int
  PROVE  Uint64(n) \in 0 .. Top - 1 /\ Uint64(n) = n % Top
PROOF
  <1>1. PICK m \in Nat \ {0} : m = Top
    BY TopNat
  <1>2. n % m \in 0 .. m - 1
    OBVIOUS
  <1> QED
    BY <1>1, <1>2 DEF Uint64, Top

(* Counting by one modulo a number. *)
LEMMA SameQuotient ==
  ASSUME NEW m \in Nat \ {0}, NEW q \in Int, NEW r \in Int, NEW p \in Int, NEW s \in Int,
         m * q + r = m * p + s, 0 <= r, r < m, 0 <= s, s < m
  PROVE  r = s
PROOF
  <1>1. q = p
    OBVIOUS
  <1> QED
    BY <1>1

LEMMA Division ==
  ASSUME NEW a \in Int, NEW m \in Nat \ {0}
  PROVE  \E q \in Int, r \in Int : a = m * q + r /\ r = a % m /\ 0 <= r /\ r < m
PROOF
  <1>1. /\ a = m * (a \div m) + (a % m) /\ a \div m \in Int
        /\ a % m \in Int /\ 0 <= a % m /\ a % m < m
    OBVIOUS
  <1> QED
    BY <1>1

LEMMA ModuloStep ==
  ASSUME NEW a \in Int, NEW b \in Int, NEW m \in Nat \ {0}
  PROVE  ((a % m) + b) % m = (a + b) % m
PROOF
  <1>1. PICK q \in Int, r \in Int : a = m * q + r /\ r = a % m
    BY Division
  <1>2. a + b \in Int /\ r + b \in Int
    OBVIOUS
  <1>3. PICK q1 \in Int, r1 \in Int : a + b = m * q1 + r1 /\ r1 = (a + b) % m /\ 0 <= r1 /\ r1 < m
    BY <1>2, Division
  <1>4. PICK q2 \in Int, r2 \in Int : r + b = m * q2 + r2 /\ r2 = (r + b) % m /\ 0 <= r2 /\ r2 < m
    BY <1>2, Division
  <1>5. m * q1 + r1 = m * (q + q2) + r2 /\ q + q2 \in Int
    BY <1>1, <1>3, <1>4, SMTT(60)
  <1>6. r1 = r2
    BY <1>3, <1>4, <1>5, SameQuotient, ZenonT(90)
  <1> QED
    BY <1>1, <1>3, <1>4, <1>6

LEMMA ModuloNext ==
  ASSUME NEW a \in Int, NEW m \in Nat \ {0}
  PROVE  ((a % m) + 1) % m = (a + 1) % m
PROOF
  <1>1. 1 \in Int
    OBVIOUS
  <1> QED
    BY <1>1, ModuloStep, Zenon

(* A remainder of a remainder, where the one divides the other. *)
LEMMA Nested ==
  ASSUME NEW a \in Int, NEW t \in Nat \ {0}, NEW m \in Nat \ {0}, t % m = 0
  PROVE  (a % t) % m = a % m
PROOF
  <1>1. PICK q \in Int, r \in Int : a = t * q + r /\ r = a % t
    BY Division
  <1>2. PICK k \in Int, z \in Int : t = m * k + z /\ z = t % m
    BY Division
  <1>3. PICK q1 \in Int, r1 \in Int : r = m * q1 + r1 /\ r1 = r % m /\ 0 <= r1 /\ r1 < m
    BY Division
  <1>4. PICK q2 \in Int, r2 \in Int : a = m * q2 + r2 /\ r2 = a % m /\ 0 <= r2 /\ r2 < m
    BY Division
  <1>5. t = m * k
    BY <1>2
  <1>6. a = (m * k) * q + (m * q1 + r1)
    BY <1>1, <1>3, <1>5
  <1>7. (m * k) * q + (m * q1 + r1) = m * (k * q + q1) + r1 /\ k * q + q1 \in Int
    BY SMTT(60)
  <1>8. m * (k * q + q1) + r1 = m * q2 + r2
    BY <1>4, <1>6, <1>7
  <1>9. r1 = r2
    BY <1>3, <1>4, <1>7, <1>8, SameQuotient
  <1> QED
    BY <1>1, <1>3, <1>4, <1>9

(* Numbers p and n, of which the data keeps p % v and n % w: what it means *)
(* that the second is the one expected after the first.                    *)
Meaning(t, v, w, p, n) ==
  LET quiet == n % w = ((p % v) + 1) % t
  IN  /\ p < v /\ n < w => (quiet <=> n = (p + 1) % t)
      /\ \A l \in {v, w} : v % l = 0 /\ w % l = 0 /\ quiet => (n - p - 1) % l = 0
      /\ v = w /\ n = (p + 1) % t => (~quiet <=> w < t /\ n % w = 0)

LEMMA Expecting ==
  ASSUME NEW t \in Nat \ {0}, NEW v \in Nat \ {0}, NEW w \in Nat \ {0},
         NEW p \in 0 .. t - 1, NEW n \in 0 .. t - 1,
         v <= t, w <= t, t % v = 0, t % w = 0
  PROVE  Meaning(t, v, w, p, n)
PROOF
  <1>0. p \in Int /\ n \in Int /\ p + 1 \in Int
    OBVIOUS
  <1>1. p < v => p % v = p
    OBVIOUS
  <1>2. n < w => n % w = n
    OBVIOUS
  <1>3. ASSUME NEW l \in {v, w}, v % l = 0, w % l = 0, n % w = ((p % v) + 1) % t
        PROVE  (n - p - 1) % l = 0
    <2>1. l \in Nat \ {0} /\ t % l = 0
      OBVIOUS
    <2>2. PICK r \in Int : r = p % v
      OBVIOUS
    <2>3. r + 1 \in Int /\ p + 1 \in Int
      OBVIOUS
    <2>4. n % l = (n % w) % l
      BY <1>0, <1>3, <2>1, Nested, Zenon
    <2>5. ((r + 1) % t) % l = (r + 1) % l
      BY <2>1, <2>3, Nested
    <2>6. r % l = p % l
      BY <1>0, <1>3, <2>1, <2>2, Nested, Zenon
    <2>7. (r + 1) % l = (p + 1) % l
      <3>1. ((r % l) + 1) % l = (r + 1) % l
        BY <2>1, <2>2, ModuloNext, Zenon
      <3>2. ((p % l) + 1) % l = (p + 1) % l
        BY <1>0, <2>1, ModuloNext, Zenon
      <3> QED
        BY <2>6, <3>1, <3>2
    <2>8. n % l = (p + 1) % l
      BY <1>3, <2>2, <2>4, <2>5, <2>7
    <2>9. PICK b \in Int : b = -(p + 1)
      BY <2>3
    <2>10. ((n % l) + b) % l = (n + b) % l
      BY <1>0, <2>1, <2>9, ModuloStep, Zenon
    <2>11. (((p + 1) % l) + b) % l = ((p + 1) + b) % l
      BY <1>0, <2>1, <2>9, ModuloStep, Zenon
    <2>12. n + b = n - p - 1 /\ (p + 1) + b = 0 /\ 0 % l = 0
      BY <2>1, <2>9
    <2> QED
      BY <2>8, <2>10, <2>11, <2>12
  <1>4. ASSUME v = w, n = (p + 1) % t
        PROVE  n % w # ((p % v) + 1) % t <=> w < t /\ n % w = 0
    <2>1. n % w = (p + 1) % w
      BY <1>0, <1>4, Nested, Zenon
    <2>2. PICK r \in 0 .. w - 1 : r = p % w
      OBVIOUS
    <2>3. n % w = (r + 1) % w
      BY <1>0, <2>1, <2>2, ModuloNext, Zenon
    <2>4. CASE r + 1 = w
      <3>1. (r + 1) % w = 0
        BY <2>4
      <3>2. w < t => (r + 1) % t = w
        BY <2>4
      <3>3. w = t => (r + 1) % t = 0
        BY <2>4, <3>1
      <3> QED
        BY <1>4, <2>2, <2>3, <3>1, <3>2, <3>3
    <2>5. CASE r + 1 < w
      <3>1. (r + 1) % w = r + 1 /\ (r + 1) % t = r + 1
        BY <2>5
      <3> QED
        BY <1>4, <2>2, <2>3, <3>1
    <2> QED
      BY <2>2, <2>4, <2>5
  <1>5. p < v /\ n < w => (n % w = ((p % v) + 1) % t <=> n = (p + 1) % t)
    BY <1>1, <1>2
  <1> QED
    BY <1>3, <1>4, <1>5 DEF Meaning
-------------------------------------------------------------------------------
(***************************************************************************)
(* The places of both programs.                                            *)
(***************************************************************************)
JobPlaces == {"job", "write", "check", "line", "wait"}

LEMMA JobSteps ==
  ASSUME Orderly, NEW p \in Programs, NEW from \in JobPlaces, NEW to \in JobPlaces \cup {"teardown"},
         JobStep(p, from, to)
  PROVE  /\ Orderly' /\ pc[p] = from /\ pc'[p] = to
         /\ \A q \in Programs : q # p => pc'[q] = pc[q]
         /\ UNCHANGED <<tool, jobVars>>
PROOF
  <1>1. /\ pc[p] = from /\ pc' = [pc EXCEPT ![p] = to]
        /\ UNCHANGED <<tool, idx_board, iter, listed, fExit, chan, retVal, running, jobVars>>
    BY DEF JobStep, Step, Goto, walkVars
  <1>2. /\ pc'[p] = to /\ pc' = [q \in Programs |-> pc'[q]]
        /\ \A q \in Programs : q # p => pc'[q] = pc[q]
    BY <1>1 DEF Orderly
  <1>3. MainTypeOK'
    BY <1>1 DEF Orderly, MainTypeOK
  <1>4. WalkOf(p)' /\ ChannelOf(p)'
    BY <1>1, <1>2 DEF Orderly, MainTypeOK, JobPlaces, WalkOf, WalkAt, WalkPlaces, ChannelOf,
                      ChannelAt, Unopened
  <1>5. ASSUME NEW q \in Programs, q # p PROVE WalkOf(q)' /\ ChannelOf(q)'
    BY <1>1, <1>2, <1>5 DEF Orderly, WalkOf, ChannelOf
  <1> QED
    BY <1>1, <1>2, <1>3, <1>4, <1>5 DEF Orderly

(* A step of a main, or of the signal handler. *)
LEMMA MainSteps ==
  ASSUME Orderly, TypeJob, NEW p \in Programs, InMain(p) \/ Signal(p)
  PROVE  /\ Orderly' /\ UNCHANGED <<tool, jobVars>>
         /\ \A q \in Programs : q # p => pc'[q] = pc[q]
         /\ \/ pc[p] \in MainPlaces \ {"job"} /\ pc'[p] \in MainPlaces \cup {"exit"}
            \/ pc'[p] = pc[p]
            \/ pc[p] = "wait" /\ pc'[p] = "check"
         /\ pc[p] \in {"teardown", "exit"} => pc'[p] \in {"teardown", "exit"}
         /\ UNCHANGED <<txVars, rxVars>>
PROOF
  <1>0. tool[p] \in {"test", "send"}
    BY DEF TypeJob
  <1>1. ASSUME MainStep(p), UNCHANGED <<jobVars, txVars, rxVars>>
        PROVE  /\ Orderly' /\ UNCHANGED <<tool, jobVars>>
               /\ \A q \in Programs : q # p => pc'[q] = pc[q]
               /\ pc[p] \in MainPlaces \ {"job"} /\ pc'[p] \in MainPlaces \cup {"exit"}
               /\ pc[p] = "teardown" => pc'[p] = "exit"
    <2>1. Orderly'
      BY <1>0, <1>1, ShortLeads, MainStepOrderly
    <2>2. Beside(p)
      BY <1>1, MainStepBeside
    <2>3. /\ pc'[p] \in Places(tool[p]) \cup {"exit"} /\ pc[p] \in Places(tool[p]) \ {"job"}
          /\ pc[p] = "teardown" => pc'[p] = "exit"
      BY <1>0, <1>1, MainStepPlaces
    <2>4. Places(tool[p]) = MainPlaces
      BY <1>0, ShortAfters DEF MainPlaces
    <2> QED
      BY <1>1, <2>1, <2>2, <2>3, <2>4 DEF Beside
  <1>2. CASE InMain(p)
    <2>1. "exit" \notin MainPlaces
      BY DEF MainPlaces
    <2> QED
      BY <1>1, <1>2, <2>1 DEF InMain
  <1>3. CASE Signal(p)
    <2>1. /\ running' = [running EXCEPT ![p] = FALSE]
          /\ \/ pc' = pc
             \/ pc[p] = "wait" /\ pc' = [pc EXCEPT ![p] = "check"]
          /\ UNCHANGED <<tool, idx_board, iter, listed, fExit, chan, retVal, jobVars, txVars, rxVars>>
      BY <1>3 DEF Signal, Goto, walkVars
    <2>2. MainTypeOK'
      BY <2>1 DEF Orderly, MainTypeOK
    <2>3. /\ pc' = [q \in Programs |-> pc'[q]] /\ \A q \in Programs : q # p => pc'[q] = pc[q]
          /\ pc'[p] = pc[p] \/ (pc[p] = "wait" /\ pc'[p] = "check")
      <3>1. pc = [q \in Programs |-> pc[q]]
        BY DEF Orderly
      <3>2. CASE pc' = pc
        BY <3>1, <3>2
      <3>3. CASE pc[p] = "wait" /\ pc' = [pc EXCEPT ![p] = "check"]
        BY <3>1, <3>3
      <3> QED
        BY <2>1, <3>2, <3>3
    <2>4. ASSUME NEW q \in Programs PROVE WalkOf(q)' /\ ChannelOf(q)'
      <3>1. CASE pc'[q] = pc[q]
        BY <2>1, <3>1 DEF Orderly, WalkOf, ChannelOf
      <3>2. CASE pc[q] = "wait" /\ pc'[q] = "check"
        BY <2>1, <3>2 DEF Orderly, WalkOf, WalkAt, WalkPlaces, ChannelOf, ChannelAt, Unopened
      <3> QED
        BY <2>3, <3>1, <3>2
    <2> QED
      BY <2>1, <2>2, <2>3, <2>4 DEF Orderly
  <1> QED
    BY <1>2, <1>3
(***************************************************************************)
(* The steps, by what they do to messages and lines.                       *)
(***************************************************************************)
Quiet ==
  /\ UNCHANGED <<line, batch, sent, rxVars>>
  /\ \/ frames' = frames
     \/ job = "send" /\ frames < MaxLines /\ frames' = frames + 1
  /\ pc'[tx] = "write" =>
       \/ pc[tx] = "write" /\ frames' = frames
       \/ job # "send" /\ frames < MaxFrames /\ frames' = frames

Counts(w) ==
  /\ job # "send" /\ frames < MaxFrames /\ frames' = frames + 1 /\ pc'[tx] = "check"
  /\ Put([n |-> Uint64(number[tx] + frames), width |-> w])
  /\ UNCHANGED <<line, batch>>

Starts(l) ==
  /\ job = "send" /\ frames < MaxLines /\ frames' = frames + 1
  /\ line' = [left |-> l.count, count |-> l.count, data |-> l.data, first |-> l.data, incr |-> l.incr]
  /\ batch' = <<>>
  /\ UNCHANGED <<sent, rxVars>>

SendsOne ==
  /\ job = "send" /\ line.left >= 1 /\ (pc'[tx] = "write" => line.left # 1)
  /\ batch' = Append(batch, line.data)
  /\ line' = [line EXCEPT !.left = @ - 1, !.data = Counted(@, line.incr)]
  /\ Put([n |-> line.data, width |-> LineWidth])
  /\ UNCHANGED frames

Judges ==
  /\ rxq # <<>> /\ rxq' = Tail(rxq) /\ pc[rx] = "job"
  /\ LET frame == Head(rxq)
         data  == Carried(frame.n, frame.width)
         alarm == data # expected
     IN  /\ judged' = [prev |-> judged.now, now |-> frame, alarm |-> alarm]
         /\ expected' = IF alarm /\ stop THEN expected ELSE Uint64(data + 1)
         /\ pc'[rx] = IF alarm /\ stop THEN "teardown" ELSE "check"
  /\ pc'[tx] = pc[tx] /\ UNCHANGED txVars

(* A program on its way out does not come back. *)
NoReturn == pc[rx] \in {"teardown", "exit"} => pc'[rx] \in {"teardown", "exit"}

Kinds ==
  /\ Orderly' /\ TypeJob' /\ NoReturn /\ UNCHANGED jobVars
  /\ \/ Quiet \/ SendsOne \/ Judges
     \/ \E w \in Widths : Counts(w)
     \/ \E l \in Lines : Starts(l)

LEMMA TwoPrograms == tx \in Programs /\ rx \in Programs /\ tx # rx /\ Programs = {tx, rx}
PROOF
  BY ProgramsAssumption

(* The parts of Kinds that every step of a job has. *)
LEMMA JobKinds ==
  ASSUME Types, NEW p \in Programs, NEW from \in JobPlaces, NEW to \in JobPlaces \cup {"teardown"},
         JobStep(p, from, to),
         p = tx => to # "wait" /\ (to = "line" => job = "send"),
         p = rx => to \notin {"write", "line"}
  PROVE  /\ Orderly' /\ TypeJob' /\ NoReturn /\ UNCHANGED jobVars
         /\ pc[p] = from /\ pc'[p] = to
         /\ \A q \in Programs : q # p => pc'[q] = pc[q]
PROOF
  <1>1. /\ Orderly' /\ pc[p] = from /\ pc'[p] = to
        /\ \A q \in Programs : q # p => pc'[q] = pc[q]
        /\ UNCHANGED <<tool, jobVars>>
    BY JobSteps DEF Types
  <1>2. UNCHANGED <<job, stop, acks, faulty, number, tool>>
    BY <1>1 DEF jobVars
  <1>3. TypeJob
    BY DEF Types
  <1>4. CASE p = tx
    BY <1>1, <1>2, <1>3, <1>4, TwoPrograms DEF TypeJob, NoReturn, JobPlaces, MainPlaces
  <1>5. CASE p = rx
    BY <1>1, <1>2, <1>3, <1>5, TwoPrograms DEF TypeJob, NoReturn, JobPlaces, MainPlaces
  <1> QED
    BY <1>1, <1>4, <1>5, TwoPrograms

LEMMA SenderKinds ==
  ASSUME Types, TxLoop \/ TxWrite \/ TxCheck \/ SendLoop \/ SendWrite \/ ReadLine
  PROVE  Kinds
PROOF
  <1> USE TwoPrograms DEF JobPlaces, txVars, rxVars
  <1> DEFINE Rest == Orderly' /\ TypeJob' /\ NoReturn /\ UNCHANGED jobVars
  <1>0. frames \in Int
    BY DEF Types, TypeTx
  <1>1. ASSUME TxLoop PROVE Kinds
    <2>1. PICK to \in {"write", "teardown"} :
            /\ job # "send" /\ JobStep(tx, "job", to) /\ UNCHANGED <<txVars, rxVars>>
            /\ to = "write" => frames < MaxFrames
      BY <1>1 DEF TxLoop
    <2>2. Rest /\ pc'[tx] = to
      BY <2>1, JobKinds
    <2> QED
      BY <2>1, <2>2 DEF Kinds, Quiet
  <1>2. ASSUME TxWrite PROVE Kinds
    <2>1. JobStep(tx, "write", "check") /\ job # "send" /\ UNCHANGED <<line, batch>>
      BY <1>2 DEF TxWrite
    <2>2. Rest /\ pc[tx] = "write" /\ pc'[tx] = "check"
      BY <2>1, JobKinds
    <2>3. frames < MaxFrames
      BY <2>1, <2>2 DEF Types, TypeTx
    <2>4. CASE GivesUp /\ frames' = Failed /\ UNCHANGED <<busy, sent, rxVars>>
      BY <2>1, <2>2, <2>4 DEF Kinds, Quiet, Failed
    <2>5. ASSUME NEW w \in Width, frames' = frames + 1,
                 Put([n |-> Uint64(number[tx] + frames), width |-> w])
          PROVE  Kinds
      <3>1. w \in Widths
        BY WidthAssumption DEF Width, Widths
      <3> QED
        BY <2>1, <2>2, <2>3, <2>5, <3>1 DEF Kinds, Counts
    <2> QED
      BY <1>2, <2>4, <2>5 DEF TxWrite
  <1>3. ASSUME TxCheck PROVE Kinds
    <2>1. PICK to \in {"job", "teardown"} : JobStep(tx, "check", to) /\ UNCHANGED <<txVars, rxVars>>
      BY <1>3 DEF TxCheck
    <2>2. Rest /\ pc'[tx] = to
      BY <2>1, JobKinds
    <2> QED
      BY <2>1, <2>2 DEF Kinds, Quiet
  <1>4. ASSUME SendLoop PROVE Kinds
    <2>1. PICK to \in {"line", "teardown"} :
            job = "send" /\ JobStep(tx, "job", to) /\ UNCHANGED <<txVars, rxVars>>
      BY <1>4 DEF SendLoop
    <2>2. Rest /\ pc'[tx] = to
      BY <2>1, JobKinds
    <2> QED
      BY <2>1, <2>2 DEF Kinds, Quiet
  <1>5. ASSUME SendWrite PROVE Kinds
    <2>1. job = "send" /\ pc[tx] = "write" /\ UNCHANGED frames
      BY <1>5 DEF SendWrite
    <2>2. line.left >= 1
      BY <2>1 DEF Types, TypeTx
    <2>3. CASE JobStep(tx, "write", "job") /\ UNCHANGED <<batch, line, busy, sent, rxVars>>
      <3>1. Rest /\ pc'[tx] = "job"
        BY <2>3, JobKinds
      <3> QED
        BY <2>1, <2>3, <3>1 DEF Kinds, Quiet
    <2>4. ASSUME JobStep(tx, "write", IF line.left = 1 THEN "job" ELSE "write"),
                 batch' = Append(batch, line.data),
                 line' = [line EXCEPT !.left = @ - 1, !.data = Counted(@, line.incr)],
                 Put([n |-> line.data, width |-> LineWidth])
          PROVE  Kinds
      <3>1. PICK to \in {"job", "write"} : JobStep(tx, "write", to) /\ (to = "write" => line.left # 1)
        BY <2>4
      <3>2. Rest /\ pc'[tx] = to
        BY <3>1, JobKinds
      <3> QED
        BY <2>1, <2>2, <2>4, <3>1, <3>2 DEF Kinds, SendsOne
    <2> QED
      BY <1>5, <2>3, <2>4 DEF SendWrite
  <1>6. ASSUME ReadLine PROVE Kinds
    <2>1. frames < MaxLines /\ frames' = frames + 1 /\ UNCHANGED <<timeUp, busy, sent, rxVars>>
      BY <1>6 DEF ReadLine
    <2>2. pc[tx] = "line" => job = "send"
      BY DEF Types, TypeJob
    <2>3. ASSUME NEW l \in Lines, JobStep(tx, "line", "write"), batch' = <<>>,
                 line' = [left |-> l.count, count |-> l.count, data |-> l.data,
                          first |-> l.data, incr |-> l.incr]
          PROVE  Kinds
      <3>1. Rest /\ pc[tx] = "line"
        BY <2>3, JobKinds
      <3> QED
        BY <2>1, <2>2, <2>3, <3>1 DEF Kinds, Starts
    <2>4. ASSUME JobStep(tx, "line", "job") \/ JobStep(tx, "line", "teardown"), UNCHANGED <<line, batch>>
          PROVE  Kinds
      <3>1. PICK to \in {"job", "teardown"} : JobStep(tx, "line", to)
        BY <2>4
      <3>2. Rest /\ pc[tx] = "line" /\ pc'[tx] = to
        BY <3>1, JobKinds
      <3> QED
        BY <2>1, <2>2, <2>4, <3>2 DEF Kinds, Quiet
    <2> QED
      BY <1>6, <2>3, <2>4 DEF ReadLine
  <1> QED
    BY <1>1, <1>2, <1>3, <1>4, <1>5, <1>6

LEMMA ReceiverKinds ==
  ASSUME Types, RxRead \/ RxWait \/ RxCheck
  PROVE  Kinds
PROOF
  <1> USE TwoPrograms DEF JobPlaces, rxVars
  <1> DEFINE Rest == Orderly' /\ TypeJob' /\ NoReturn /\ UNCHANGED jobVars
  <1>1. ASSUME NEW from \in {"job", "wait", "check"}, NEW to \in {"job", "wait", "check", "teardown"},
               JobStep(rx, from, to), UNCHANGED <<txVars, rxVars>>
        PROVE  Kinds
    <2>1. Rest /\ pc'[tx] = pc[tx]
      BY <1>1, JobKinds
    <2> QED
      BY <1>1, <2>1 DEF Kinds, Quiet, txVars
  <1>2. ASSUME rxq # <<>>, Compare(Head(rxq)), rxq' = Tail(rxq), UNCHANGED txVars PROVE Kinds
    <2>1. PICK to \in {"check", "teardown"} :
            /\ JobStep(rx, "job", to)
            /\ LET frame == Head(rxq)
                   data  == Carried(frame.n, frame.width)
                   alarm == data # expected
               IN  /\ judged' = [prev |-> judged.now, now |-> frame, alarm |-> alarm]
                   /\ expected' = IF alarm /\ stop THEN expected ELSE Uint64(data + 1)
                   /\ to = IF alarm /\ stop THEN "teardown" ELSE "check"
      BY <1>2 DEF Compare
    <2>2. Rest /\ pc[rx] = "job" /\ pc'[rx] = to /\ pc'[tx] = pc[tx]
      BY <2>1, JobKinds
    <2> QED
      BY <1>2, <2>1, <2>2 DEF Kinds, Judges
  <1>3. CASE RxRead
    BY <1>1, <1>2, <1>3 DEF RxRead
  <1>4. CASE RxWait \/ RxCheck
    BY <1>1, <1>4 DEF RxWait, RxCheck
  <1> QED
    BY <1>3, <1>4

LEMMA StepKinds ==
  ASSUME Types, [Next]_vars
  PROVE  Kinds
PROOF
  <1> USE DEF Types
  <1>1. ASSUME NEW p \in Programs, InMain(p) \/ Signal(p) PROVE Kinds
    <2>1. /\ Orderly' /\ UNCHANGED <<tool, jobVars>>
          /\ \A q \in Programs : q # p => pc'[q] = pc[q]
          /\ \/ pc[p] \in MainPlaces \ {"job"} /\ pc'[p] \in MainPlaces \cup {"exit"}
             \/ pc'[p] = pc[p]
             \/ pc[p] = "wait" /\ pc'[p] = "check"
          /\ pc[p] \in {"teardown", "exit"} => pc'[p] \in {"teardown", "exit"}
          /\ UNCHANGED <<txVars, rxVars>>
      BY <1>1, MainSteps
    <2>2. TypeJob'
      BY <2>1, TwoPrograms DEF TypeJob, jobVars, MainPlaces
    <2>3. NoReturn
      BY <2>1, TwoPrograms DEF NoReturn
    <2>4. pc'[tx] = "write" => pc[tx] = "write"
      BY <2>1, TwoPrograms DEF MainPlaces
    <2> QED
      BY <2>1, <2>2, <2>3, <2>4 DEF Kinds, Quiet, txVars
  <1>2. CASE Drain \/ TimeUp \/ UNCHANGED vars
    <2>1. UNCHANGED <<mainVars, jobVars, frames, line, batch, sent, rxVars>>
      BY <1>2 DEF Drain, TimeUp, vars, txVars, jobVars, mainVars
    <2>2. Orderly'
      BY <2>1 DEF mainVars, Orderly, MainTypeOK, WalkOf, WalkAt, ChannelOf, ChannelAt
    <2>3. TypeJob' /\ NoReturn
      BY <2>1 DEF mainVars, jobVars, TypeJob, NoReturn
    <2> QED
      BY <2>1, <2>2, <2>3 DEF Kinds, Quiet, mainVars
  <1>3. CASE TxLoop \/ TxWrite \/ TxCheck \/ SendLoop \/ SendWrite \/ ReadLine
    BY <1>3, SenderKinds
  <1>4. CASE RxRead \/ RxWait \/ RxCheck
    BY <1>4, ReceiverKinds
  <1> QED
    BY <1>1, <1>2, <1>3, <1>4, TwoPrograms DEF Next, Sender, Receiver
-------------------------------------------------------------------------------
(***************************************************************************)
(* Types.                                                                  *)
(***************************************************************************)
LEMMA Putting ==
  ASSUME Types, NEW frame \in Frames, Put(frame)
  PROVE  TypeRx' /\ sent' \in Int
PROOF
  <1>1. rxq \in Seq(Frames) /\ Len(rxq) <= QueueSize /\ QueueSize \in Nat /\ Len(rxq) \in Nat
    BY BoundsAssumption, LenProperties DEF Types, TypeRx
  <1>2. frame \in Frames
    OBVIOUS
  <1>3. rxq' \in Seq(Frames) /\ Len(rxq') <= QueueSize
    <2>1. Append(rxq, frame) \in Seq(Frames) /\ Len(Append(rxq, frame)) = Len(rxq) + 1
      BY <1>1, <1>2, AppendProperties
    <2>2. \/ rxq' = rxq
          \/ Len(rxq) < QueueSize /\ rxq' = Append(rxq, frame)
      BY DEF Put
    <2> QED
      BY <1>1, <2>1, <2>2
  <1>4. TypeRx'
    BY <1>3 DEF Types, TypeRx, Put
  <1>5. sent' \in Int
    <2>1. frame.n \in Int
      BY TopNat DEF Frames
    <2> QED
      BY <2>1 DEF Types, TypeTx, Put
  <1> QED
    BY <1>4, <1>5

(* The number that the data of the next message has. *)
LEMMA CountedRange ==
  ASSUME NEW data \in 0 .. LineTop - 1, NEW incr \in -1 .. 1
  PROVE  Counted(data, incr) \in 0 .. LineTop - 1
PROOF
  <1>1. PICK m \in Nat \ {0} : m = LineTop
    BY TopNat
  <1>2. data + incr \in Int
    OBVIOUS
  <1>3. (data + incr) % m \in 0 .. m - 1
    BY <1>2
  <1>4. Counted(data, incr) \in {0, (data + incr) % m}
    BY <1>1 DEF Counted, LineTop
  <1> QED
    BY <1>1, <1>3, <1>4

LEMMA TypesStep ==
  ASSUME Types, [Next]_vars
  PROVE  Types'
PROOF
  <1>1. Kinds /\ job' = job /\ Orderly' /\ TypeJob'
    BY StepKinds DEF Kinds, jobVars
  <1>2. TypeTx /\ TypeRx
    BY DEF Types
  <1>3. MaxFrames \in Nat /\ MaxLines \in Nat /\ frames \in Int
    BY <1>2, BoundsAssumption DEF TypeTx
  <1>4. CASE Quiet
    <2>1. TypeTx'
      BY <1>1, <1>2, <1>3, <1>4 DEF Quiet, TypeTx
    <2>2. TypeRx'
      BY <1>2, <1>4 DEF Quiet, TypeRx, rxVars
    <2> QED
      BY <1>1, <2>1, <2>2 DEF Types
  <1>5. ASSUME NEW w \in Widths, Counts(w) PROVE Types'
    <2>1. frames \in Nat
      BY <1>2 DEF TypeTx
    <2>2. [n |-> Uint64(number[tx] + frames), width |-> w] \in Frames
      <3>1. number[tx] + frames \in Int
        BY <2>1, TwoPrograms DEF Types, TypeJob
      <3> QED
        BY <3>1, Uint64Range DEF Frames
    <2>3. TypeRx' /\ sent' \in Int
      BY <1>5, <2>2, Putting DEF Counts
    <2>4. TypeTx'
      BY <1>1, <1>2, <1>3, <1>5, <2>3 DEF Counts, TypeTx
    <2> QED
      BY <1>1, <2>3, <2>4 DEF Types
  <1>6. ASSUME NEW l \in Lines, Starts(l) PROVE Types'
    <2>1. /\ l.count \in Nat /\ l.count >= 1 /\ l.data \in 0 .. LineTop - 1 /\ l.incr \in -1 .. 1
      BY LinesAssumption DEF LineTop
    <2>2. line' \in LineRecords /\ line'.left = l.count /\ line'.count = l.count
      BY <1>6, <2>1 DEF Starts, LineRecords
    <2>3. batch' \in Seq(0 .. LineTop - 1) /\ Len(batch') = line'.count - line'.left
      <3>1. batch' = <<>>
        BY <1>6 DEF Starts
      <3>2. <<>> \in Seq(0 .. LineTop - 1) /\ Len(<<>>) = 0
        BY EmptySeq
      <3>3. batch' \in Seq(0 .. LineTop - 1) /\ Len(batch') = 0
        BY <3>1, <3>2, Zenon
      <3> QED
        BY <2>1, <2>2, <3>3
    <2>4. TypeTx'
      BY <1>1, <1>2, <1>3, <1>6, <2>1, <2>2, <2>3 DEF Starts, TypeTx
    <2>5. TypeRx'
      BY <1>2, <1>6 DEF Starts, TypeRx, rxVars
    <2> QED
      BY <1>1, <2>4, <2>5 DEF Types
  <1>7. CASE SendsOne
    <2>1. line \in LineRecords /\ line.left \in Nat /\ line.left >= 1 /\ line.left <= line.count
      BY <1>2, <1>7 DEF SendsOne, TypeTx, LineRecords
    <2>2. Counted(line.data, line.incr) \in 0 .. LineTop - 1
      BY <2>1, CountedRange DEF LineRecords
    <2>3. line' \in LineRecords /\ line'.left = line.left - 1 /\ line'.count = line.count
      <3>1. PICK d \in 0 .. LineTop - 1, k \in Nat : d = Counted(line.data, line.incr) /\ k = line.left - 1
        BY <2>1, <2>2
      <3>2. line' = [line EXCEPT !.left = k, !.data = d]
        BY <1>7, <3>1 DEF SendsOne
      <3> QED
        BY <2>1, <3>1, <3>2 DEF LineRecords
    <2>4. batch' \in Seq(0 .. LineTop - 1) /\ Len(batch') = Len(batch) + 1
      <3>1. line.data \in 0 .. LineTop - 1 /\ batch \in Seq(0 .. LineTop - 1)
        BY <1>2, <2>1 DEF LineRecords, TypeTx
      <3> QED
        BY <1>7, <3>1, AppendProperties DEF SendsOne
    <2>5. [n |-> line.data, width |-> LineWidth] \in Frames
      BY <2>1, TopNat DEF LineRecords, Frames
    <2>6. TypeRx' /\ sent' \in Int
      BY <1>7, <2>5, Putting DEF SendsOne
    <2>7. Len(batch) = line.count - line.left /\ line.count \in Nat
      BY <1>2, <2>1 DEF TypeTx, LineRecords
    <2>8. TypeTx'
      BY <1>1, <1>2, <1>3, <1>7, <2>1, <2>3, <2>4, <2>6, <2>7, SMTT(60) DEF SendsOne, TypeTx
    <2> QED
      BY <1>1, <2>6, <2>8 DEF Types
  <1>8. CASE Judges
    <2>1. TypeTx'
      BY <1>1, <1>2, <1>8 DEF Judges, TypeTx, txVars
    <2>2. TypeRx'
      <3>1. rxq \in Seq(Frames) /\ rxq # <<>> /\ Len(rxq) <= QueueSize
        BY <1>2, <1>8 DEF Judges, TypeRx
      <3>2. /\ Head(rxq) \in Frames /\ Tail(rxq) \in Seq(Frames)
            /\ Len(Tail(rxq)) = Len(rxq) - 1 /\ Len(rxq) \in Nat
        BY <3>1, HeadTailProperties, LenProperties
      <3>3. rxq' \in Seq(Frames) /\ Len(rxq') <= QueueSize
        BY <1>8, <3>1, <3>2, BoundsAssumption DEF Judges
      <3>4. PICK n \in Nat, w \in Widths : Head(rxq) = [n |-> n, width |-> w]
        BY <3>2 DEF Frames
      <3>5. PICK data \in Nat : data = Carried(n, w)
        BY CarriedRange
      <3>6. Uint64(data + 1) \in 0 .. Top - 1
        BY Uint64Range
      <3>7. expected' \in 0 .. Top - 1
        BY <1>2, <1>8, <3>4, <3>5, <3>6 DEF Judges, TypeRx
      <3>8. judged' \in [prev : Frames, now : Frames, alarm : BOOLEAN]
        BY <1>2, <1>8, <3>2 DEF Judges, TypeRx
      <3> QED
        BY <3>3, <3>7, <3>8 DEF TypeRx
    <2> QED
      BY <1>1, <2>1, <2>2 DEF Types
  <1> QED
    BY <1>1, <1>4, <1>5, <1>6, <1>7, <1>8 DEF Kinds
-------------------------------------------------------------------------------
(***************************************************************************)
(* Numbers on the bus, alarms, and the numbers of a line.                  *)
(***************************************************************************)
(* The number of a frame follows the last one on the bus. *)
LEMMA NumbersStep ==
  ASSUME Types, NumbersFollow, [Next]_vars
  PROVE  NumbersFollow' /\ (job # "send" /\ sent' # sent => sent' = Uint64(sent + 1))
PROOF
  <1>1. Kinds /\ UNCHANGED <<job, acks, number>>
    BY StepKinds DEF Kinds, jobVars
  <1>2. frames \in Int /\ sent \in Int
    BY DEF Types, TypeTx
  <1>3. CASE Quiet
    BY <1>1, <1>3 DEF Quiet, NumbersFollow, Uint64
  <1>4. ASSUME NEW w \in Widths, Counts(w)
        PROVE  NumbersFollow' /\ (job # "send" /\ sent' # sent => sent' = Uint64(sent + 1))
    <2>1. /\ job # "send" /\ frames' = frames + 1
          /\ sent' = IF acks THEN Uint64(number[tx] + frames) ELSE sent
      BY <1>4 DEF Counts, Put
    <2>2. PICK k \in Int : k = number[tx] + frames
      BY <1>2, TwoPrograms DEF Types, TypeJob
    <2>3. number[tx] + frames - 1 = k - 1 /\ number[tx] + (frames + 1) - 1 = k
      BY <1>2, <2>2, TwoPrograms DEF Types, TypeJob
    <2>4. Uint64(Uint64(k - 1) + 1) = Uint64(k)
      <3>1. k - 1 \in Int /\ (k - 1) + 1 = k
        OBVIOUS
      <3>2. (((k - 1) % Top) + 1) % Top = ((k - 1) + 1) % Top
        BY <3>1, TopNat, ModuloNext, Zenon
      <3> QED
        BY <3>1, <3>2 DEF Uint64, Top
    <2>5. NumbersFollow'
      BY <1>1, <2>1, <2>2, <2>3 DEF NumbersFollow, Uint64
    <2>6. acks => sent' = Uint64(sent + 1)
      BY <2>1, <2>2, <2>3, <2>4 DEF NumbersFollow
    <2> QED
      BY <2>1, <2>5, <2>6
  <1>5. ASSUME NEW l \in Lines, Starts(l)
        PROVE  NumbersFollow' /\ (job # "send" /\ sent' # sent => sent' = Uint64(sent + 1))
    BY <1>1, <1>5 DEF Starts, NumbersFollow, Uint64
  <1>6. CASE SendsOne
    BY <1>1, <1>6 DEF SendsOne, NumbersFollow, Uint64
  <1>7. CASE Judges
    BY <1>1, <1>7 DEF Judges, NumbersFollow, Uint64, txVars
  <1> QED
    BY <1>1, <1>3, <1>4, <1>5, <1>6, <1>7 DEF Kinds

(* What an alarm tells, given what was expected.                           *)
LEMMA AlarmMeans ==
  ASSUME NEW prev \in Frames, NEW now \in Frames
  PROVE  LET quiet == Carried(now.n, now.width) = Following(prev)
         IN  /\ Fits(prev) /\ Fits(now) => (quiet <=> now.n = Uint64(prev.n + 1))
             /\ quiet => (now.n - prev.n - 1) % Values(Lesser(prev.width, now.width)) = 0
             /\ prev.width = now.width /\ now.n = Uint64(prev.n + 1) =>
                  (~quiet <=> now.width < MaxWidth /\ Carried(now.n, now.width) = 0)
PROOF
  <1>1. PICK x \in Widths, y \in Widths : x = prev.width /\ y = now.width
    BY DEF Frames
  <1>2. PICK t \in Nat \ {0}, v \in Nat \ {0}, w \in Nat \ {0} :
          /\ t = Top /\ v = Values(x) /\ w = Values(y)
          /\ v <= t /\ w <= t /\ t % v = 0 /\ t % w = 0 /\ (y < MaxWidth <=> w < t)
    BY TopNat, BelowTop
  <1>3. PICK p \in 0 .. t - 1, n \in 0 .. t - 1 : p = prev.n /\ n = now.n
    BY <1>2 DEF Frames
  <1>4. PICK l \in {v, w} : l = Values(Lesser(x, y)) /\ v % l = 0 /\ w % l = 0
    <2>1. v % v = 0 /\ w % w = 0
      OBVIOUS
    <2>2. x <= y \/ (~(x <= y) /\ y <= x)
      BY WidthAssumption DEF Widths
    <2> QED
      BY <1>2, <2>1, <2>2, Powers DEF Lesser
  <1>5. /\ Carried(now.n, now.width) = n % w /\ Following(prev) = ((p % v) + 1) % t
        /\ Uint64(prev.n + 1) = (p + 1) % t
        /\ (Fits(prev) <=> p < v) /\ (Fits(now) <=> n < w)
    BY <1>1, <1>2, <1>3 DEF Carried, Following, Uint64, Top, Fits
  <1>6. /\ p < v /\ n < w => (n % w = ((p % v) + 1) % t <=> n = (p + 1) % t)
        /\ n % w = ((p % v) + 1) % t => (n - p - 1) % l = 0
        /\ v = w /\ n = (p + 1) % t => (n % w # ((p % v) + 1) % t <=> w < t /\ n % w = 0)
    <2>1. Meaning(t, v, w, p, n)
      BY <1>2, <1>3, Expecting
    <2> QED
      BY <1>4, <2>1, Zenon DEF Meaning
  <1>7. x = y => v = w
    BY <1>2
  <1> QED
    BY <1>1, <1>2, <1>3, <1>4, <1>5, <1>6, <1>7

LEMMA AlarmsStep ==
  ASSUME Types, ExpectsNext, AlarmsTell, [Next]_vars
  PROVE  ExpectsNext' /\ AlarmsTell'
PROOF
  <1> USE DEF AlarmsTell, AlarmsExact, QuietTells, FalseAlarms
  <1>1. Kinds /\ NoReturn
    BY StepKinds DEF Kinds
  <1>2. CASE UNCHANGED <<expected, judged>>
    <2>1. ExpectsNext'
      BY <1>1, <1>2 DEF NoReturn, ExpectsNext, Following, Uint64, Carried
    <2>2. AlarmsTell'
      BY <1>2 DEF Fits, Uint64, Carried
    <2> QED
      BY <2>1, <2>2
  <1>3. CASE Judges
    <2>1. rxq \in Seq(Frames) /\ rxq # <<>> /\ judged.now \in Frames
      BY <1>3 DEF Types, TypeRx, Judges
    <2>2. PICK prev \in Frames, now \in Frames : prev = judged.now /\ now = Head(rxq)
      BY <2>1, HeadTailProperties
    <2>3. PICK alarm \in BOOLEAN :
            /\ alarm = (Carried(now.n, now.width) # expected)
            /\ judged' = [prev |-> prev, now |-> now, alarm |-> alarm]
            /\ expected' = IF alarm /\ stop THEN expected ELSE Following(now)
            /\ pc'[rx] = IF alarm /\ stop THEN "teardown" ELSE "check"
      BY <1>3, <2>2 DEF Judges, Following
    <2>4. judged'.now = now /\ judged'.prev = prev /\ judged'.alarm = alarm
      BY <2>3
    <2>5. expected = Following(prev)
      BY <1>3, <2>2 DEF Judges, ExpectsNext
    <2>6. ExpectsNext'
      BY <2>3, <2>4 DEF ExpectsNext, Following, Uint64, Carried
    <2>7. AlarmsTell'
      <3>1. alarm <=> ~(Carried(now.n, now.width) = Following(prev))
        BY <2>3, <2>5
      <3>2. /\ Fits(prev) /\ Fits(now) => (~alarm <=> now.n = Uint64(prev.n + 1))
            /\ ~alarm => (now.n - prev.n - 1) % Values(Lesser(prev.width, now.width)) = 0
            /\ prev.width = now.width /\ now.n = Uint64(prev.n + 1) =>
                 (alarm <=> now.width < MaxWidth /\ Carried(now.n, now.width) = 0)
        BY <3>1, AlarmMeans
      <3> QED
        BY <2>4, <3>2 DEF Fits, Uint64, Carried
    <2> QED
      BY <2>6, <2>7
  <1>4. ASSUME ~Judges PROVE UNCHANGED <<expected, judged>>
    BY <1>1, <1>4 DEF Kinds, Quiet, SendsOne, Counts, Starts, Put, rxVars
  <1> QED
    BY <1>2, <1>3, <1>4

LEMMA LineStep ==
  ASSUME Types, BatchCounted, [Next]_vars
  PROVE  BatchCounted'
PROOF
  <1>1. Kinds
    BY StepKinds
  <1>2. CASE UNCHANGED <<line, batch>>
    BY <1>2 DEF BatchCounted, NumberAt
  <1>3. ASSUME NEW l \in Lines, Starts(l) PROVE BatchCounted'
    <2>1. l.count \in Nat /\ l.data \in 0 .. LineTop - 1 /\ l.incr \in -1 .. 1
      BY LinesAssumption DEF LineTop
    <2>2. /\ line'.left = l.count /\ line'.count = l.count /\ line'.data = l.data
          /\ line'.first = l.data /\ line'.incr = l.incr
      BY <1>3 DEF Starts
    <2>3. line'.count - line'.left = 0 /\ l.data + 0 * l.incr = l.data
      BY <2>1, <2>2
    <2>4. l.data % LineTop = l.data
      <3>1. PICK d \in Nat, m \in Nat \ {0} : d = l.data /\ m = LineTop /\ d < m
        BY <2>1, TopNat
      <3>2. d % m = d
        BY <3>1
      <3> QED
        BY <3>1, <3>2
    <2> QED
      BY <2>2, <2>3, <2>4 DEF BatchCounted, NumberAt
  <1>4. CASE SendsOne
    <2> SUFFICES ASSUME line'.incr # 0
                 PROVE  /\ line'.data = NumberAt(line.count - line.left)'
                        /\ \A i \in 1 .. line'.count - line'.left : batch'[i] = NumberAt(i - 1)'
      BY DEF BatchCounted
    <2>1. PICK k \in Nat, first \in Int, incr \in Int, data \in Int, m \in Nat \ {0} :
            /\ k = line.count - line.left /\ first = line.first /\ incr = line.incr
            /\ data = line.data /\ m = LineTop
      BY TopNat DEF Types, TypeTx, LineRecords
    <2>2. /\ line'.left = line.left - 1 /\ line'.count = line.count /\ line'.first = first
          /\ line'.incr = incr /\ line'.data = Counted(data, incr)
      BY <1>4, <2>1 DEF SendsOne, Types, TypeTx, LineRecords
    <2>3. incr # 0 /\ line'.count - line'.left = k + 1
      BY <2>1, <2>2, SMTT(60) DEF Types, TypeTx, LineRecords
    <2>4. /\ data = (first + k * incr) % m
          /\ \A i \in 1 .. k : batch[i] = (first + (i - 1) * incr) % m
      BY <2>1, <2>3 DEF BatchCounted, NumberAt
    <2>5. \A j \in Int : NumberAt(j)' = (first + j * incr) % m
      BY <2>1, <2>2 DEF NumberAt, LineTop
    <2>6. line'.data = (first + (k + 1) * incr) % m
      <3>1. line'.data = (data + incr) % m
        BY <2>1, <2>2, <2>3 DEF Counted, LineTop
      <3>2. first + k * incr \in Int /\ (first + k * incr) + incr = first + (k + 1) * incr
        OBVIOUS
      <3>3. (((first + k * incr) % m) + incr) % m = ((first + k * incr) + incr) % m
        BY <3>2, ModuloStep
      <3> QED
        BY <2>4, <3>1, <3>2, <3>3
    <2>7. /\ \A i \in 1 .. k : batch'[i] = batch[i]
          /\ batch'[k + 1] = data
      <3>1. batch \in Seq(0 .. LineTop - 1) /\ Len(batch) = k /\ data \in 0 .. LineTop - 1
        BY <2>1 DEF Types, TypeTx, LineRecords
      <3>2. batch' = Append(batch, data)
        BY <1>4, <2>1 DEF SendsOne
      <3> QED
        BY <3>1, <3>2, AppendProperties
    <2>8. \A i \in 1 .. k + 1 : batch'[i] = (first + (i - 1) * incr) % m
      <3>1. ASSUME NEW i \in 1 .. k + 1 PROVE batch'[i] = (first + (i - 1) * incr) % m
        <4>1. CASE i = k + 1
          <5>1. i - 1 = k
            BY <4>1
          <5> QED
            BY <2>4, <2>7, <4>1, <5>1
        <4>2. CASE i \in 1 .. k
          BY <2>4, <2>7, <4>2
        <4> QED
          BY <4>1, <4>2
      <3> QED
        BY <3>1
    <2> QED
      BY <2>3, <2>5, <2>6, <2>8
  <1>5. ASSUME ~SendsOne, \A l \in Lines : ~Starts(l) PROVE UNCHANGED <<line, batch>>
    BY <1>1, <1>5 DEF Kinds, Quiet, Counts, Judges, txVars
  <1> QED
    BY <1>2, <1>3, <1>4, <1>5
-------------------------------------------------------------------------------
(***************************************************************************)
(* The invariant.                                                          *)
(***************************************************************************)
LEMMA InvInit == Init => Inv
PROOF
  <1> SUFFICES ASSUME Init PROVE Inv
    OBVIOUS
  <1>1. /\ job \in {"time", "frames", "random", "send"} /\ acks \in BOOLEAN /\ stop \in BOOLEAN
        /\ tool = [p \in Programs |-> IF p = tx /\ job = "send" THEN "send" ELSE "test"]
        /\ frames = 0 /\ line = NoLine /\ batch = <<>> /\ sent = Uint64(number[tx] - 1)
        /\ rxq = <<>> /\ expected = number[rx]
        /\ judged = [prev |-> Start(number[rx] - 2), now |-> Start(number[rx] - 1), alarm |-> FALSE]
        /\ number \in [Programs -> 0 .. Top - 1]
    BY NumbersAssumption DEF Init, Top
  <1>2. \A p \in Programs : tool[p] \in {"test", "send"} /\ Head(Course[tool[p]]) = "json"
    BY <1>1, ShortAfters
  <1>3. /\ pc = [p \in Programs |-> "json"]
        /\ idx_board = [p \in Programs |-> -1] /\ iter = [p \in Programs |-> "none"]
        /\ listed = [p \in Programs |-> <<>>] /\ fExit = [p \in Programs |-> FALSE]
        /\ chan = [p \in Programs |-> "closed"] /\ retVal = [p \in Programs |-> "error"]
        /\ running = [p \in Programs |-> TRUE]
    BY <1>2 DEF Init, Main
  <1>4. PICK k \in 0 .. Top - 1, m \in 0 .. Top - 1 : k = number[tx] /\ m = number[rx]
    BY <1>1, TwoPrograms
  <1>5. k - 1 \in Int /\ m - 1 \in Int /\ m - 2 \in Int
    BY TopNat
  <1>6. Orderly
    <2>1. tool \in [Programs -> DOMAIN Course]
      BY <1>1 DEF Course
    <2>2. MainTypeOK
      BY <1>3, <2>1, NumChannelsAssumption DEF MainTypeOK
    <2>3. \A p \in Programs : WalkOf(p) /\ ChannelOf(p)
      BY <1>3 DEF WalkOf, WalkAt, ChannelOf, ChannelAt
    <2> QED
      BY <1>3, <2>2, <2>3 DEF Orderly
  <1>7. TypeJob
    BY <1>1, <1>3, TwoPrograms DEF TypeJob, MainPlaces
  <1>8. TypeTx
    <2>1. line \in LineRecords /\ line.count = 0 /\ line.left = 0
      BY <1>1, TopNat DEF NoLine, LineRecords
    <2>2. batch \in Seq(0 .. LineTop - 1) /\ Len(batch) = 0
      BY <1>1, EmptySeq, Zenon
    <2>3. pc[tx] = "json"
      BY <1>3, TwoPrograms
    <2>4. Uint64(k - 1) \in Int
      BY <1>5, Uint64Range, TopNat
    <2> QED
      BY <1>1, <1>4, <2>1, <2>2, <2>3, <2>4, BoundsAssumption DEF TypeTx
  <1>9. TypeRx
    <2>1. rxq \in Seq(Frames) /\ Len(rxq) = 0
      BY <1>1, EmptySeq, Zenon
    <2>2. Start(m - 2) \in Frames /\ Start(m - 1) \in Frames
      BY <1>5, Uint64Range, TopNat DEF Start, Frames
    <2> QED
      BY <1>1, <1>4, <2>1, <2>2, BoundsAssumption DEF TypeRx
  <1>10. NumbersFollow /\ ExpectsNext /\ AlarmsTell
    <2>1. \A i \in Int : Uint64(Uint64(i) + 1) = Uint64(i + 1)
      <3>1. \A i \in Int : ((i % Top) + 1) % Top = (i + 1) % Top
        BY TopNat, ModuloNext, Zenon
      <3> QED
        BY <3>1 DEF Uint64, Top
    <2>2. NumbersFollow
      BY <1>1, <1>4 DEF NumbersFollow
    <2>3. PICK prev \in Frames, now \in Frames :
            /\ prev = [n |-> Uint64(m - 2), width |-> MaxWidth]
            /\ now = [n |-> Uint64(m - 1), width |-> MaxWidth]
      BY <1>5, Uint64Range, TopNat DEF Frames
    <2>4. judged.prev = prev /\ judged.now = now /\ judged.alarm = FALSE
      BY <1>1, <1>4, <2>3 DEF Start
    <2>5. \A i \in Int : Carried(Uint64(i), MaxWidth) = Uint64(i)
      <3>1. ASSUME NEW i \in Int PROVE Carried(Uint64(i), MaxWidth) = Uint64(i)
        <4>1. Uint64(i) \in Nat /\ Uint64(i) < Values(MaxWidth)
          BY Uint64Range, TopNat DEF Top
        <4> QED
          BY <4>1, CarriedRange, TopNat
      <3> QED
        BY <3>1
    <2>6. Uint64((m - 2) + 1) = Uint64(m - 1) /\ Uint64((m - 1) + 1) = m
      <3>1. (m - 2) + 1 = m - 1 /\ (m - 1) + 1 = m /\ m % Top = m
        BY TopNat
      <3> QED
        BY <3>1, Uint64Range, TopNat
    <2>7. Following(prev) = now.n /\ Following(now) = m /\ now.n = Uint64(prev.n + 1)
      BY <1>5, <2>1, <2>3, <2>5, <2>6 DEF Following
    <2>8. ExpectsNext
      BY <1>1, <1>4, <2>4, <2>7 DEF ExpectsNext
    <2>9. Carried(now.n, now.width) = Following(prev)
      BY <1>5, <2>3, <2>5, <2>7
    <2>10. AlarmsTell
      BY <2>4, <2>7, <2>9, AlarmMeans DEF AlarmsTell, AlarmsExact, QuietTells, FalseAlarms
    <2> QED
      BY <2>2, <2>8, <2>10
  <1>11. BatchCounted
    BY <1>1 DEF BatchCounted, NoLine
  <1> QED
    BY <1>6, <1>7, <1>8, <1>9, <1>10, <1>11 DEF Inv, Types

LEMMA InvNext == Inv /\ [Next]_vars => Inv'
PROOF
  BY TypesStep, NumbersStep, AlarmsStep, LineStep DEF Inv

LEMMA InvHolds == Spec => []Inv
PROOF
  <1>1. Init => Inv
    BY InvInit
  <1>2. Inv /\ [Next]_vars => Inv'
    BY InvNext
  <1> QED
    BY <1>1, <1>2, PTL DEF Spec

LEMMA InvTypes == Inv => TypeOK
PROOF
  <1> SUFFICES ASSUME Inv PROVE TypeOK
    OBVIOUS
  <1>1. Orderly /\ TypeJob /\ TypeTx /\ TypeRx
    BY DEF Inv, Types
  <1>2. ASSUME NEW p \in Programs
        PROVE  pc[p] \in Places(tool[p]) \cup {"write", "check", "line", "wait", "exit"}
    <2>1. tool[p] \in {"test", "send"}
      BY <1>1 DEF TypeJob
    <2>2. Places(tool[p]) = MainPlaces
      BY <2>1, ShortAfters DEF MainPlaces
    <2> QED
      BY <1>1, <2>2, TwoPrograms DEF TypeJob
  <1>3. line.data \in 0 .. Values(LineWidth) - 1 /\ Len(batch) <= line.count
    BY <1>1 DEF TypeTx, LineRecords, LineTop
  <1> QED
    BY <1>1, <1>2, <1>3 DEF Orderly, TypeTx, TypeRx, TypeOK, Top
-------------------------------------------------------------------------------
(* Both programs keep to their way through main, whatever the bus, the     *)
(* device, the user and a signal do: every walk through the channel list   *)
(* comes by all its entries in order, the interface opened is the one that *)
(* was asked for, and a program that ends well has given its channel back. *)
THEOREM ProgramsOrderly == Spec => []MainOrderly
PROOF
  <1>1. Inv => MainOrderly
    BY InvTypes, OrderlyTells DEF Inv, Types, MainOrderly
  <1> QED
    BY <1>1, InvHolds, PTL

(* What an error of the receiver test tells, for data of any width and     *)
(* numbers of any size: where the numbers fit into the data, exactly that  *)
(* messages between the last two it received are missing; without an error *)
(* none is missing, or a multiple of what the shorter data tells apart;    *)
(* and where the data alone wraps the error is a false one.                *)
THEOREM AlarmsAreTrue == Spec => []AlarmsTell
PROOF
  <1>1. Inv => AlarmsTell
    BY DEF Inv
  <1> QED
    BY <1>1, InvHolds, PTL

(* The messages that can_send sends for a line that counts have the        *)
(* numbers of the line in order, also where they wrap.                     *)
THEOREM LinesCounted == Spec => []LineCounted
PROOF
  <1>1. ASSUME Inv PROVE LineCounted
    <2> SUFFICES ASSUME line.incr # 0
                 PROVE  batch = [i \in 1 .. line.count - line.left |-> NumberAt(i - 1)]
      BY DEF LineCounted, NumberAt, LineTop
    <2>1. PICK k \in Nat : k = line.count - line.left
      BY <1>1 DEF Inv, Types, TypeTx, LineRecords
    <2>2. batch \in Seq(0 .. LineTop - 1) /\ Len(batch) = k
      BY <1>1, <2>1 DEF Inv, Types, TypeTx
    <2>3. DOMAIN batch = 1 .. k /\ batch = [i \in 1 .. k |-> batch[i]]
      BY <2>2, LenProperties
    <2>4. \A i \in 1 .. k : batch[i] = NumberAt(i - 1)
      BY <1>1, <2>1 DEF Inv, BatchCounted
    <2> QED
      BY <2>1, <2>3, <2>4
  <1> QED
    BY <1>1, InvHolds, PTL

(* The messages of a transmitter test are numbered without a gap and       *)
(* without a repetition on the bus, however often a write was refused,     *)
(* repeated or given up.                                                   *)
THEOREM NumbersFollowOn == Spec => NumbersConsecutive
PROOF
  <1>1. Inv /\ [Next]_vars => [job # "send" /\ sent' # sent => sent' = Uint64(sent + 1)]_vars
    BY NumbersStep DEF Inv
  <1> QED
    BY <1>1, InvHolds, PTL DEF Spec, NumbersConsecutive
===============================================================================
