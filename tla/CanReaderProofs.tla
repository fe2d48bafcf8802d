---------------------------- MODULE CanReaderProofs ----------------------------
(***************************************************************************)
(* Theorems about the blocking read, for every queue size, time limit and  *)
(* number of frames.                                                       *)
(***************************************************************************)
EXTENDS CanReader, SequenceTheorems, TLAPS

(***************************************************************************)
(* Types.  The flags, the time variables and the frames are treated apart. *)
(***************************************************************************)
TypeFlags ==
  /\ running \in BOOLEAN
  /\ overrun \in BOOLEAN /\ told \in BOOLEAN
  /\ readable \in BOOLEAN /\ failed \in BOOLEAN

TypeTime ==
  /\ timeout \in Timeouts /\ countsDown \in BOOLEAN
  /\ pc \in {"test", "read", "wait", "done"}
  /\ buf \in {"zero", "refused"}
  /\ tv \in 0 .. timeout /\ waited \in 0 .. tv /\ elapsed \in 0 .. timeout + 1

TypeFrames ==
  /\ bus \in Seq(Kind) /\ Len(bus) <= MaxFrames
  /\ queue \in Seq(1 .. Len(bus)) /\ Len(queue) <= QueueSize
  /\ got \in Seq(1 .. Len(bus))
  /\ dropped \subseteq 1 .. Len(bus)

LEMMA TypeParts == TypeOK <=> TypeFlags /\ TypeTime /\ TypeFrames
PROOF
  BY DEF TypeOK, TypeFlags, TypeTime, TypeFrames

LEMMA TypeFlagsStep == TypeFlags /\ [Next]_vars => TypeFlags'
PROOF
  <1> SUFFICES ASSUME TypeFlags, [Next]_vars PROVE TypeFlags'
    OBVIOUS
  <1> USE DEF TypeFlags, readerVars, driverVars, Returns
  <1>1. ASSUME UNCHANGED vars PROVE TypeFlags'
    BY <1>1 DEF vars
  <1>2. ASSUME Test PROVE TypeFlags'
    BY <1>2 DEF Test
  <1>3. ASSUME ReadFrame PROVE TypeFlags'
    BY <1>3 DEF ReadFrame, Notice
  <1>4. ASSUME ReadEmpty PROVE TypeFlags'
    BY <1>4 DEF ReadEmpty
  <1>5. ASSUME ReadError PROVE TypeFlags'
    BY <1>5 DEF ReadError
  <1>6. ASSUME Wake PROVE TypeFlags'
    BY <1>6 DEF Wake
  <1>7. ASSUME Tick PROVE TypeFlags'
    BY <1>7 DEF Tick
  <1>8. ASSUME Expire PROVE TypeFlags'
    BY <1>8 DEF Expire
  <1>9. ASSUME Signal PROVE TypeFlags'
    BY <1>9 DEF Signal
  <1>10. ASSUME NEW kind \in Kind, Arrive(kind) PROVE TypeFlags'
    BY <1>10 DEF Arrive
  <1>11. ASSUME Fail PROVE TypeFlags'
    BY <1>11 DEF Fail
  <1> QED
    BY <1>1, <1>2, <1>3, <1>4, <1>5, <1>6, <1>7, <1>8, <1>9, <1>10, <1>11 DEF Next, Reader

LEMMA TypeTimeStep == TypeTime /\ [Next]_vars => TypeTime'
PROOF
  <1> SUFFICES ASSUME TypeTime, [Next]_vars PROVE TypeTime'
    OBVIOUS
  <1>0. timeout' = timeout /\ countsDown' = countsDown
    BY DEF Next, vars, setup
  <1> USE <1>0, CanReaderAssumption DEF TypeTime, readerVars, driverVars, Returns
  <1>1. ASSUME UNCHANGED vars PROVE TypeTime'
    BY <1>1 DEF vars
  <1>2. ASSUME Test PROVE TypeTime'
    BY <1>2 DEF Test
  <1>3. ASSUME ReadFrame PROVE TypeTime'
    BY <1>3 DEF ReadFrame, Notice
  <1>4. ASSUME ReadEmpty PROVE TypeTime'
    BY <1>4 DEF ReadEmpty
  <1>5. ASSUME ReadError PROVE TypeTime'
    BY <1>5 DEF ReadError
  <1>6. ASSUME Wake PROVE TypeTime'
    BY <1>6 DEF Wake
  <1>7. ASSUME Tick PROVE TypeTime'
    BY <1>7 DEF Tick
  <1>8. ASSUME Expire PROVE TypeTime'
    BY <1>8 DEF Expire
  <1>9. ASSUME Signal PROVE TypeTime'
    BY <1>9 DEF Signal
  <1>10. ASSUME NEW kind \in Kind, Arrive(kind) PROVE TypeTime'
    BY <1>10 DEF Arrive
  <1>11. ASSUME Fail PROVE TypeTime'
    BY <1>11 DEF Fail
  <1> QED
    BY <1>1, <1>2, <1>3, <1>4, <1>5, <1>6, <1>7, <1>8, <1>9, <1>10, <1>11 DEF Next, Reader

(* Only three actions touch the frames. *)
FrameVars == <<bus, queue, got, dropped>>

LEMMA FrameSteps ==
  ASSUME [Next]_vars
  PROVE  UNCHANGED FrameVars \/ ReadFrame \/ \E kind \in Kind : Arrive(kind)
PROOF
  <1> USE DEF FrameVars, readerVars, driverVars
  <1>1. ASSUME UNCHANGED vars PROVE UNCHANGED FrameVars
    BY <1>1 DEF vars
  <1>2. ASSUME Test \/ ReadEmpty \/ ReadError \/ Wake \/ Tick \/ Expire
        PROVE  UNCHANGED FrameVars
    BY <1>2 DEF Test, ReadEmpty, ReadError, Wake, Tick, Expire
  <1>3. ASSUME Signal \/ Fail PROVE UNCHANGED FrameVars
    BY <1>3 DEF Signal, Fail
  <1> QED
    BY <1>1, <1>2, <1>3 DEF Next, Reader

LEMMA TypeFramesStep == TypeFrames /\ [Next]_vars => TypeFrames'
PROOF
  <1> SUFFICES ASSUME TypeFrames, [Next]_vars PROVE TypeFrames'
    OBVIOUS
  <1> USE DEF TypeFrames
  <1>1. ASSUME UNCHANGED FrameVars PROVE TypeFrames'
    BY <1>1 DEF FrameVars
  <1>2. ASSUME ReadFrame PROVE TypeFrames'
    <2>1. UNCHANGED <<bus, dropped>> /\ queue # <<>> /\ queue' = Tail(queue)
      BY <1>2 DEF ReadFrame
    <2>2. queue' \in Seq(1 .. Len(bus)) /\ Len(queue') <= QueueSize
          /\ Head(queue) \in 1 .. Len(bus)
      BY <2>1, CanReaderAssumption
    <2>3. got' = got \/ got' = Append(got, Head(queue))
      BY <1>2 DEF ReadFrame, HandOver
    <2>4. got' \in Seq(1 .. Len(bus))
      <3> HIDE DEF TypeFrames
      <3>1. got \in Seq(1 .. Len(bus)) /\ Head(queue) \in 1 .. Len(bus)
        BY <2>2 DEF TypeFrames
      <3>2. Append(got, Head(queue)) \in Seq(1 .. Len(bus))
        BY <3>1, AppendProperties
      <3> QED
        BY <2>3, <3>1, <3>2
    <2> QED
      BY <2>1, <2>2, <2>4
  <1>3. ASSUME NEW kind \in Kind, Arrive(kind) PROVE TypeFrames'
    <2>1. bus' = Append(bus, kind) /\ Len(bus) < MaxFrames /\ got' = got
      BY <1>3 DEF Arrive, readerVars
    <2>2. bus' \in Seq(Kind) /\ Len(bus') = Len(bus) + 1 /\ Len(bus') <= MaxFrames
          /\ Len(bus) \in Nat
      BY <2>1, CanReaderAssumption
    <2>3. \A s \in Seq(1 .. Len(bus)) : s \in Seq(1 .. Len(bus'))
      BY <2>2
    <2>4. CASE Len(queue) < QueueSize
      <3>1. queue' = Append(queue, Len(bus')) /\ dropped' = dropped
        BY <1>3, <2>4 DEF Arrive
      <3>2. queue' \in Seq(1 .. Len(bus')) /\ Len(queue') <= QueueSize
        BY <2>2, <2>3, <2>4, <3>1, CanReaderAssumption
      <3> QED
        BY <2>1, <2>2, <2>3, <3>1, <3>2
    <2>5. CASE Len(queue) = QueueSize
      <3>1. queue' = queue /\ dropped' = dropped \cup {Len(bus')}
        BY <1>3, <2>5, CanReaderAssumption DEF Arrive
      <3>2. dropped' \subseteq 1 .. Len(bus')
        <4>1. Len(bus') \in 1 .. Len(bus') /\ 1 .. Len(bus) \subseteq 1 .. Len(bus')
          BY <2>2
        <4> QED
          BY <3>1, <4>1
      <3> QED
        BY <2>1, <2>2, <2>3, <3>1, <3>2
    <2> QED
      BY <2>4, <2>5, CanReaderAssumption
  <1> QED
    BY <1>1, <1>2, <1>3, FrameSteps

(* Every variable keeps its type: in particular the time left and the time *)
(* waited stay within the limit of the call, and the queue within its size.*)
THEOREM ReaderTypeCorrect == Spec => []TypeOK
PROOF
  <1>1. Init => TypeOK
    <2> SUFFICES ASSUME Init PROVE TypeOK
      OBVIOUS
    <2>1. TypeFlags
      BY DEF Init, TypeFlags
    <2>2. TypeTime
      BY CanReaderAssumption DEF Init, TypeTime
    <2>3. TypeFrames
      BY CanReaderAssumption DEF Init, TypeFrames
    <2> QED
      BY <2>1, <2>2, <2>3, TypeParts
  <1>2. TypeOK /\ [Next]_vars => TypeOK'
    <2>1. TypeOK' <=> TypeFlags' /\ TypeTime' /\ TypeFrames'
      BY DEF TypeOK, TypeFlags, TypeTime, TypeFrames
    <2> QED
      BY <2>1, TypeParts, TypeFlagsStep, TypeTimeStep, TypeFramesStep
  <1> QED
    BY <1>1, <1>2, PTL DEF Spec

(***************************************************************************)
(* Order.  What the steps do to the line of frames handed over and frames  *)
(* waiting: a data frame moves from the queue to the end of those handed   *)
(* over, a refused one leaves the line, a new one joins it at the end.     *)
(***************************************************************************)
Increasing(s) == \A i, j \in DOMAIN s : i < j => s[i] < s[j]

Elements(s) == {s[i] : i \in DOMAIN s}

LEMMA HeadMoves ==
  ASSUME NEW S, NEW s \in Seq(S), NEW q \in Seq(S), q # <<>>
  PROVE  Append(s, Head(q)) \o Tail(q) = s \o q
PROOF
  <1>1. /\ Head(q) \in S /\ Tail(q) \in Seq(S) /\ Len(Tail(q)) = Len(q) - 1
        /\ Append(s, Head(q)) \in Seq(S) /\ Len(Append(s, Head(q))) = Len(s) + 1
        /\ Len(q) \in Nat \ {0} /\ Len(s) \in Nat
    OBVIOUS
  <1> DEFINE l == Append(s, Head(q)) \o Tail(q)
             r == s \o q
  <1>2. l \in Seq(S) /\ r \in Seq(S) /\ Len(l) = Len(r)
    BY <1>1, ConcatProperties
  <1>3. \A i \in 1 .. Len(l) : l[i] = r[i]
    BY <1>1
  <1> QED
    BY <1>2, <1>3, SeqEqual

LEMMA HeadLeaves ==
  ASSUME NEW s \in Seq(Nat), NEW q \in Seq(Nat), q # <<>>, Increasing(s \o q)
  PROVE  /\ Increasing(s \o Tail(q))
         /\ Elements(s \o q) = Elements(s \o Tail(q)) \cup {Head(q)}
PROOF
  <1> DEFINE l == s \o q
             r == s \o Tail(q)
             up(i) == IF i <= Len(s) THEN i ELSE i + 1
  <1>1. /\ Len(s) \in Nat /\ Len(q) \in Nat \ {0}
        /\ DOMAIN l = 1 .. Len(s) + Len(q) /\ DOMAIN r = 1 .. Len(s) + Len(q) - 1
    OBVIOUS
  <1>2. \A i \in DOMAIN r : up(i) \in DOMAIN l /\ r[i] = l[up(i)]
    <2> TAKE i \in DOMAIN r
    <2>1. CASE i <= Len(s)
      BY <1>1, <2>1
    <2>2. CASE i > Len(s)
      <3>1. i \in Nat /\ i - Len(s) \in 1 .. Len(q) - 1 /\ up(i) = i + 1
        BY <1>1, <2>2
      <3>2. r[i] = Tail(q)[i - Len(s)]
        BY <1>1, <2>2, <3>1
      <3>3. Tail(q)[i - Len(s)] = q[i - Len(s) + 1]
        BY <3>1
      <3>4. l[i + 1] = q[i + 1 - Len(s)]
        BY <1>1, <2>2, <3>1
      <3>5. i + 1 - Len(s) = i - Len(s) + 1 /\ i + 1 \in DOMAIN l
        BY <1>1, <2>2, <3>1
      <3> QED
        BY <3>1, <3>2, <3>3, <3>4, <3>5
    <2>3. i <= Len(s) \/ i > Len(s)
      BY <1>1
    <2> QED
      BY <2>1, <2>2, <2>3, SMTT(30)
  <1>3. l[Len(s) + 1] = Head(q)
    BY <1>1
  <1>4. \A i \in DOMAIN l : i = Len(s) + 1 \/ \E j \in DOMAIN r : i = up(j)
    <2> TAKE i \in DOMAIN l
    <2>1. CASE i <= Len(s)
      BY <1>1, <2>1
    <2>2. CASE i > Len(s) + 1
      <3>1. i - 1 \in DOMAIN r /\ i = up(i - 1)
        BY <1>1, <2>2
      <3> QED
        BY <3>1
    <2> QED
      BY <1>1, <2>1, <2>2
  <1>5. Len(s) + 1 \in DOMAIN l
    BY <1>1
  <1>6. \A i, j \in DOMAIN r : i < j => up(i) < up(j)
    BY <1>1
  <1> HIDE DEF l, r, up
  <1>7. Increasing(r)
    BY <1>2, <1>6 DEF Increasing, l
  <1>8. Elements(l) = Elements(r) \cup {Head(q)}
    BY <1>2, <1>3, <1>4, <1>5 DEF Elements
  <1> QED
    BY <1>7, <1>8 DEF l, r

LEMMA TailJoins ==
  ASSUME NEW s \in Seq(Nat), NEW q \in Seq(Nat), NEW n \in Nat,
         Increasing(s \o q), \A m \in Elements(s \o q) : m < n
  PROVE  /\ Increasing(s \o Append(q, n))
         /\ Elements(s \o Append(q, n)) = Elements(s \o q) \cup {n}
PROOF
  <1> DEFINE l == s \o q
             r == s \o Append(q, n)
             last == Len(s) + Len(q) + 1
  <1>1. /\ Len(s) \in Nat /\ Len(q) \in Nat
        /\ DOMAIN l = 1 .. Len(s) + Len(q) /\ DOMAIN r = 1 .. last
    OBVIOUS
  <1>2. \A i \in DOMAIN l : r[i] = l[i] /\ l[i] \in Nat
    BY <1>1, SMTT(60)
  <1>3. r[last] = n
    BY <1>1
  <1>4. DOMAIN r = DOMAIN l \cup {last} /\ \A i \in DOMAIN l : ~(last < i)
    <2>1. PICK m \in Nat, k \in Nat : m = Len(s) + Len(q) /\ k = m + 1
      BY <1>1
    <2>2. 1 .. k = 1 .. m \cup {k} /\ \A i \in 1 .. m : ~(k < i)
      BY <2>1, SMTT(60)
    <2>3. k = last
      BY <2>1
    <2> HIDE DEF l, r, last
    <2> QED
      BY <1>1, <2>1, <2>2, <2>3, ZenonT(60)
  <1>5. last \in Nat /\ ~(last < last)
    BY <1>1
  <1> HIDE DEF l, r, last
  <1>6. \A i \in DOMAIN l : l[i] < n
    BY DEF Elements, l
  <1>7. Increasing(r)
    BY <1>2, <1>3, <1>4, <1>5, <1>6 DEF Increasing, l
  <1>8. Elements(r) = Elements(l) \cup {n}
    BY <1>2, <1>3, <1>4 DEF Elements
  <1> QED
    BY <1>7, <1>8 DEF l, r

(* What the frames' part of the types says of the line. *)
LEMMA LineFacts ==
  ASSUME TypeFrames
  PROVE  /\ Len(bus) \in Nat
         /\ got \in Seq(1 .. Len(bus)) /\ queue \in Seq(1 .. Len(bus))
         /\ got \in Seq(Nat) /\ queue \in Seq(Nat)
         /\ Line \in Seq(1 .. Len(bus))
         /\ \A m \in Elements(Line) : m \in 1 .. Len(bus)
PROOF
  <1>1. Len(bus) \in Nat /\ got \in Seq(1 .. Len(bus)) /\ queue \in Seq(1 .. Len(bus))
    BY DEF TypeFrames
  <1>2. 1 .. Len(bus) \subseteq Nat
    BY <1>1
  <1>3. Line \in Seq(1 .. Len(bus))
    BY <1>1, ConcatProperties DEF Line
  <1>4. got \in Seq(Nat) /\ queue \in Seq(Nat)
    BY <1>1, <1>2
  <1>5. \A m \in Elements(Line) : m \in 1 .. Len(bus)
    BY <1>3 DEF Elements
  <1> QED
    BY <1>1, <1>3, <1>4, <1>5

(* The invariant in terms of the line. *)
LineKept ==
  /\ Increasing(Line)
  /\ \A n \in 1 .. Len(bus) : Data(n) => (n \notin dropped <=> n \in Elements(Line))

GotData == \A i \in DOMAIN got : Data(got[i])

LEMMA OrderParts == TypeFrames => (OnceInOrder <=> LineKept /\ GotData)
PROOF
  <1> SUFFICES ASSUME TypeFrames PROVE OnceInOrder <=> LineKept /\ GotData
    OBVIOUS
  <1>1. \A m \in Elements(Line) : m \in 1 .. Len(bus)
    BY LineFacts
  <1>2. ({n \in 1 .. Len(bus) : Data(n)} \ dropped = {n \in Elements(Line) : Data(n)})
        <=> \A n \in 1 .. Len(bus) : Data(n) => (n \notin dropped <=> n \in Elements(Line))
    BY <1>1
  <1> QED
    BY <1>2 DEF OnceInOrder, LineKept, GotData, Increasing, Elements

LEMMA ReadKeepsLine ==
  ASSUME TypeFrames, LineKept, GotData, ReadFrame
  PROVE  LineKept' /\ GotData'
PROOF
  <1>1. /\ bus' = bus /\ dropped' = dropped /\ queue # <<>> /\ queue' = Tail(queue)
        /\ \/ bus[Head(queue)] = "refused" /\ got' = got
           \/ bus[Head(queue)] = "data" /\ got' = Append(got, Head(queue))
    BY DEF ReadFrame, HandOver
  <1>2. \A n : Data(n)' <=> Data(n)
    BY <1>1 DEF Data
  <1>3. CASE bus[Head(queue)] = "data" /\ got' = Append(got, Head(queue))
    <2>1. Line' = Line
      <3>1. Line' = Append(got, Head(queue)) \o Tail(queue)
        BY <1>1, <1>3 DEF Line
      <3> QED
        BY <3>1, <1>1, LineFacts, HeadMoves DEF Line
    <2>2. LineKept'
      BY <1>1, <1>2, <2>1 DEF LineKept, Increasing, Elements
    <2>3. /\ DOMAIN got' = DOMAIN got \cup {Len(got) + 1}
          /\ \A i \in DOMAIN got : got'[i] = got[i]
          /\ got'[Len(got) + 1] = Head(queue)
      BY <1>3, LineFacts, SMTT(60)
    <2>4. GotData'
      BY <1>1, <1>3, <2>3 DEF GotData, Data
    <2> QED
      BY <2>2, <2>4
  <1>4. CASE bus[Head(queue)] = "refused" /\ got' = got
    <2>1. Line' = got \o Tail(queue)
      BY <1>1, <1>4 DEF Line
    <2>2. Increasing(Line)' /\ Elements(Line) = Elements(Line') \cup {Head(queue)}
      <3>1. Increasing(got \o queue)
        BY DEF LineKept, Line
      <3>2. /\ Increasing(got \o Tail(queue))
            /\ Elements(got \o queue) = Elements(got \o Tail(queue)) \cup {Head(queue)}
        BY <3>1, <1>1, LineFacts, HeadLeaves
      <3> QED
        BY <3>2, <2>1 DEF Increasing, Elements, Line
    <2>3. ~Data(Head(queue))
      BY <1>4 DEF Data
    <2>4. \A n \in 1 .. Len(bus') :
            Data(n)' => (n \notin dropped' <=> n \in Elements(Line'))
      BY <1>1, <1>2, <2>2, <2>3 DEF LineKept
    <2>5. LineKept'
      BY <2>2, <2>4 DEF LineKept, Elements
    <2>6. GotData'
      BY <1>1, <1>4 DEF GotData, Data
    <2> QED
      BY <2>5, <2>6
  <1> QED
    BY <1>1, <1>3, <1>4

LEMMA ArriveKeepsLine ==
  ASSUME TypeFrames, LineKept, GotData, NEW kind \in Kind, Arrive(kind)
  PROVE  LineKept' /\ GotData'
PROOF
  <1> DEFINE new == Len(bus) + 1
  <1>1. bus' = Append(bus, kind) /\ got' = got /\ bus \in Seq(Kind)
    BY DEF Arrive, readerVars, TypeFrames
  <1>2. Len(bus) \in Nat /\ new \in Nat /\ Len(bus') = new
    BY <1>1
  <1>3. \A n \in 1 .. Len(bus) : Data(n)' <=> Data(n)
    BY <1>1 DEF Data
  <1>4. /\ \A n \in 1 .. Len(bus') : n = new \/ n \in 1 .. Len(bus)
        /\ new \notin 1 .. Len(bus)
    BY <1>2
  <1>5. dropped \subseteq 1 .. Len(bus) /\ \A i \in DOMAIN got : got[i] \in 1 .. Len(bus)
    BY DEF TypeFrames
  <1>6. GotData'
    BY <1>1, <1>3, <1>5 DEF GotData
  <1> HIDE DEF new
  <1>7. CASE Len(queue) < QueueSize
    <2>1. queue' = Append(queue, new) /\ dropped' = dropped
      BY <1>2, <1>7, CanReaderAssumption DEF Arrive, TypeFrames
    <2>2. Line' = got \o Append(queue, new)
      BY <1>1, <2>1 DEF Line
    <2>3. Increasing(Line)' /\ Elements(Line') = Elements(Line) \cup {new}
      <3>1. Increasing(got \o queue) /\ \A m \in Elements(got \o queue) : m < new
        <4>1. \A m \in 1 .. Len(bus) : m < new
          BY <1>2 DEF new
        <4> QED
          BY <4>1, LineFacts DEF LineKept, Line
      <3>2. /\ Increasing(got \o Append(queue, new))
            /\ Elements(got \o Append(queue, new)) = Elements(got \o queue) \cup {new}
        BY <3>1, <1>2, LineFacts, TailJoins
      <3> QED
        BY <3>2, <2>2 DEF Increasing, Elements, Line
    <2>4. \A n \in 1 .. Len(bus') :
            Data(n)' => (n \notin dropped' <=> n \in Elements(Line'))
      BY <1>3, <1>4, <1>5, <2>1, <2>3 DEF LineKept
    <2>5. LineKept'
      BY <2>3, <2>4 DEF LineKept, Elements
    <2> QED
      BY <1>6, <2>5
  <1>8. CASE ~(Len(queue) < QueueSize)
    <2>1. queue' = queue /\ dropped' = dropped \cup {new}
      BY <1>2, <1>8 DEF Arrive
    <2>2. Line' = Line
      BY <1>1, <2>1 DEF Line
    <2>3. new \notin Elements(Line)
      BY <1>4, LineFacts
    <2>4. \A n \in 1 .. Len(bus') :
            Data(n)' => (n \notin dropped' <=> n \in Elements(Line'))
      BY <1>3, <1>4, <2>1, <2>2, <2>3 DEF LineKept
    <2>5. LineKept'
      BY <2>2, <2>4 DEF LineKept, Elements, Increasing
    <2> QED
      BY <1>6, <2>5
  <1> QED
    BY <1>7, <1>8

(* Every data frame the driver kept is handed over once and in the order   *)
(* of the bus, for every queue size and number of frames, with any mix of  *)
(* refused frames, losses, time limits and signals.                        *)
THEOREM FramesOnceInOrder == Spec => []OnceInOrder
PROOF
  <1> DEFINE IInv == TypeFrames /\ LineKept /\ GotData
  <1>1. Init => IInv
    <2> SUFFICES ASSUME Init PROVE IInv
      OBVIOUS
    <2>1. TypeFrames
      BY CanReaderAssumption DEF Init, TypeFrames
    <2>2. bus = <<>> /\ got = <<>> /\ queue = <<>>
      BY DEF Init
    <2>3. Len(bus) = 0 /\ DOMAIN got = {} /\ DOMAIN Line = {}
      BY <2>2 DEF Line
    <2> QED
      BY <2>1, <2>3 DEF LineKept, GotData, Increasing
  <1>2. IInv /\ [Next]_vars => IInv'
    <2> SUFFICES ASSUME IInv, [Next]_vars PROVE IInv'
      OBVIOUS
    <2>1. TypeFrames'
      BY TypeFramesStep
    <2>2. CASE UNCHANGED FrameVars
      BY <2>1, <2>2, SMTT(60) DEF FrameVars, LineKept, GotData, Increasing, Elements, Line, Data
    <2>3. CASE ReadFrame
      BY <2>1, <2>3, ReadKeepsLine
    <2>4. ASSUME NEW kind \in Kind, Arrive(kind) PROVE IInv'
      BY <2>1, <2>4, ArriveKeepsLine
    <2> QED
      BY <2>2, <2>3, <2>4, FrameSteps
  <1>3. IInv => OnceInOrder
    BY OrderParts
  <1> QED
    BY <1>1, <1>2, <1>3, PTL DEF Spec

(***************************************************************************)
(* Losses and time.                                                        *)
(***************************************************************************)
(* A loss in the driver's queue is told by the status bit or will be with  *)
(* the next frame read.  The property is inductive as it stands.           *)
THEOREM LossesTold == Spec => []LossTold
PROOF
  <1>1. Init => LossTold
    BY DEF Init, LossTold
  <1>2. LossTold /\ [Next]_vars => LossTold'
    <2> SUFFICES ASSUME LossTold, [Next]_vars PROVE LossTold'
      OBVIOUS
    <2> USE DEF LossTold, readerVars, driverVars
    <2>1. CASE UNCHANGED <<overrun, told, dropped>>
      BY <2>1
    <2>2. CASE ReadFrame
      BY <2>2 DEF ReadFrame, Notice
    <2>3. ASSUME NEW kind \in Kind, Arrive(kind) PROVE LossTold'
      BY <2>3 DEF Arrive
    <2>4. CASE UNCHANGED vars \/ Test \/ ReadEmpty \/ ReadError \/ Wake \/ Tick \/ Expire
      BY <2>1, <2>4 DEF vars, Test, ReadEmpty, ReadError, Wake, Tick, Expire
    <2>5. CASE Signal \/ Fail
      BY <2>1, <2>5 DEF Signal, Fail
    <2> QED
      BY <2>2, <2>3, <2>4, <2>5 DEF Next, Reader
  <1> QED
    BY <1>1, <1>2, PTL DEF Spec

(* What is left of the limit is enough for the select that is running.     *)
TimeLeft ==
  timeout # Infinite =>
    /\ elapsed <= timeout
    /\ pc \in {"read", "wait"} => elapsed + tv <= timeout + waited

LEMMA TimeLeftStep ==
  ASSUME countsDown, TypeTime, TypeTime', TimeLeft, [Next]_vars
  PROVE  TimeLeft'
PROOF
  <1>0. timeout' = timeout /\ countsDown' = countsDown
    BY DEF Next, vars, setup
  <1> USE <1>0, CanReaderAssumption DEF TimeLeft, TypeTime, readerVars, driverVars, Returns
  <1>1. ASSUME UNCHANGED vars PROVE TimeLeft'
    BY <1>1 DEF vars
  <1>2. ASSUME Test PROVE TimeLeft'
    <2>1. CASE running
      <3>1. tv' = timeout /\ elapsed' = 0 /\ waited' = waited
        BY <1>2, <2>1 DEF Test
      <3>2. waited \in Nat /\ timeout \in Nat
        OBVIOUS
      <3>3. elapsed' <= timeout /\ elapsed' + tv' <= timeout + waited'
        BY <3>1, <3>2
      <3> QED
        BY <3>3
    <2>2. CASE ~running
      <3>1. pc' = "done" /\ elapsed' = elapsed
        BY <1>2, <2>2 DEF Test
      <3> QED
        BY <3>1
    <2> QED
      BY <2>1, <2>2
  <1>3. ASSUME ReadFrame PROVE TimeLeft'
    BY <1>3 DEF ReadFrame, Notice
  <1>4. ASSUME ReadEmpty PROVE TimeLeft'
    BY <1>4 DEF ReadEmpty
  <1>5. ASSUME ReadError PROVE TimeLeft'
    BY <1>5 DEF ReadError
  <1>6. ASSUME Wake PROVE TimeLeft'
    BY <1>6 DEF Wake
  <1>7. ASSUME Tick PROVE TimeLeft'
    BY <1>7 DEF Tick
  <1>8. ASSUME Expire PROVE TimeLeft'
    BY <1>8 DEF Expire
  <1>9. ASSUME Signal PROVE TimeLeft'
    BY <1>9 DEF Signal
  <1>10. ASSUME Fail PROVE TimeLeft'
    BY <1>10 DEF Fail
  <1>11. ASSUME NEW kind \in Kind, Arrive(kind) PROVE TimeLeft'
    BY <1>11 DEF Arrive
  <1> QED
    BY <1>1, <1>2, <1>3, <1>4, <1>5, <1>6, <1>7, <1>8, <1>9, <1>10, <1>11 DEF Next, Reader

(* Where select leaves the remaining time in its timeval (Linux), a call   *)
(* waits no longer than its time limit, however often it is woken by       *)
(* frames it refuses.                                                      *)
THEOREM LimitKept == Spec => []CountedLimitKept
PROOF
  <1> DEFINE Left == countsDown => TimeLeft
  <1>1. Init => TypeTime /\ Left
    BY CanReaderAssumption DEF Init, TypeTime, TimeLeft
  <1>2. TypeTime /\ Left /\ [Next]_vars => TypeTime' /\ Left'
    <2> SUFFICES ASSUME TypeTime, Left, [Next]_vars PROVE TypeTime' /\ Left'
      OBVIOUS
    <2>1. TypeTime'
      BY TypeTimeStep
    <2>2. countsDown' = countsDown
      BY DEF Next, vars, setup
    <2> QED
      BY <2>1, <2>2, TimeLeftStep
  <1>3. Left => CountedLimitKept
    BY DEF TimeLeft, CountedLimitKept, WaitsWithinLimit
  <1> QED
    BY <1>1, <1>2, <1>3, PTL DEF Spec
===============================================================================
