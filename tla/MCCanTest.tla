------------------------------ MODULE MCCanTest ------------------------------
(* An instance of CanTest for TLC: numbers of one to three bits, a list of two
   channels, a queue of one message. *)
EXTENDS CanTest

Both     == {tx, rx}
Wants    == [p \in Both |-> IF p = tx THEN 1 ELSE 0]
AskedFor == [p \in Both |-> IF p = tx THEN {"json", "list"} ELSE {}]

(* The transmitter begins with the largest number, after which it goes on
   with zero; the receiver expects another one, which looks the same in the
   shortest data. *)
StartNumbers == {[p \in Both |-> IF p = tx THEN 7 ELSE 1]}

SomeLines == {[count |-> 2, data |-> 1, incr |-> 0], [count |-> 2, data |-> 3, incr |-> 1],
              [count |-> 2, data |-> 0, incr |-> -1]}
===============================================================================
