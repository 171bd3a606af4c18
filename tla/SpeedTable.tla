----------------------------- MODULE SpeedTable -----------------------------
(***************************************************************************)
(* The choice of machine_speed_act (combined.c) as operators: a table is a *)
(* strictly increasing function T from 0..n to speeds, v the wanted speed. *)
(*                                                                         *)
(* Each Fault_x is a faulty variant of a definition near it: the           *)
(* properties tell it from the code.                                       *)
(***************************************************************************)
EXTENDS Integers

LastOf(T) == CHOOSE n \in DOMAIN T : n + 1 \notin DOMAIN T
Increasing(T) == \A i, j \in DOMAIN T : i < j => T[i] < T[j]

Distance(a, b) == IF a < b THEN b - a ELSE a - b

\* The neighbour of entry p on the other side of v, if the table has one.
Fault_SameSide(T, v, p) == {IF T[p] > v THEN p + 1 ELSE p - 1} \cap DOMAIN T
Neighbour(T, v, p) ==
    IF T[p] = v THEN {} ELSE {IF T[p] > v THEN p - 1 ELSE p + 1} \cap DOMAIN T

\* The last probe, unless its neighbour is closer.
Closer(T, v, p) ==
    LET better == {q \in Neighbour(T, v, p) : Distance(T[q], v) < Distance(T[p], v)}
    IN  IF better = {} THEN p ELSE CHOOSE q \in better : TRUE

\* The search of MachineSpeed in one step, for the modules that need only its
\* result: the last entry probed, and the one implemented.
LastProbe(T, v) ==
    LET n == LastOf(T)
        P[r \in (0..n) \X (0..n)] ==
            LET p == (r[1] + r[2]) \div 2
            IN  CASE T[p] < v /\ p + 1 < r[2] -> P[<<p + 1, r[2]>>]
                  [] T[p] > v /\ r[1] < p - 1 -> P[<<r[1], p - 1>>]
                  [] OTHER -> p
    IN  P[<<0, n>>]

Implemented(T, v) == Closer(T, v, LastProbe(T, v))
=============================================================================
