---------------------------- MODULE BeatRegister ----------------------------
(***************************************************************************)
(* What the shared heartbeat segment promises its observers, with the ring *)
(* buffer, the indices and the mutex left out: one register that holds the *)
(* record of the current heartbeat.  Records are numbered by their beat,   *)
(* and a whole record of beat b carries b in each of its fields.           *)
(*                                                                         *)
(* Heartbeat.tla implements this specification (Heartbeat!Register).       *)
(***************************************************************************)
EXTENDS Integers

CONSTANTS Monitors,     \* observers in other processes
          Fields        \* the fields of a heartbeat_record_t

VARIABLES current,      \* the record an observer is to see
          got           \* the last whole record each monitor was given

vars == <<current, got>>

Record(b) == [f \in Fields |-> b]
NoRecord  == Record(-1)

Init == /\ current = NoRecord
        /\ got = [m \in Monitors |-> NoRecord]

\* The application registers a heartbeat: the register moves to the next beat,
\* all fields at once, and never skips or repeats one.
Publish == /\ current' = [f \in Fields |-> current[f] + 1]
           /\ UNCHANGED got

\* A monitor obtains a record: a whole one, not from the future and not older
\* than the one it has.
Read(m) == /\ \E f \in Fields :
                 \E b \in 0..current[f] :
                    /\ \A g \in Fields : got[m][g] <= b /\ b <= current[g]
                    /\ got' = [got EXCEPT ![m] = Record(b)]
           /\ UNCHANGED current

Next == Publish \/ \E m \in Monitors : Read(m)

Spec == Init /\ [][Next]_vars
=============================================================================
