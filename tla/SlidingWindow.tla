--------------------------- MODULE SlidingWindow ----------------------------
(***************************************************************************)
(* What the windowed heart rate promises: the mean of the last WindowSize  *)
(* intervals, or of all of them while there are fewer.                     *)
(***************************************************************************)
EXTENDS Integers, Sequences, Functions

CONSTANT WindowSize

VARIABLES queue,    \* the intervals the mean is of, the oldest first
          mean      \* their sum and their number

LastOnes(s) == IF Len(s) <= WindowSize THEN s ELSE Tail(s)

Init == queue = << >> /\ mean = [time |-> 0, of |-> 0]

Enter(interval) ==
    /\ queue' = LastOnes(Append(queue, interval))
    /\ mean' = [time |-> SumFunction(queue'), of |-> Len(queue')]

\* The last interval of the new queue is the one entered.
Step == queue' # << >> /\ Enter(queue'[Len(queue')])

Spec == Init /\ [][Step]_<<queue, mean>>
=============================================================================
