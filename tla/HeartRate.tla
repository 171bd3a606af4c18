----------------------------- MODULE HeartRate ------------------------------
(***************************************************************************)
(* The intervals and the windowed rate of heartbeat(), called by several   *)
(* threads.  The time of the last beat and the clock are read before the   *)
(* mutex is taken, in two steps; what is done under the mutex is one step, *)
(* as nothing of it but last_timestamp is read outside, and that is stored *)
(* once.  A rate is kept as the interval it is the inverse of, and an      *)
(* average as a sum and the number it is divided by: rounding is left out. *)
(*                                                                         *)
(* The clock is CLOCK_REALTIME, and nobody sets it back meanwhile.         *)
(*                                                                         *)
(* Each Fault_x is a faulty variant of a definition near it: the           *)
(* properties tell it from the code.                                       *)
(***************************************************************************)
EXTENDS Integers, Sequences, FiniteSetsExt, Functions

CONSTANTS Threads,       \* threads of the application
          WindowSize,    \* window_size of heartbeat_init
          LastBeat,      \* bound: the last beat issued
          LastTime       \* bound: the clock's last value

ASSUME HeartRateAssumption ==
    /\ IsFiniteSet(Threads)
    /\ WindowSize \in Nat \ {0} /\ LastBeat \in Nat /\ LastTime \in Nat

VARIABLES
    now,                    \* the clock
    first_timestamp, last_timestamp,
    window,                 \* intervals; -1 where malloc's memory is as it was
    current_index, steady_state,
    last_average_time,      \* [time, of]: the sum, and how many it is of
    call,                   \* each thread's place in heartbeat(), and its locals
    stamps,                 \* the timestamps of the records, beat by beat
    serial                  \* history: no two calls have overlapped

private == <<first_timestamp, last_timestamp, window, current_index, steady_state,
             last_average_time, stamps>>
vars == <<now, private, call, serial>>

\* heartbeat_init
Init ==
    /\ now = 0
    /\ first_timestamp = -1 /\ last_timestamp = -1
    /\ window = [k \in 0..(WindowSize - 1) |-> -1]
    /\ current_index = 0 /\ steady_state = FALSE
    /\ last_average_time = [time |-> 0, of |-> 0]
    /\ call = [t \in Threads |-> [pc |-> "out", old |-> -1, time |-> 0]]
    /\ stamps = << >> /\ serial = TRUE

Tick == now < LastTime /\ now' = now + 1 /\ UNCHANGED <<private, call, serial>>
-----------------------------------------------------------------------------
(* heartbeat() of thread t *)

Issued == Len(stamps) + Cardinality({t \in Threads : call[t].pc # "out"})

\* old_last_time = hb->last_timestamp
ReadLast(t) ==
    /\ call[t].pc = "out" /\ Issued <= LastBeat
    /\ call' = [call EXCEPT ![t].pc = "clock", ![t].old = last_timestamp]
    /\ serial' = (serial /\ \A u \in Threads : call[u].pc = "out")
    /\ UNCHANGED <<now, private>>

ReadClock(t) ==
    /\ call[t].pc = "clock"
    /\ call' = [call EXCEPT ![t].pc = "lock", ![t].time = now]
    /\ UNCHANGED <<now, private, serial>>

\* Between the lock and the unlock: the record of time.
Locked(t) ==
    /\ call[t].pc = "lock"
    /\ call' = [call EXCEPT ![t] = [pc |-> "out", old |-> -1, time |-> 0]]
    /\ last_timestamp' = call[t].time
    /\ stamps' = Append(stamps, call[t].time)
    /\ UNCHANGED <<now, serial>>

First(t) ==
    /\ Locked(t) /\ first_timestamp = -1
    /\ first_timestamp' = call[t].time
    /\ window' = [window EXCEPT ![0] = 0]
    /\ UNCHANGED <<current_index, steady_state, last_average_time>>

\* What hb_window_average is given.
Fault_UnderLock(t) == call[t].time - last_timestamp
Interval(t) == call[t].time - call[t].old

\* While the window is not full, the average is computed from what it holds; then
\* it is kept up to date.
SumOfFirst(k, w) == SumFunctionOnSet(w, 0..(k - 1))

Fault_StoreFirst(time) ==
    IF steady_state
      THEN [time |-> last_average_time.time - window'[current_index] + time,
            of |-> WindowSize]
      ELSE [time |-> SumOfFirst(current_index + 1, window'), of |-> current_index + 1]
Average(time) ==
    IF steady_state
      THEN [time |-> last_average_time.time - window[current_index] + time,
            of |-> WindowSize]
      ELSE [time |-> SumOfFirst(current_index + 1, window'), of |-> current_index + 1]

Fault_Turns(k) == k = WindowSize + 1
Fault_TurnsEarly(k) == k = WindowSize - 1
Turns(k) == k = WindowSize

hb_window_average(time) ==
    /\ window' = [window EXCEPT ![current_index] = time]
    /\ last_average_time' = Average(time)
    /\ current_index' = IF Turns(current_index + 1) THEN 0 ELSE current_index + 1
    /\ steady_state' = (steady_state \/ Turns(current_index + 1))

Later(t) ==
    /\ Locked(t) /\ first_timestamp # -1
    /\ hb_window_average(Interval(t))
    /\ UNCHANGED first_timestamp

\* All beats are issued.
Done == /\ Issued > LastBeat /\ \A t \in Threads : call[t].pc = "out"
        /\ UNCHANGED vars

Next == \/ Tick \/ Done
        \/ \E t \in Threads : ReadLast(t) \/ ReadClock(t) \/ First(t) \/ Later(t)

Spec == Init /\ [][Next]_vars
-----------------------------------------------------------------------------
\* The type invariant.
TypeOK ==
    /\ now \in 0..LastTime
    /\ first_timestamp \in -1..LastTime /\ last_timestamp \in -1..LastTime
    /\ window \in [0..(WindowSize - 1) -> -1..(LastTime + 1)]
    /\ current_index \in 0..(WindowSize - 1) /\ steady_state \in BOOLEAN
    /\ last_average_time.time \in Nat /\ last_average_time.of \in 0..WindowSize
    /\ call \in [Threads -> [pc : {"out", "clock", "lock"}, old : -1..LastTime,
                             time : 0..LastTime]]
    /\ stamps \in Seq(0..LastTime) /\ Len(stamps) <= LastBeat + 1
    /\ serial \in BOOLEAN

\* The intervals in the window, the oldest first.
Queue ==
    IF steady_state
      THEN [k \in 1..WindowSize |->
               window[IF current_index + k - 1 < WindowSize
                        THEN current_index + k - 1
                        ELSE current_index + k - 1 - WindowSize]]
      ELSE [k \in 1..current_index |-> window[k - 1]]

Sliding == INSTANCE SlidingWindow WITH queue <- Queue, mean <- last_average_time

\* The average that is kept up to date, never summed again once the window is full,
\* stays the mean of the last WindowSize intervals, however threads overlap.
SlidingSpec == Sliding!Spec

Newest == Len(stamps)
Oldest == Newest - last_average_time.of

\* While calls do not overlap, the windowed rate is the one of the beats: the time
\* from the record before the window to the newest.
WindowElapsed ==
    serial /\ stamps # << >> =>
        last_average_time.time = stamps[Newest] - stamps[Oldest]

\* The latest of the first n timestamps: that of a later record may be earlier.
Latest(n) == Max({stamps[k] : k \in 1..n})

\* When calls overlap, their intervals do too, and records may go back in time; but
\* the windowed rate is never higher than the beats of the window were: the
\* intervals cover the time the window took.  A service may see an application
\* slower than it is, never faster.
NeverFaster ==
    stamps # << >> => last_average_time.time >= Latest(Newest) - Latest(Oldest)

\* The windowed rate is exact for calls that do not overlap, and never too high for
\* those that do (and all variables have their types).
RateTrue == TypeOK /\ WindowElapsed /\ NeverFaster
=============================================================================
