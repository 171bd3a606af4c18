-------------------------- MODULE FrequencyScaler0 --------------------------
(***************************************************************************)
(* frequencyscaler.c, the first of the scalers: it sets core 0 only, by a  *)
(* command cpufreq-set with a number of MHz, and passes no record over.    *)
(*                                                                         *)
(* Its inner loop is left with a record that has a rate.  It runs as root: *)
(* the command sets what it is given.                                      *)
(*                                                                         *)
(* Each Fault_x is a faulty variant of a definition near it: the           *)
(* properties tell it from the code.                                       *)
(***************************************************************************)
EXTENDS ServiceLoop, FiniteSets, Functions

\* FreqArray is in kHz here.
current == Cardinality(DOMAIN FreqArray)

VARIABLES frequency,        \* what core 0 runs at
          current_counter,  \* the index of what was asked for last
          fs,               \* the locals of the loop
          unwaited          \* history: a decision left wait_for in the past

get_init_frequency(freq) == CHOOSE k \in DOMAIN FreqArray : FreqArray[k] = freq

\* while(current_beat < MAX-1)
Fault_NeverDone(l) == [l EXCEPT !.pc = IF l.current_beat <= Max THEN "poll" ELSE "done",
                                !.rate = 0]
Turn(l) == [l EXCEPT !.pc = IF l.current_beat < Max - 1 THEN "poll" ELSE "done",
                     !.rate = 0]

Init == /\ frequency \in Range(FreqArray)
        /\ current_counter = get_init_frequency(frequency)
        /\ fs = Turn(Start) /\ unwaited = FALSE

Fault_NoWait ==
    /\ fs.pc = "poll" /\ rate # 0
    /\ fs' = [fs EXCEPT !.current_beat = beat, !.current_beat_prev = beat, !.rate = rate,
                        !.pc = "decide"]
    /\ UNCHANGED <<application, frequency, current_counter, unwaited>>
Poll == /\ fs.pc = "poll" /\ rate # 0
        /\ LET new == [fs EXCEPT !.current_beat = beat, !.current_beat_prev = beat,
                                 !.rate = rate]
           IN  fs' = IF beat < fs.wait_for THEN Turn(new) ELSE [new EXCEPT !.pc = "decide"]
        /\ UNCHANGED <<application, frequency, current_counter, unwaited>>

\* get_speed: MHz, after "rounding" up by a whole unit, not to one.
get_speed(speed) ==
    LET unit == IF speed > 1000000 THEN 10000 ELSE IF speed > 100000 THEN 1000
                ELSE IF speed > 1000 THEN 100 ELSE 1
    IN  (speed + IF 2 * (speed % unit) >= unit THEN unit ELSE 0) \div 1000

\* The kernel takes the lowest frequency that is not below what it is asked for.
Granted(speed) ==
    LET enough == {freq \in Range(FreqArray) : freq >= speed}
    IN  IF enough = {} THEN FreqArray[0]
        ELSE CHOOSE freq \in enough : \A other \in enough : freq <= other

\* cpufreq-set -f: of core 0.  Behind the array any number may lie.
Set(k) == frequency' \in IF k \in DOMAIN FreqArray
                           THEN {Granted(1000 * get_speed(FreqArray[k]))}
                           ELSE Range(FreqArray)

\* A decision is written to records, and what follows a write behind its MAX
\* entries is undefined.
Decide(wait_for) ==
    /\ fs.pc = "decide"
    /\ fs' = IF fs.i = Max THEN [fs EXCEPT !.pc = "lost"]
             ELSE Turn([fs EXCEPT !.i = @ + 1, !.wait_for = wait_for])
    /\ unwaited' = (unwaited \/ wait_for <= fs.current_beat)
    /\ UNCHANGED application

Raise == /\ TooSlow(fs) /\ current_counter > 0
         /\ current_counter' = current_counter - 1
         /\ Set(current_counter - 1)
         /\ Decide(fs.current_beat + Window)

\* Nothing is waited for at the top: the same record is decided on again.
AtTop == /\ TooSlow(fs) /\ current_counter = 0
         /\ Decide(fs.wait_for)
         /\ UNCHANGED <<frequency, current_counter>>

Fault_SetBefore ==
    /\ TooFast(fs)
    /\ IF current_counter < current
         THEN current_counter' = current_counter + 1 /\ Set(current_counter)
         ELSE UNCHANGED <<frequency, current_counter>>
    /\ Decide(fs.current_beat + Window)
Fault_PastEnd ==
    /\ TooFast(fs)
    /\ IF current_counter <= current
         THEN current_counter' = current_counter + 1 /\ Set(current_counter + 1)
         ELSE UNCHANGED <<frequency, current_counter>>
    /\ Decide(fs.current_beat + Window)
Lower == /\ TooFast(fs)
         /\ IF current_counter < current
              THEN current_counter' = current_counter + 1 /\ Set(current_counter + 1)
              ELSE UNCHANGED <<frequency, current_counter>>
         /\ Decide(fs.current_beat + Window)

InTarget == /\ ~TooSlow(fs) /\ ~TooFast(fs)
            /\ Decide(fs.current_beat + 1)
            /\ UNCHANGED <<frequency, current_counter>>

Step == Poll \/ Raise \/ AtTop \/ Lower \/ InTarget
-----------------------------------------------------------------------------
\* The type invariant.
TypeOK == /\ frequency \in Range(FreqArray)
          /\ current_counter \in 0..current
          /\ [fs EXCEPT !.pc = "poll"] \in Loops
          /\ fs.pc \in {"poll", "decide", "done", "lost"}
          /\ unwaited \in BOOLEAN

\* Rounded twice, by get_speed and by the kernel, the frequency of core 0 is still the
\* one of the index, but for frequencies closer together than the rounding can tell:
\* it is lower by less than a MHz, and not above another one that is 10 MHz higher.
IndexFollowed ==
    current_counter \in DOMAIN FreqArray =>
        LET meant == FreqArray[current_counter]
        IN  /\ frequency > meant - 1000
            /\ \A freq \in Range(FreqArray) : freq >= meant + 10000 => frequency <= freq

\* records is written once for each decision and never checked, and no record is
\* passed over: the array is left only by a service that has stood at the top
\* frequency with an application too slow, deciding on one record again and again.
LostAtTop == fs.i > fs.current_beat \/ fs.pc = "lost" => unwaited
=============================================================================
