---------------------------- MODULE ServiceLoop -----------------------------
(***************************************************************************)
(* What core-allocator.c, frequencyscaler1.c and frequencyscaler2.c share: *)
(* an application that beats, and a loop of main that polls its current    *)
(* record until beat number MAX, sleeps on no lock and no signal, and      *)
(* decides on a record once the beat wait_for has come.                    *)
(*                                                                         *)
(* The locals of the loop are a record: current_beat, current_beat_prev,   *)
(* wait_for, the rate of the record last polled, i (the entries written to *)
(* records, an array of MAX entries), and a pc.                            *)
(*                                                                         *)
(* hrm_get_current is one step here, and a record is a whole one: module   *)
(* Heartbeat is about what it may miss of that.                            *)
(*                                                                         *)
(* Each Fault_x is a faulty variant of a definition near it: the           *)
(* properties tell it from the code.                                       *)
(***************************************************************************)
EXTENDS Integers

CONSTANTS Ncpus,             \* get_cpus()
          FreqArray,         \* available_freqs: 0..n-1 -> frequencies, highest first
          CORES,             \* argv[2] of the scalers, not above Ncpus
          Max,               \* argv[1], the beat a service ends at
          Window,            \* hrm_get_window_size
          MinRate, MaxRate,  \* hrm_get_min_rate, hrm_get_max_rate
          Rates,             \* the window rates a record may hold, but 0
          LastBeat           \* bound: the last beat of the application

ASSUME ServiceLoopAssumption ==
    /\ Max \in Nat \ {0} /\ Window \in Nat \ {0} /\ LastBeat \in Nat
    /\ Rates \subseteq Nat \ {0}

Cpus == 0..(Ncpus - 1)

VARIABLES beat,    \* the beat of the current record, -1 before the first
          rate,    \* its window rate: 0 for the first beat
          app      \* "up", or "down" once the application ended

application == <<beat, rate, app>>

Begin == beat = -1 /\ rate = 0 /\ app = "up"

\* heartbeat(): a new current record.
Beat == /\ app = "up" /\ beat < LastBeat
        /\ beat' = beat + 1
        /\ rate' \in IF beat = -1 THEN {0} ELSE Rates
        /\ UNCHANGED app

Finish == app = "up" /\ app' = "down" /\ UNCHANGED <<beat, rate>>
-----------------------------------------------------------------------------
Loops == [pc : {"poll", "decide", "done"}, current_beat : Nat,
          current_beat_prev : Nat, wait_for : Nat, rate : Rates \cup {0}, i : Nat]

\* The locals before the loop; the first record to decide on ends a window.
Start == [pc |-> "poll", current_beat |-> 0, current_beat_prev |-> 0,
          wait_for |-> Window, rate |-> 0, i |-> 0]

\* while(current_beat < MAX)
Fault_Inclusive(l) == [l EXCEPT !.pc = IF l.current_beat <= Max THEN "poll" ELSE "done",
                                !.rate = 0]
Again(l) == [l EXCEPT !.pc = IF l.current_beat < Max THEN "poll" ELSE "done",
                      !.rate = 0]

\* A record with a rate: the one already seen is passed over, one before
\* wait_for is only printed.
Fault_AnyBeat(l) == [l EXCEPT !.current_beat = beat, !.rate = rate,
                              !.current_beat_prev = beat, !.pc = "decide"]
Polled(l) ==
    LET new == [l EXCEPT !.current_beat = beat, !.rate = rate]
    IN  IF beat = l.current_beat_prev THEN Again(new)
        ELSE IF beat < l.wait_for THEN Again([new EXCEPT !.current_beat_prev = beat])
        ELSE [new EXCEPT !.current_beat_prev = beat, !.pc = "decide"]

TooSlow(l) == l.rate < MinRate
TooFast(l) == l.rate > MaxRate

\* A window is waited for after a rate out of the target, whether anything could
\* be changed or not; one beat after a rate in it.
Decided(l) ==
    Again([l EXCEPT !.i = @ + 1,
                    !.wait_for = IF TooSlow(l) \/ TooFast(l) THEN l.current_beat + Window
                                 ELSE l.current_beat + 1])

\* records is written once for each decision and never checked: what keeps the
\* writes inside the array is that no record is decided on twice.
RecordsFit(l) == l.i <= Max
=============================================================================
