-------------------------- MODULE FrequencyScaler2 --------------------------
(***************************************************************************)
(* frequencyscaler2.c: raises and lowers one core, current_core, and moves *)
(* on to the next when that core has reached the top and the application   *)
(* is still too slow.  The loop has a step for going back to the core      *)
(* below, but behind a test (current_counter > max_freq) that an index of  *)
(* the list never passes.                                                  *)
(*                                                                         *)
(* CORES may be get_cpus() itself: the last core is then one the machine   *)
(* does not have, whose frequency get_init_frequency looks for behind the  *)
(* end of available_freqs.                                                 *)
(*                                                                         *)
(* Each Fault_x is a faulty variant of a definition near it: the           *)
(* properties tell it from the code.                                       *)
(***************************************************************************)
EXTENDS ServiceLoop, FiniteSets, Functions

CONSTANT Behind   \* bound: how far behind available_freqs a lookup may go

max_freq == Cardinality(DOMAIN FreqArray)
Top      == FreqArray[0]

ASSUME FrequencyScalerAssumption ==
    /\ Ncpus \in Nat \ {0} /\ CORES \in Int /\ CORES <= Ncpus /\ Behind \in Nat
    /\ FreqArray \in [0..(max_freq - 1) -> Nat \ {0}]
    /\ max_freq \in Nat \ {0}

VARIABLES hw,                        \* the frequency each core runs at
          current_core,              \* the core the service works on
          current_counter,           \* the index of its frequency
          u_next, go_next,           \* it has reached the top; and the rate is still low
          fs                         \* the locals of the loop

scaler == <<hw, current_core, current_counter, u_next, go_next, fs>>
vars   == <<application, scaler>>

\* get_init_frequency: runs along the list until it finds the frequency of the
\* core.  The kernel says 0 of a core it does not have: the lookup ends at some
\* word behind the list, or the service dies of it (Lost below).
get_init_frequency(cpu) ==
    IF cpu \in Cpus THEN {k \in DOMAIN FreqArray : FreqArray[k] = hw[cpu]}
    ELSE max_freq..(max_freq + Behind)

Init == /\ Begin
        /\ hw \in [Cpus -> Range(FreqArray)]
        /\ current_core = 0
        /\ current_counter \in get_init_frequency(0)
        /\ u_next = 0 /\ go_next = 0
        /\ fs = Start

Poll == /\ fs.pc = "poll" /\ rate # 0
        /\ fs' = Polled(fs)
        /\ UNCHANGED <<application, hw, current_core, current_counter, u_next, go_next>>

\* cpufreq_set_frequency(core, available_freqs[k]): a core that does not exist
\* is refused.
Set(core, k) == hw' = IF core \in Cpus THEN [hw EXCEPT ![core] = FreqArray[k]] ELSE hw

\* The core is looked up, and takes the step at once from an index that can move.
Fault_KeepIndex(core, step, movable) ==
    /\ current_core' = core
    /\ current_counter' = current_counter
    /\ hw' = hw
MoveTo(core, step, movable) ==
    /\ current_core' = core
    /\ \E k \in get_init_frequency(core) :
         IF k \in movable THEN current_counter' = k + step /\ Set(core, k + step)
         ELSE current_counter' = k /\ hw' = hw

Decide == fs.pc = "decide" /\ fs' = Decided(fs) /\ UNCHANGED application

\* if (u_next==1) go_next=1: with the first low rate after the top was reached.
GoNext == IF u_next = 1 THEN 1 ELSE go_next

Raise == /\ Decide /\ TooSlow(fs) /\ current_counter > 0
         /\ current_counter' = current_counter - 1
         /\ Set(current_core, current_counter - 1)
         /\ u_next' = IF current_counter = 1 THEN 1 ELSE u_next
         /\ go_next' = GoNext
         /\ UNCHANGED current_core

\* Two faults: the test of current_counter is missing; current_core goes too far.
Fault_NextAnyway ==
    /\ Decide /\ TooSlow(fs) /\ GoNext = 1 /\ current_core < CORES
    /\ u_next' = 0 /\ go_next' = 0
    /\ MoveTo(current_core + 1, -1, 1..(max_freq + Behind))
Fault_OneCoreMore ==
    /\ Decide /\ TooSlow(fs) /\ current_counter = 0 /\ GoNext = 1 /\ current_core <= CORES
    /\ u_next' = 0 /\ go_next' = 0
    /\ MoveTo(current_core + 1, -1, 1..(max_freq + Behind))
Next_core ==
    /\ Decide /\ TooSlow(fs) /\ current_counter = 0 /\ GoNext = 1 /\ current_core < CORES
    /\ u_next' = 0 /\ go_next' = 0
    /\ MoveTo(current_core + 1, -1, 1..(max_freq + Behind))

Lower == /\ Decide /\ TooFast(fs) /\ current_counter < max_freq - 1
         /\ current_counter' = current_counter + 1
         /\ Set(current_core, current_counter + 1)
         /\ UNCHANGED <<current_core, u_next, go_next>>

Core_below ==
    /\ Decide /\ TooFast(fs) /\ current_counter > max_freq /\ current_core > 0
    /\ MoveTo(current_core - 1, 1, 0..(max_freq - 2))
    /\ UNCHANGED <<u_next, go_next>>

Keep == /\ Decide
        /\ TooSlow(fs) => current_counter = 0 /\ ~(GoNext = 1 /\ current_core < CORES)
        /\ TooFast(fs) => /\ current_counter >= max_freq - 1
                          /\ ~(current_counter > max_freq /\ current_core > 0)
        /\ go_next' = IF TooSlow(fs) THEN GoNext ELSE go_next
        /\ UNCHANGED <<hw, current_core, current_counter, u_next>>

\* The lookup of a core that does not exist leaves the memory of the process.
Lost == /\ fs.pc = "decide" /\ TooSlow(fs) /\ current_counter = 0 /\ GoNext = 1
        /\ current_core < CORES /\ current_core + 1 \notin Cpus
        /\ fs' = [fs EXCEPT !.pc = "lost"]
        /\ UNCHANGED <<application, hw, current_core, current_counter, u_next, go_next>>

\* Without a newer record the loop turns for ever; it ends at beat MAX.
Spin == fs.pc = "poll" /\ UNCHANGED vars
Done == fs.pc \in {"done", "lost"} /\ UNCHANGED vars

Step == \/ Poll \/ Raise \/ Next_core \/ Lower \/ Core_below \/ Keep \/ Lost
Next == \/ (Beat \/ Finish) /\ UNCHANGED scaler
        \/ Step \/ Spin \/ Done

Spec == Init /\ [][Next]_vars
-----------------------------------------------------------------------------
\* The type invariant: current_core goes up to CORES, which may be no core.
TypeOK == /\ hw \in [Cpus -> Range(FreqArray)]
          /\ current_core \in {0} \cup (0..CORES)
          /\ current_counter \in 0..(max_freq + Behind)
          /\ u_next \in {0, 1} /\ go_next \in {0, 1}
          /\ fs.pc = "lost" \/ fs \in Loops

\* The index is counted from step to step and looked up again at every move to
\* another core, also back from a core that does not exist: it is always that of
\* the frequency the current core runs at.
IndexKept == current_core \in Cpus =>
                /\ current_counter \in DOMAIN FreqArray
                /\ FreqArray[current_counter] = hw[current_core]

\* The service only leaves a core that is at the top frequency: all the cores
\* below the current one run at it, though a low rate may have been noted
\* (u_next, go_next) long before, and the core been lowered since.
BelowAtTop == \A c \in Cpus : c < current_core => hw[c] = Top

\* The writes to records, one for each decision and without a check, stay inside
\* its MAX entries: whatever beats are missed or polled twice, none is decided on
\* twice, and the last one ends the loop.
RecordsInArray == RecordsFit(fs)
=============================================================================
