-------------------------- MODULE FrequencyScaler1 --------------------------
(***************************************************************************)
(* frequencyscaler1.c: one frequency up for all cores 0..CORES when the    *)
(* application is too slow, one down when it is too fast.  The index into  *)
(* the list is looked up once, from core 0, and then only counted; its     *)
(* test against the length of the list lets it pass the end by one, where  *)
(* the frequency asked for is whatever lies behind the array.              *)
(*                                                                         *)
(* Each Fault_x is a faulty variant of a definition near it: the           *)
(* properties tell it from the code.                                       *)
(***************************************************************************)
EXTENDS ServiceLoop, FiniteSets, Functions

current == Cardinality(DOMAIN FreqArray)

VARIABLES hw,               \* the frequency each core runs at
          current_counter,  \* the index of the frequency that was set last
          fs,               \* the locals of the loop
          scaled            \* history: the service has set a frequency

vars == <<application, hw, current_counter, fs, scaled>>

\* The index of the frequency of core 0, which is one of the list.
get_init_frequency(cpu) == CHOOSE k \in DOMAIN FreqArray : FreqArray[k] = hw[cpu]

Init == /\ Begin
        /\ hw \in [Cpus -> Range(FreqArray)]
        /\ current_counter = get_init_frequency(0)
        /\ fs = Start
        /\ scaled = FALSE

Poll == /\ fs.pc = "poll" /\ rate # 0
        /\ fs' = Polled(fs)
        /\ UNCHANGED <<application, hw, current_counter, scaled>>

\* for (cpu=0; cpu <=CORES; cpu++): a core the machine does not have is refused.
Fault_Scaled == {c \in Cpus : c < CORES}
Scaled == {c \in Cpus : c <= CORES}

\* cpufreq_set_frequency on these cores.  What lies behind the array may be any
\* number: the kernel brings it into the list, or refuses it.
Set(k) == \E freq \in IF k \in DOMAIN FreqArray THEN {FreqArray[k]}
                      ELSE Range(FreqArray) \cup {0} :
             hw' = [c \in Cpus |-> IF c \in Scaled /\ freq # 0 THEN freq ELSE hw[c]]

Decide == fs.pc = "decide" /\ fs' = Decided(fs) /\ UNCHANGED application

Raise == /\ Decide /\ TooSlow(fs) /\ current_counter > 0
         /\ current_counter' = current_counter - 1
         /\ Set(current_counter - 1)
         /\ scaled' = TRUE
Lower == /\ Decide /\ TooFast(fs) /\ current_counter < current
         /\ current_counter' = current_counter + 1
         /\ Set(current_counter + 1)
         /\ scaled' = TRUE
Keep == /\ Decide
        /\ TooSlow(fs) => current_counter = 0
        /\ TooFast(fs) => current_counter = current
        /\ UNCHANGED <<hw, current_counter, scaled>>

Step == Poll \/ Raise \/ Lower \/ Keep
-----------------------------------------------------------------------------
\* The type invariant: the index leaves the list by one at most.
TypeOK == /\ hw \in [Cpus -> Range(FreqArray)]
          /\ current_counter \in 0..current
          /\ fs \in Loops
          /\ scaled \in BOOLEAN

\* The index is counted and never looked up again, and its walk may leave the
\* list; whenever it is in the list, all the cores the service scales run at the
\* frequency it stands for, also those that started at another one.
IndexKept == scaled /\ current_counter \in DOMAIN FreqArray =>
                \A c \in Cpus : c <= CORES => hw[c] = FreqArray[current_counter]
=============================================================================
