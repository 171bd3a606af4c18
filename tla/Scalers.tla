------------------------------ MODULE Scalers -------------------------------
(***************************************************************************)
(* Either of two scalers on an application that beats and ends at any      *)
(* moment: frequencyscaler.c (FrequencyScaler0) or frequencyscaler2.c      *)
(* (FrequencyScaler2).  The variables of the other stand still.            *)
(***************************************************************************)
EXTENDS FrequencyScaler2

VARIABLES program, frequency, counter0, fs0, unwaited

First == INSTANCE FrequencyScaler0 WITH current_counter <- counter0, fs <- fs0

scaler0 == <<frequency, counter0, fs0, unwaited>>
all == <<vars, program, scaler0>>

\* The first scaler reads and sets core 0 alone.
ScalersInit ==
    /\ program \in {"frequencyscaler", "frequencyscaler2"}
    /\ Init /\ First!Init
    /\ frequency = hw[0]
    /\ program = "frequencyscaler" => \A c \in Cpus : hw[c] = hw[0]

Scaler0 == program = "frequencyscaler" /\ First!Step /\ UNCHANGED <<scaler, program>>
Scaler2 == program = "frequencyscaler2" /\ Step /\ UNCHANGED <<scaler0, program>>
Ended   == IF program = "frequencyscaler" THEN fs0.pc \in {"done", "lost"}
           ELSE fs.pc \in {"done", "lost"}

ScalersNext == \/ (Beat \/ Finish) /\ UNCHANGED <<scaler, scaler0, program>>
               \/ Scaler0 \/ Scaler2
               \/ (Spin \/ Done) /\ UNCHANGED <<scaler0, program>>

\* A service polls and waits for nobody.
ScalersSpec == ScalersInit /\ [][ScalersNext]_all /\ WF_all(Scaler0 \/ Scaler2)
-----------------------------------------------------------------------------
\* The first scaler: its type invariant; core 0 runs at the frequency of the index, as
\* far as the rounding can tell frequencies apart; and it leaves its array only from
\* the top frequency.
FirstScaler == First!TypeOK /\ First!IndexFollowed /\ First!LostAtTop

\* A scaler ends once its application has come to the beat it ends at, MAX-1 for
\* the first and MAX for the second, from every place of its loop and also when the
\* application has ended; or it has left its memory.
ScalerEnds == beat >= Max ~> Ended
=============================================================================
