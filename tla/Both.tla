-------------------------------- MODULE Both --------------------------------
(***************************************************************************)
(* test4/both.sh: the frequency scaler and the core allocator at once, on  *)
(* one application.  Neither knows of the other; each polls the current    *)
(* record in its own time, so they decide on the same records or on        *)
(* different ones.                                                         *)
(***************************************************************************)
EXTENDS ServiceLoop

CONSTANT Guesses    \* of CoreAllocator

VARIABLES mask, nprocs, ca, placed,       \* CoreAllocator
          hw1, counter1, fs1, scaled      \* FrequencyScaler1

allocator == <<mask, nprocs, ca, placed>>
scaler1   == <<hw1, counter1, fs1, scaled>>
services  == <<application, allocator, scaler1>>

CA == INSTANCE CoreAllocator
FS == INSTANCE FrequencyScaler1 WITH hw <- hw1, current_counter <- counter1, fs <- fs1

ASSUME BothAssumption ==
    /\ Ncpus \in Nat \ {0} /\ Guesses \subseteq 0..32
    /\ CORES \in Int /\ CORES <= Ncpus
    /\ FS!current \in Nat \ {0}
    /\ FreqArray \in [0..(FS!current - 1) -> Nat \ {0}]

BothInit == CA!Init /\ FS!Init
\* The loops end at MAX; until then an application that has ended, or whose
\* record has no rate, is polled for ever.
BothSpin == /\ \/ ca.pc # "done" \/ fs1.pc # "done"
            /\ UNCHANGED services
BothDone == ca.pc = "done" /\ fs1.pc = "done" /\ UNCHANGED services
BothNext == \/ (Beat \/ Finish) /\ UNCHANGED <<allocator, scaler1>>
            \/ CA!Step /\ UNCHANGED scaler1
            \/ FS!Step /\ UNCHANGED allocator
            \/ BothSpin \/ BothDone

BothSpec == BothInit /\ [][BothNext]_services
\* Either loop goes on: it waits for nothing but the record.
FairBothSpec == /\ BothSpec
                /\ WF_services(CA!Step /\ UNCHANGED scaler1)
                /\ WF_services(FS!Step /\ UNCHANGED allocator)
-----------------------------------------------------------------------------
\* The type invariants of both services.
BothTypeOK == CA!TypeOK /\ FS!TypeOK

\* The core allocator keeps a count of cores that is true from its first taskset
\* on, though it starts from a guess and counts down to 0 cores, which taskset
\* refuses (module CoreAllocator).
CountKept == CA!CountKept

\* The frequency scaler keeps an index that is true whenever it is one of the
\* list, though it is only counted and may leave it (module FrequencyScaler1).
BothIndexKept == FS!IndexKept

\* Neither writes behind the MAX entries of its records, although both write one
\* for each decision without a check: no record is decided on twice.
BothRecordsInArray == RecordsFit(ca) /\ RecordsFit(fs1)

\* Once the application has reached beat MAX both services end, whatever record
\* they were deciding on or passing over, and although the record may be the
\* application's last.
ServicesEnd == beat >= Max ~> (ca.pc = "done" /\ fs1.pc = "done")
=============================================================================
