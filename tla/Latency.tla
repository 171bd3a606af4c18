------------------------------ MODULE Latency -------------------------------
(***************************************************************************)
(* lat.c: two processes measure the latency of heartbeats by beating in    *)
(* turns.  Each has a segment of its own and monitors the other's; app     *)
(* waits for each answer of sys before it beats again.  They find each     *)
(* other by the files that heartbeat_init leaves in HEARTBEAT_ENABLED_DIR. *)
(*                                                                         *)
(* Of a segment only what hrm_get_current can make of a tag is kept: valid *)
(* and the tag of the record that read_index shows (module Heartbeat shows *)
(* the rest: one writer and a reader that waits for it between two beats   *)
(* leave each record whole).  After every BufferDepth-th beat read_index   *)
(* is BufferDepth for a moment, and shows the zeros with which the kernel  *)
(* fills the page behind the log.                                          *)
(*                                                                         *)
(* Each Fault_x is a faulty variant of a definition near it: the           *)
(* properties tell it from the code.                                       *)
(***************************************************************************)
EXTENDS Integers, FiniteSets

CONSTANTS Iters,        \* argv[1]
          BufferDepth,  \* the depth both give heartbeat_init, 100 in the code
          Garbage       \* what an unwritten record may hold as its tag

ASSUME LatencyAssumption == /\ Iters \in Nat
                            /\ BufferDepth \in Nat /\ BufferDepth >= 2
                            /\ Garbage \subseteq Int

Procs == {"app", "sys"}
Other(p) == IF p = "app" THEN "sys" ELSE "app"
BehindLog == 0
NoTag == -3

VARIABLES pc,      \* "init", "find", "attach", "beat", "wrap", "check", "copy",
                   \* "return", "finish" or "done"
          i,       \* the loop variable; Start stands for the exchange before it
          record,  \* record.tag, not initialised
          files,   \* HEARTBEAT_ENABLED_DIR
          valid, shown, count    \* the segment of each process

vars == <<pc, i, record, files, valid, shown, count>>

Start == Iters + 1

\* The tags of the two loops: app counts down and is answered by iters - i, sys
\* counts up and answers iters - i by i; before them, -2 is answered by -1.
Fault_NextTag(p) == IF i[p] = Start THEN (IF p = "app" THEN -2 ELSE -1)
                    ELSE i[p] + 1
Tag(p) == IF i[p] = Start THEN (IF p = "app" THEN -2 ELSE -1)
          ELSE i[p]
Awaited(p) == IF i[p] = Start THEN (IF p = "app" THEN -1 ELSE -2)
              ELSE Iters - i[p]

\* app beats and then waits, sys waits and then beats.
First(p) == IF p = "app" THEN "beat" ELSE "check"

\* for(i = iters; i > 0; i--) and for(i = 0; i < iters; i++)
NextI(p) == IF p = "app" THEN (IF i[p] = Start THEN Iters ELSE i[p] - 1)
            ELSE (IF i[p] = Start THEN 0 ELSE i[p] + 1)
Fault_EndsLate(p) == IF p = "app" THEN NextI(p) < 0 ELSE NextI(p) > Iters
Ended(p) == IF p = "app" THEN NextI(p) <= 0 ELSE NextI(p) >= Iters
TurnOver(p) == /\ i' = [i EXCEPT ![p] = NextI(p)]
               /\ pc' = [pc EXCEPT ![p] = IF Ended(p) THEN "finish" ELSE First(p)]

\* fork, with segments that earlier processes of these numbers may have left.
Init == /\ pc = [p \in Procs |-> "init"]
        /\ i = [p \in Procs |-> Start]
        /\ record \in [Procs -> Garbage]
        /\ files = {}
        /\ valid \in [Procs -> {0, 1}]
        /\ shown \in [Procs -> {NoTag, -1, -2, Iters}]
        /\ count = [p \in Procs |-> 0]
-----------------------------------------------------------------------------
\* heartbeat_init resets the segment and then creates the file.
Fault_InitKeeps(p) ==
    /\ pc[p] = "init"
    /\ files' = files \cup {p}
    /\ pc' = [pc EXCEPT ![p] = "find"]
    /\ UNCHANGED <<i, record, valid, shown, count>>
heartbeat_init(p) ==
    /\ pc[p] = "init"
    /\ valid' = [valid EXCEPT ![p] = 0]
    /\ files' = files \cup {p}
    /\ pc' = [pc EXCEPT ![p] = "find"]
    /\ UNCHANGED <<i, record, shown, count>>

\* while( get_heartbeat_apps(apps) != 2 )
get_heartbeat_apps(p) ==
    /\ pc[p] = "find" /\ Cardinality(files) = 2
    /\ pc' = [pc EXCEPT ![p] = "attach"]
    /\ UNCHANGED <<i, record, files, valid, shown, count>>

heart_rate_monitor_init(p) ==
    /\ pc[p] = "attach"
    /\ pc' = [pc EXCEPT ![p] = First(p)]
    /\ UNCHANGED <<i, record, files, valid, shown, count>>

\* The turn of app goes on with the wait, that of sys is over.
AfterBeat(p) == IF p = "app" THEN pc' = [pc EXCEPT ![p] = "check"] /\ UNCHANGED i
                ELSE TurnOver(p)

\* heartbeat(&heart, tag), up to the increment of read_index.
heartbeat(p) ==
    /\ pc[p] = "beat"
    /\ valid' = [valid EXCEPT ![p] = 1]
    /\ count' = [count EXCEPT ![p] = @ + 1]
    /\ IF count'[p] % BufferDepth = 1 /\ count'[p] > 1
         THEN /\ shown' = [shown EXCEPT ![p] = BehindLog]
              /\ pc' = [pc EXCEPT ![p] = "wrap"] /\ UNCHANGED i
         ELSE /\ shown' = [shown EXCEPT ![p] = Tag(p)]
              /\ AfterBeat(p)
    /\ UNCHANGED <<record, files>>

\* The rest of it, where read_index wraps.
Wrap(p) ==
    /\ pc[p] = "wrap"
    /\ shown' = [shown EXCEPT ![p] = Tag(p)]
    /\ AfterBeat(p)
    /\ UNCHANGED <<record, files, valid, count>>

\* hrm_get_current: valid, the record, valid again.
Check(p) ==
    /\ pc[p] = "check"
    /\ pc' = [pc EXCEPT ![p] = IF valid[Other(p)] = 1 THEN "copy" ELSE "return"]
    /\ UNCHANGED <<i, record, files, valid, shown, count>>
Copy(p) ==
    /\ pc[p] = "copy"
    /\ record' = [record EXCEPT ![p] = shown[Other(p)]]
    /\ pc' = [pc EXCEPT ![p] = "return"]
    /\ UNCHANGED <<i, files, valid, shown, count>>

\* while (rc != 0), and while( tag != ...)
Fault_AnyTag(p) == valid[Other(p)] = 1
Answered(p) == valid[Other(p)] = 1 /\ record[p] = Awaited(p)
Return(p) ==
    /\ pc[p] = "return"
    /\ IF ~Answered(p) THEN pc' = [pc EXCEPT ![p] = "check"] /\ UNCHANGED i
       ELSE IF p = "app" THEN TurnOver(p)
       ELSE pc' = [pc EXCEPT ![p] = "beat"] /\ UNCHANGED i
    /\ UNCHANGED <<record, files, valid, shown, count>>

heartbeat_finish(p) ==
    /\ pc[p] = "finish"
    /\ files' = files \ {p}
    /\ pc' = [pc EXCEPT ![p] = "done"]
    /\ UNCHANGED <<i, record, valid, shown, count>>

Run(p) == \/ heartbeat_init(p) \/ get_heartbeat_apps(p) \/ heart_rate_monitor_init(p)
          \/ heartbeat(p) \/ Wrap(p) \/ Check(p) \/ Copy(p) \/ Return(p)
          \/ heartbeat_finish(p)

\* The child ends, and main waits for it.
Done == (\A p \in Procs : pc[p] = "done") /\ UNCHANGED vars
Next == (\E p \in Procs : Run(p)) \/ Done

\* The processes poll: neither ever blocks.
Spec == Init /\ [][Next]_vars /\ \A p \in Procs : WF_vars(Run(p))
-----------------------------------------------------------------------------
\* The type invariant: no process beats more than Iters + 1 times.
TypeOK ==
    /\ pc \in [Procs -> {"init", "find", "attach", "beat", "wrap", "check", "copy",
                         "return", "finish", "done"}]
    /\ i \in [Procs -> 0..Start]
    /\ files \subseteq Procs
    /\ valid \in [Procs -> {0, 1}] /\ record \in [Procs -> Int] /\ shown \in [Procs -> Int]
    /\ count \in [Procs -> 0..(Iters + 1)]

\* The two beat in turns, app first, over the wraps of both logs: no beat is
\* missed or answered twice, although each process only polls the last record,
\* has no lock, and may find a segment that an earlier process left.
InTurns == /\ count["sys"] <= count["app"]
           /\ count["app"] <= count["sys"] + 1

\* The two processes beat in turns, app first, whatever was in memory (and all
\* variables have their types).
BeatsInTurns == TypeOK /\ InTurns

\* What ends a wait is the beat waited for: not what was in memory before, nor
\* behind the log while read_index is about to wrap.
RealAnswer == \A p \in Procs : pc[p] = "return" /\ Answered(p) =>
                 count[Other(p)] > 0 /\ shown[Other(p)] = Awaited(p)

\* Neither is left waiting: both come to their end.
BothEnd == <>(\A p \in Procs : pc[p] = "done")
=============================================================================
