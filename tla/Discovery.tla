----------------------------- MODULE Discovery ------------------------------
(***************************************************************************)
(* How applications and monitors find each other, through a directory with *)
(* a file per pid and segments keyed by pid, when processes end, die and   *)
(* get a pid that was used before.  Nothing is ever cleaned up but the     *)
(* file, and that only by heartbeat_finish: files are left over by a       *)
(* process that died, segments by every process.                           *)
(*                                                                         *)
(* An application is that of application.c: heartbeat_init, beats whose    *)
(* tag is their number, heartbeat_finish.  The monitor is one of three     *)
(* programs: system.c; core-allocator.c, whose start frequencyscaler1.c    *)
(* and frequencyscaler2.c share; combined.c.  Runs of applications are     *)
(* numbered in the order they start; run 0 is whatever was before.         *)
(*                                                                         *)
(* A beat is one step here, and so is hrm_get_current: what a monitor may  *)
(* see inside them is the subject of module Heartbeat.  The stores by      *)
(* which heartbeat_init resets a segment are steps of their own, since a   *)
(* monitor of an earlier process may poll, and the process die, between    *)
(* them.  Of a log the model has the two records that read_index may show: *)
(* the newest, and the one in slot 0.  The programs test                   *)
(* HEARTBEAT_ENABLED_DIR before anything else, so it is set.               *)
(*                                                                         *)
(* Each Fault_x is a faulty variant of a definition near it: the           *)
(* properties tell it from the code.                                       *)
(***************************************************************************)
EXTENDS Integers, FiniteSets

CONSTANTS Pids,        \* the process numbers the system gives out
          Depths,      \* the buffer depths applications are started with
          Beats,       \* the heartbeats an application issues
          Max,         \* argv[1] of the monitor
          Programs,    \* the programs the monitor may be
          Leftovers,   \* what an earlier process may have left of a pid:
                       \* [file, state, valid, at, shown, first, depth, log]
          LastRun      \* bound: the applications started

\* The segments that an earlier process left were as those of this module are.
ASSUME DiscoveryAssumption ==
    /\ Pids # {}
    /\ Depths \subseteq Nat \ {0} /\ Beats \in Nat \ {0} /\ Max \in Nat \ {0}
    /\ Programs \subseteq {"system", "core_allocator", "combined"}
    /\ LastRun \in Nat
    /\ Leftovers \subseteq [file : BOOLEAN, state : BOOLEAN, valid : BOOLEAN, at : Nat,
                            shown : 0..(Beats - 1), first : 0..(Beats - 1),
                            depth : Depths \cup {0}, log : Depths \cup {0}]
    /\ \A left \in Leftovers : left.valid => left.at < left.log

NoRun == -1

VARIABLES
    file,      \* the directory: the run that wrote the file of a pid, or NoRun
    state,     \* the segments HB_global_state_t: whether there, valid, read_index (at),
               \* the beats of the record it shows and of that in slot 0 (first), the
               \* run they are of, buffer_depth
    log,       \* the size of the segments of records, 0 for none
    process,   \* the application of a pid: its run, its place, the next beat,
               \* buffer_depth and whether it has a log
    started,   \* the last run
    short,     \* history: the runs of each pid whose log is too small
    latest,    \* history: the run of each pid that has reset read_index last
    monitor    \* the monitor's program, place and locals

vars == <<file, state, log, process, started, short, latest, monitor>>

Nobody == [run |-> NoRun, pc |-> "none", i |-> 0, depth |-> 0, attached |-> FALSE]

Init ==
    /\ \E left \in [Pids -> Leftovers] :
         /\ file = [p \in Pids |-> IF left[p].file THEN 0 ELSE NoRun]
         /\ state = [p \in Pids |-> [there |-> left[p].state, valid |-> left[p].valid,
                                     at |-> left[p].at, shown |-> left[p].shown,
                                     first |-> left[p].first, run |-> 0,
                                     depth |-> left[p].depth]]
         /\ log = [p \in Pids |-> left[p].log]
    /\ process = [p \in Pids |-> Nobody]
    /\ started = 0 /\ short = [p \in Pids |-> {}] /\ latest = [p \in Pids |-> 0]
    /\ \E program \in Programs :
         monitor = [program |-> program, pc |-> "find", pid |-> CHOOSE p \in Pids : TRUE,
                    found |-> NoRun, rc |-> 0, last |-> IF program = "system" THEN -1 ELSE 0,
                    taken |-> 0, runs |-> {}]
-----------------------------------------------------------------------------
(* The application with pid p *)

At(p, pc) == process[p].pc = pc
Goto(p, pc) == process' = [process EXCEPT ![p].pc = pc]

\* fork and exec: a free pid may have been used before.
Start(p) ==
    /\ At(p, "none") /\ started < LastRun
    /\ started' = started + 1
    /\ \E d \in Depths :
         process' = [process EXCEPT ![p] = [Nobody EXCEPT !.run = started + 1,
                                                          !.pc = "state", !.depth = d]]
    /\ UNCHANGED <<file, state, log, short, latest, monitor>>

\* HB_alloc_state: a new segment is all zeros, one that is there is taken as it is.
Zeros(run) == [there |-> TRUE, valid |-> FALSE, at |-> 0, shown |-> 0, first |-> 0,
               run |-> run, depth |-> 0]

Fault_FileFirst(p) ==
    /\ At(p, "state")
    /\ state' = IF state[p].there THEN state ELSE [state EXCEPT ![p] = Zeros(process[p].run)]
    /\ file' = [file EXCEPT ![p] = process[p].run]
    /\ Goto(p, "log")
    /\ UNCHANGED <<log, started, short, latest, monitor>>
HB_alloc_state(p) ==
    /\ At(p, "state")
    /\ state' = IF state[p].there THEN state ELSE [state EXCEPT ![p] = Zeros(process[p].run)]
    /\ Goto(p, "log")
    /\ UNCHANGED <<file, log, started, short, latest, monitor>>

\* HB_alloc_log: shmget finds the segment of the key, and fails if it is smaller
\* than what is asked for.
Fault_AnySize(p) == TRUE
FindsLog(p) == log[p] = 0 \/ process[p].depth <= log[p]

HB_alloc_log(p) ==
    /\ At(p, "log")
    /\ log' = IF log[p] = 0 THEN [log EXCEPT ![p] = process[p].depth] ELSE log
    /\ short' = IF FindsLog(p) THEN short ELSE [short EXCEPT ![p] = @ \cup {process[p].run}]
    /\ process' = [process EXCEPT ![p] = [@ EXCEPT !.pc = "reset", !.attached = FindsLog(p)]]
    /\ UNCHANGED <<file, state, started, latest, monitor>>

\* read_index and buffer_depth are plain stores, which a build may take in either
\* order; the call of pthread_mutex_init keeps both before that of valid.
ResetIndex(p) ==
    /\ process[p].pc \in {"reset", "index"}
    /\ state' = [state EXCEPT ![p] = [@ EXCEPT !.at = 0, !.shown = state[p].first]]
    /\ latest' = [latest EXCEPT ![p] = process[p].run]
    /\ Goto(p, IF At(p, "reset") THEN "depth" ELSE "valid")
    /\ UNCHANGED <<file, log, started, short, monitor>>

ResetDepth(p) ==
    /\ process[p].pc \in {"reset", "depth"}
    /\ state' = [state EXCEPT ![p].depth = process[p].depth]
    /\ Goto(p, IF At(p, "reset") THEN "index" ELSE "valid")
    /\ UNCHANGED <<file, log, started, short, latest, monitor>>

Fault_KeepValid(p) ==
    /\ At(p, "valid")
    /\ state' = state
    /\ Goto(p, "file")
    /\ UNCHANGED <<file, log, started, short, latest, monitor>>
ResetValid(p) ==
    /\ At(p, "valid")
    /\ state' = [state EXCEPT ![p].valid = FALSE]
    /\ Goto(p, "file")
    /\ UNCHANGED <<file, log, started, short, latest, monitor>>

\* fopen of the file; init returns 1 if it fails, 2 without a log, and the
\* application prints either and goes on.
Announce(p) ==
    /\ At(p, "file")
    /\ \/ file' = [file EXCEPT ![p] = process[p].run]
       \/ UNCHANGED file
    /\ Goto(p, "beat")
    /\ UNCHANGED <<state, log, started, short, latest, monitor>>

\* The record of beat i, in its slot, is the one shown.
Record(s, run, i) ==
    [s EXCEPT !.valid = TRUE, !.at = i % s.depth, !.shown = i, !.run = run,
              !.first = IF i % s.depth = 0 THEN i ELSE s.first]

\* heartbeat(): without a log the first store is to address 0.
Beat(p) ==
    /\ At(p, "beat") /\ process[p].attached
    /\ state' = [state EXCEPT ![p] = Record(state[p], process[p].run, process[p].i)]
    /\ process' = [process EXCEPT ![p] =
                      [@ EXCEPT !.i = process[p].i + 1,
                                !.pc = IF process[p].i + 1 = Beats THEN "finish" ELSE "beat"]]
    /\ UNCHANGED <<file, log, started, short, latest, monitor>>

\* heartbeat_finish removes the file; the process ends, its segments stay.
heartbeat_finish(p) ==
    /\ At(p, "finish")
    /\ file' = [file EXCEPT ![p] = NoRun]
    /\ process' = [process EXCEPT ![p] = Nobody]
    /\ UNCHANGED <<state, log, started, short, latest, monitor>>

\* The process dies, of itself or of a store to address 0: its file stays too.
Die(p) ==
    /\ ~At(p, "none")
    /\ process' = [process EXCEPT ![p] = Nobody]
    /\ UNCHANGED <<file, state, log, started, short, latest, monitor>>
-----------------------------------------------------------------------------
(* The monitor *)

Here(pc) == monitor.pc = pc /\ UNCHANGED <<file, state, log, process, started, short, latest>>

\* get_heartbeat_apps until there is one: two are refused, by assert(n==1), by
\* exit(2), by fail_if.
get_heartbeat_apps ==
    /\ Here("find")
    /\ LET apps == {p \in Pids : file[p] # NoRun}
       IN  /\ apps # {}
           /\ IF Cardinality(apps) > 1 THEN monitor' = [monitor EXCEPT !.pc = "refused"]
              ELSE \E p \in apps : monitor' = [monitor EXCEPT !.pc = "attach", !.pid = p,
                                                              !.found = file[p]]

\* heart_rate_monitor_init fails: combined gives up; the others print it and go
\* on, to read buffer_depth from a segment they do not have (1), or to poll
\* without the log (2).
Failed(rc) ==
    monitor' = [monitor EXCEPT !.rc = rc,
                               !.pc = IF monitor.program = "combined" THEN "failed"
                                      ELSE IF rc = 1 THEN "crashed" ELSE "poll"]

AttachState == /\ Here("attach")
               /\ IF state[monitor.pid].there
                    THEN monitor' = [monitor EXCEPT !.pc = "attach_log"] ELSE Failed(1)

\* The size asked for is that of the buffer_depth the segment shows.
AttachLog == /\ Here("attach_log")
             /\ IF log[monitor.pid] > 0 /\ state[monitor.pid].depth <= log[monitor.pid]
                  THEN monitor' = [monitor EXCEPT !.pc = "poll"] ELSE Failed(2)

\* The records a program takes: one with another tag than the last; one with a
\* rate (the first beat has none) and another beat; one with a rate and a later
\* beat.
New(n) == CASE monitor.program = "system"         -> n # monitor.last
            [] monitor.program = "core_allocator" -> n # monitor.last /\ n > 0
            [] monitor.program = "combined"       -> n > monitor.last

\* while(last_tag < MAX-1), while(current_beat < MAX), while (current.beat < max_beats)
LastTag == IF monitor.program = "system" THEN Max - 1 ELSE Max
Fault_EndsLate(n) == n > LastTag
Ends(n) == n >= LastTag

\* A valid record is taken; without a log the copy is from no address.
Take ==
    LET s == state[monitor.pid]
    IN  /\ Here("poll") /\ s.valid
        /\ IF monitor.rc = 2 THEN monitor' = [monitor EXCEPT !.pc = "crashed"]
           ELSE /\ New(s.shown)
                /\ monitor' = [monitor EXCEPT !.last = s.shown, !.taken = @ + 1,
                                              !.runs = @ \cup {s.run},
                                              !.pc = IF Ends(s.shown) THEN "done" ELSE "poll"]

\* Polling the directory, or the record, once more; or nothing to do.
Idle == UNCHANGED vars

Watch == get_heartbeat_apps \/ AttachState \/ AttachLog \/ Take
App(p) == \/ Start(p) \/ HB_alloc_state(p) \/ HB_alloc_log(p)
          \/ ResetIndex(p) \/ ResetDepth(p) \/ ResetValid(p)
          \/ Announce(p) \/ Beat(p) \/ heartbeat_finish(p) \/ Die(p)
Next == (\E p \in Pids : App(p)) \/ Watch \/ Idle

Spec == Init /\ [][Next]_vars
\* The monitor polls and never blocks.  Applications owe nothing.
FairSpec == Spec /\ WF_vars(Watch)
-----------------------------------------------------------------------------
Segment == [there : BOOLEAN, valid : BOOLEAN, at : Nat, shown : 0..(Beats - 1),
            first : 0..(Beats - 1), run : 0..LastRun, depth : Depths \cup {0}]
Process == [run : NoRun..LastRun, i : 0..Beats, depth : Depths \cup {0}, attached : BOOLEAN,
            pc : {"none", "state", "log", "reset", "index", "depth", "valid", "file",
                  "beat", "finish"}]
Monitor == [program : Programs, pid : Pids, found : NoRun..LastRun, rc : {0, 1, 2},
            pc : {"find", "attach", "attach_log", "poll", "done", "refused", "failed",
                  "crashed"},
            last : -1..(Beats - 1), taken : Nat, runs : SUBSET (0..LastRun)]

\* The type invariant.
TypeOK ==
    /\ file \in [Pids -> NoRun..LastRun]
    /\ state \in [Pids -> Segment]
    /\ log \in [Pids -> Depths \cup {0}]
    /\ process \in [Pids -> Process]
    /\ started \in 0..LastRun
    /\ short \in [Pids -> SUBSET (1..LastRun)] /\ latest \in [Pids -> 0..LastRun]
    /\ monitor \in Monitor

\* A monitor never takes a record of an application that was before the one whose
\* file it found, though the segments of that one are taken over as they are, with
\* valid still set: valid is reset before the file is written.
NoRecordBefore == \A r \in monitor.runs : r >= monitor.found

\* Attaching fails only to what a crash or a reboot left over: a file without its
\* segments, or a log that an earlier process with the same pid has made too small
\* for the one found, or for a later one with that pid.
AttachFails ==
    monitor.rc # 0 => monitor.found = 0 \/ \E r \in short[monitor.pid] : r >= monitor.found

\* The record that a valid state shows lies in the log segment, at every moment,
\* though depths change from one process of a pid to the next and the segment never
\* does, and though a process may die after it has set its own depth and before it
\* has reset valid: such a state promises more records than there is room for.  A
\* process without a log dies before it is valid.
ShownFits == \A p \in Pids : state[p].valid => state[p].at < log[p]

\* What a valid state shows is in its log, through all processes of a pid (and all
\* variables have their types).
SegmentsFit == TypeOK /\ ShownFits

\* system.c writes a record per tag into an array of MAX: the records taken are
\* no more than the beats of the run, as long as no later process of the pid has
\* reset read_index.  (From then on, and until it resets valid, the record in slot 0
\* is shown once more.)
RecordsFit ==
    (\A r \in monitor.runs : r = latest[monitor.pid]) => monitor.taken <= monitor.last + 1

\* What a monitor takes is of the application it found, or of a later one with its
\* pid, and no more than the beats of that run until the pid is used again.
RecordsOfRun == NoRecordBefore /\ RecordsFit

\* A monitor that has a log ends once its application has shown the beat it ends
\* at, also when the application has finished, or has died on this very beat, since
\* the segments stay; unless the pid is used again.
MonitorEnds ==
    \A p \in Pids :
        LET reached == state[p].valid /\ state[p].shown >= LastTag
        IN  (monitor.pc = "poll" /\ monitor.pid = p /\ reached)
              ~> (monitor.pc # "poll" \/ ~reached)
=============================================================================
