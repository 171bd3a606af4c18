-------------------------- MODULE DiscoveryProofs ---------------------------
(***************************************************************************)
(* Proofs about module Discovery, for any number of pids and of runs, any  *)
(* depths, and whatever earlier processes left: the inductive invariant    *)
(* IInv, and from it what the segments hold, when attaching may fail, and  *)
(* whose records a monitor takes.                                          *)
(***************************************************************************)
EXTENDS Discovery, TLAPS

Alive(p)    == process[p].pc # "none"
Building(p) == process[p].pc \in {"state", "log", "reset", "index", "depth", "valid"}

\* Runs are numbered in the order they start, also those a segment or a file is of.
Numbering(p) ==
    /\ file[p] <= started /\ state[p].run <= started /\ latest[p] <= started
    /\ Alive(p) => /\ process[p].run \in 1..started /\ file[p] <= process[p].run
                   /\ latest[p] <= process[p].run
                   /\ process[p].depth \in Depths
                   /\ process[p].pc # "finish" => process[p].i < Beats
    /\ process[p].pc \in {"depth", "valid", "file", "beat", "finish"} =>
         latest[p] = process[p].run

\* What a process has got of its segments at each place of heartbeat_init.
Allocated(p) ==
    /\ Alive(p) /\ process[p].pc # "state" => state[p].there
    /\ Alive(p) /\ process[p].pc \notin {"state", "log"} =>
         /\ log[p] > 0
         /\ IF process[p].attached THEN process[p].depth <= log[p]
            ELSE process[p].run \in short[p]
    /\ process[p].pc \in {"index", "valid", "file", "beat", "finish"} =>
         state[p].depth = process[p].depth

\* A file stands for segments that are there, and that fit, or else for a run, its
\* own or a later one, that has found its log too small.
Promise(p) ==
    /\ state[p].valid => state[p].at < log[p]
    /\ file[p] >= 1 => /\ state[p].there /\ log[p] > 0
                       /\ state[p].depth > log[p] => \E r \in short[p] : r >= file[p]

\* The run that a valid record is of.
Shown(p) ==
    state[p].valid =>
        /\ file[p] <= state[p].run
        /\ Building(p) => state[p].run < process[p].run
        /\ process[p].pc # "file"
        /\ process[p].pc \in {"beat", "finish"} =>
             state[p].run = process[p].run /\ state[p].shown = process[p].i - 1

\* What is so of the pid that a monitor found, and stays so.
Watched(p) ==
    /\ monitor.pc \in {"find", "attach", "attach_log"} => monitor.rc = 0
    /\ monitor.pc \in {"attach", "attach_log"} => monitor.found >= 0
    /\ monitor.found <= started
    /\ Alive(p) => process[p].run >= monitor.found
    /\ state[p].valid => state[p].run >= monitor.found
    /\ monitor.found >= 1 =>
         /\ state[p].there /\ log[p] > 0
         /\ state[p].depth > log[p] => \E r \in short[p] : r >= monitor.found

Latest(p) == \A r \in monitor.runs : r = latest[p]

\* As long as all records were of the run that has reset the segment last, the next
\* one of it is later than the last.
Taken(p) ==
    /\ monitor.pc = "find" => monitor.runs = {}
    /\ monitor.runs = {} => monitor.taken = 0
    /\ monitor.runs \subseteq 0..started
    /\ Alive(p) /\ process[p].run \in monitor.runs => process[p].pc \in {"beat", "finish"}
    /\ Latest(p) =>
         /\ monitor.taken <= monitor.last + 1
         /\ monitor.runs # {} =>
              /\ Alive(p) /\ process[p].run = latest[p] => process[p].i > monitor.last
              /\ state[p].valid /\ state[p].run = latest[p] => state[p].shown >= monitor.last

\* What is so of every pid.
Sound(p) == Numbering(p) /\ Allocated(p) /\ Promise(p) /\ Shown(p)

PidInv == \A p \in Pids : Sound(p)
MonitorInv == Watched(monitor.pid) /\ Taken(monitor.pid) /\ AttachFails /\ NoRecordBefore

IInv == TypeOK /\ PidInv /\ MonitorInv
-----------------------------------------------------------------------------
\* What the constants are used for.
LEMMA Sizes ==
    /\ Beats \in Nat /\ 0 \in 0..(Beats - 1) /\ 0 \in 0..Beats
    /\ LastRun \in Nat /\ 0 \in 0..LastRun
    /\ \A d \in Depths : d \in Nat /\ d > 0
BY DiscoveryAssumption

\* A step of the application with pid p, which may find its log too small.
StepOf(p) ==
    /\ \A q \in Pids : q # p => /\ process'[q] = process[q] /\ state'[q] = state[q]
                                /\ log'[q] = log[q] /\ file'[q] = file[q]
                                /\ latest'[q] = latest[q]
    /\ UNCHANGED monitor
    /\ started <= started' /\ \A q \in Pids : short[q] \subseteq short'[q]

\* Such a step concerns no other pid, nor a monitor that has found another.
LEMMA StepOfOne ==
    ASSUME IInv, NEW p \in Pids, StepOf(p), TypeOK', Sound(p)',
           monitor.pid = p => Watched(p)' /\ Taken(p)'
    PROVE  IInv'
<1>1. PidInv'
  <2> SUFFICES ASSUME NEW q \in Pids PROVE Sound(q)'
    BY DEF PidInv, Sound
  <2>1. CASE q = p
    BY <2>1
  <2>2. CASE q # p
    <3>1. /\ process'[q] = process[q] /\ state'[q] = state[q]
          /\ log'[q] = log[q] /\ file'[q] = file[q] /\ latest'[q] = latest[q]
          /\ started <= started' /\ short[q] \subseteq short'[q]
      BY <2>2 DEF StepOf
    <3>2. Numbering(q) /\ Allocated(q) /\ Promise(q) /\ Shown(q)
      BY DEF IInv, PidInv, Sound
    <3>3. /\ started \in Nat /\ started' \in Nat
          /\ file[q] \in Int /\ state[q].run \in Int /\ process[q].run \in Int
          /\ latest[q] \in Int
      BY Sizes DEF IInv, TypeOK, NoRun, Segment, Process
    <3>4. Numbering(q)'
      BY <3>1, <3>2, <3>3 DEF Numbering, Alive
    <3>5. Allocated(q)'
      BY <3>1, <3>2 DEF Allocated, Alive
    <3>6. Promise(q)'
      BY <3>1, <3>2 DEF Promise
    <3>7. Shown(q)'
      BY <3>1, <3>2 DEF Shown, Building
    <3> QED BY <3>4, <3>5, <3>6, <3>7 DEF Sound
  <2> QED BY <2>1, <2>2
<1>2. MonitorInv'
  <2>1. PICK m \in Pids : m = monitor.pid /\ UNCHANGED monitor
    BY DEF StepOf, IInv, TypeOK, Monitor
  <2>2. Watched(m) /\ Taken(m) /\ AttachFails /\ NoRecordBefore
    BY <2>1 DEF IInv, MonitorInv
  <2>3. short[m] \subseteq short'[m]
    BY DEF StepOf
  <2>4. AttachFails' /\ NoRecordBefore'
    BY <2>1, <2>2, <2>3 DEF AttachFails, NoRecordBefore
  <2>5. CASE m = p
    BY <2>1, <2>4, <2>5 DEF MonitorInv
  <2>6. CASE m # p
    <3>1. /\ process'[m] = process[m] /\ state'[m] = state[m] /\ log'[m] = log[m]
          /\ latest'[m] = latest[m] /\ started <= started'
      BY <2>1, <2>6 DEF StepOf
    <3>2. /\ started \in Nat /\ started' \in Nat /\ monitor.found \in Int
      BY Sizes DEF IInv, TypeOK, NoRun, Monitor
    <3>3. Watched(m)'
      BY <2>1, <2>2, <2>3, <3>1, <3>2 DEF Watched, Alive
    <3>4. Taken(m)'
      BY <2>1, <2>2, <3>1, <3>2 DEF Taken, Latest, Alive
    <3> QED BY <2>1, <2>4, <3>3, <3>4 DEF MonitorInv
  <2> QED BY <2>5, <2>6
<1> QED BY <1>1, <1>2 DEF IInv

\* A process that starts has a number that no record and no file has.
LEMMA StartInv == ASSUME IInv, NEW p \in Pids, Start(p) PROVE IInv'
<1> USE Sizes
<1>typed. /\ TypeOK /\ state[p] \in Segment /\ process[p] \in Process
          /\ Numbering(p) /\ Allocated(p) /\ Promise(p) /\ Shown(p)
          /\ monitor.pid = p => Watched(p) /\ Taken(p)
  BY DEF IInv, PidInv, Sound, MonitorInv, TypeOK
<1>numbers. /\ log[p] \in Nat /\ state[p].depth \in Nat /\ process[p].depth \in Nat
            /\ state[p].run \in Nat /\ process[p].run \in Int /\ process[p].i \in Nat
            /\ state[p].shown \in Nat /\ state[p].at \in Nat /\ file[p] \in Int
            /\ started \in Nat /\ latest[p] \in Nat
  BY <1>typed DEF TypeOK, Segment, Process, NoRun
<1>before. process[p].pc = "none" /\ started \in 0..LastRun /\ started < LastRun
  BY <1>typed DEF TypeOK, Process, Numbering, Alive, Start, At
<1>same. UNCHANGED <<file, state, log, short, latest, monitor>>
  BY DEF Start
<1>process. PICK d \in Depths :
              process' = [process EXCEPT ![p] = [run |-> started + 1, pc |-> "state", i |-> 0,
                                                 depth |-> d, attached |-> FALSE]]
  BY DEF Start, Nobody
<1>fields. /\ process'[p] = [run |-> started + 1, pc |-> "state", i |-> 0, depth |-> d,
                             attached |-> FALSE]
           /\ started' = started + 1
  BY <1>process, <1>typed DEF TypeOK, Start
<1>1. StepOf(p)
  BY <1>typed, <1>process DEF TypeOK, StepOf, Start, At
<1>2. TypeOK'
  <2>1. started + 1 \in -1..LastRun /\ started' \in 0..LastRun
    BY <1>before, <1>fields
  <2>2. process'[p] \in Process
    BY <2>1, <1>fields DEF Process, NoRun
  <2> QED BY <2>1, <2>2, <1>typed, <1>process DEF TypeOK, Start, At
<1>3. Sound(p)'
  <2>1. Numbering(p)'
    BY <1>typed, <1>numbers, <1>before, <1>fields, <1>same DEF Numbering, Alive
  <2>2. Allocated(p)'
    BY <1>typed, <1>numbers, <1>before, <1>fields, <1>same DEF Allocated, Numbering, Alive
  <2>3. Promise(p)'
    BY <1>typed, <1>numbers, <1>before, <1>fields, <1>same
    DEF Promise, Allocated, Numbering, Shown, Alive
  <2>4. Shown(p)'
    BY <1>typed, <1>numbers, <1>before, <1>fields, <1>same
    DEF Shown, Numbering, Alive, Building
  <2> QED BY <2>1, <2>2, <2>3, <2>4 DEF Sound
<1>4. ASSUME monitor.pid = p PROVE Watched(p)' /\ Taken(p)'
  <2>1. Watched(p) /\ Taken(p) /\ monitor.found \in Int /\ started \in Nat
    BY <1>4, <1>typed DEF TypeOK, Monitor, NoRun
  <2>2. Watched(p)'
    BY <2>1, <1>typed, <1>numbers, <1>before, <1>fields, <1>same
    DEF Watched, Allocated, Numbering, Alive
  <2>3. Taken(p)'
    BY <2>1, <1>typed, <1>numbers, <1>before, <1>fields, <1>same
    DEF Taken, Latest, Numbering, Shown, Alive, Building, TypeOK, Monitor
  <2> QED BY <2>2, <2>3
<1> QED BY <1>1, <1>2, <1>3, <1>4, StepOfOne

\* A segment that is there is taken over as it is, a new one holds nothing.
LEMMA HB_alloc_stateInv == ASSUME IInv, NEW p \in Pids, HB_alloc_state(p) PROVE IInv'
<1> USE Sizes
<1>typed. /\ TypeOK /\ state[p] \in Segment /\ process[p] \in Process
          /\ Numbering(p) /\ Allocated(p) /\ Promise(p) /\ Shown(p)
          /\ monitor.pid = p => Watched(p) /\ Taken(p)
  BY DEF IInv, PidInv, Sound, MonitorInv, TypeOK
<1>numbers. /\ log[p] \in Nat /\ state[p].depth \in Nat /\ process[p].depth \in Nat
            /\ state[p].run \in Nat /\ process[p].run \in Int /\ process[p].i \in Nat
            /\ state[p].shown \in Nat /\ state[p].at \in Nat /\ file[p] \in Int
            /\ started \in Nat /\ latest[p] \in Nat
  BY <1>typed DEF TypeOK, Segment, Process, NoRun
<1>before. process[p].pc = "state"
  BY <1>typed DEF TypeOK, Process, Numbering, Alive, HB_alloc_state, At, Goto
<1>same. UNCHANGED <<file, log, started, short, latest, monitor>>
  BY DEF HB_alloc_state
<1>segment. \/ state'[p] = state[p] /\ state[p].there
            \/ state'[p] = Zeros(process[p].run)
  BY <1>typed DEF TypeOK, HB_alloc_state
<1>zeros. Zeros(process[p].run) = [there |-> TRUE, valid |-> FALSE, at |-> 0, shown |-> 0,
                                   first |-> 0, run |-> process[p].run, depth |-> 0]
  BY DEF Zeros
<1>fields. /\ process'[p].pc = "log" /\ process'[p].run = process[p].run
            /\ process'[p].i = process[p].i /\ process'[p].depth = process[p].depth
            /\ process'[p].attached = process[p].attached
  BY <1>typed DEF TypeOK, Process, HB_alloc_state, At, Goto
<1>1. StepOf(p)
  BY <1>typed DEF TypeOK, StepOf, HB_alloc_state, At, Goto
<1>2. TypeOK'
  <2>1. process[p].run \in 0..LastRun
    BY <1>typed DEF TypeOK, Numbering, Alive, HB_alloc_state, At
  <2>2. state'[p] \in Segment
    <3>1. CASE state'[p] = state[p]
      BY <3>1, <1>typed
    <3>2. CASE state'[p] # state[p]
      <4>1. Zeros(process[p].run) \in Segment
        BY <2>1 DEF Zeros, Segment
      <4> QED BY <3>2, <4>1, <1>segment
    <3> QED BY <3>1, <3>2
  <2>3. process'[p] \in Process
    BY <1>typed DEF TypeOK, Process, HB_alloc_state, At, Goto
  <2> QED BY <2>1, <2>2, <2>3, <1>typed DEF TypeOK, HB_alloc_state, At, Goto
<1>3. Sound(p)'
  <2>1. Numbering(p)'
    BY <1>typed, <1>numbers, <1>before, <1>fields, <1>same, <1>segment, <1>zeros DEF Numbering, Alive
  <2>2. Allocated(p)'
    BY <1>typed, <1>numbers, <1>before, <1>fields, <1>same, <1>segment, <1>zeros
    DEF Allocated, Numbering, Alive
  <2>3. Promise(p)'
    BY <1>typed, <1>numbers, <1>before, <1>fields, <1>same, <1>segment, <1>zeros
    DEF Promise, Allocated, Numbering, Shown, Alive
  <2>4. Shown(p)'
    BY <1>typed, <1>numbers, <1>before, <1>fields, <1>same, <1>segment, <1>zeros
    DEF Shown, Numbering, Alive, Building
  <2> QED BY <2>1, <2>2, <2>3, <2>4 DEF Sound
<1>4. ASSUME monitor.pid = p PROVE Watched(p)' /\ Taken(p)'
  <2>1. Watched(p) /\ Taken(p) /\ monitor.found \in Int /\ started \in Nat
    BY <1>4, <1>typed DEF TypeOK, Monitor, NoRun
  <2>2. Watched(p)'
    BY <2>1, <1>typed, <1>numbers, <1>before, <1>fields, <1>same, <1>segment, <1>zeros
    DEF Watched, Allocated, Numbering, Alive
  <2>3. Taken(p)'
    BY <2>1, <1>typed, <1>numbers, <1>before, <1>fields, <1>same, <1>segment, <1>zeros
    DEF Taken, Latest, Numbering, Shown, Alive, Building, TypeOK, Monitor
  <2> QED BY <2>2, <2>3
<1> QED BY <1>1, <1>2, <1>3, <1>4, StepOfOne

\* A log that is too small leaves the run in short.
LEMMA HB_alloc_logInv == ASSUME IInv, NEW p \in Pids, HB_alloc_log(p) PROVE IInv'
<1> USE Sizes
<1>typed. /\ TypeOK /\ state[p] \in Segment /\ process[p] \in Process
          /\ Numbering(p) /\ Allocated(p) /\ Promise(p) /\ Shown(p)
          /\ monitor.pid = p => Watched(p) /\ Taken(p)
  BY DEF IInv, PidInv, Sound, MonitorInv, TypeOK
<1>numbers. /\ log[p] \in Nat /\ state[p].depth \in Nat /\ process[p].depth \in Nat
            /\ state[p].run \in Nat /\ process[p].run \in Int /\ process[p].i \in Nat
            /\ state[p].shown \in Nat /\ state[p].at \in Nat /\ file[p] \in Int
            /\ started \in Nat /\ latest[p] \in Nat
  BY <1>typed DEF TypeOK, Segment, Process, NoRun
<1>before. process[p].pc = "log" /\ process[p].depth \in Depths
  BY <1>typed DEF TypeOK, Process, Numbering, Alive, HB_alloc_log, FindsLog, At
<1>same. UNCHANGED <<file, state, started, latest, monitor>>
  BY DEF HB_alloc_log
<1>process. PICK found \in BOOLEAN :
              /\ process' = [process EXCEPT ![p] = [@ EXCEPT !.pc = "reset",
                                                            !.attached = found]]
              /\ found = (log[p] = 0 \/ process[p].depth <= log[p])
              /\ short' = IF found THEN short
                          ELSE [short EXCEPT ![p] = @ \cup {process[p].run}]
  BY DEF HB_alloc_log, FindsLog
<1>short. /\ short'[p] = IF found THEN short[p] ELSE short[p] \cup {process[p].run}
          /\ \A q \in Pids : short[q] \subseteq short'[q]
  BY <1>process, <1>typed DEF TypeOK
<1>new. process'[p] = [process[p] EXCEPT !.pc = "reset", !.attached = found]
  BY <1>process, <1>typed DEF TypeOK
<1>fields. /\ process'[p].pc = "reset" /\ process'[p].run = process[p].run
           /\ process'[p].i = process[p].i /\ process'[p].depth = process[p].depth
           /\ process'[p].attached = found
  BY <1>new, <1>typed DEF Process
<1>log. log'[p] = IF log[p] = 0 THEN process[p].depth ELSE log[p]
  BY <1>typed DEF TypeOK, HB_alloc_log
<1>1. StepOf(p)
  BY <1>typed, <1>process, <1>short DEF TypeOK, StepOf, HB_alloc_log, FindsLog, At
<1>2. TypeOK'
  <2>1. process'[p] \in Process
    BY <1>new, <1>typed DEF Process
  <2>2. log' \in [Pids -> Depths \cup {0}] /\ short' \in [Pids -> SUBSET (1..LastRun)]
    BY <1>typed, <1>before, <1>process DEF TypeOK, Numbering, Alive, HB_alloc_log
  <2> QED BY <2>1, <2>2, <1>typed, <1>process DEF TypeOK, HB_alloc_log, FindsLog, At
<1>3. Sound(p)'
  <2>1. Numbering(p)'
    BY <1>typed, <1>numbers, <1>before, <1>fields, <1>same, <1>log, <1>process, <1>short
    DEF Numbering, Alive
  <2>2. Allocated(p)'
    <3>1. state'[p].there /\ log'[p] > 0
      BY <1>typed, <1>numbers, <1>before, <1>fields, <1>same, <1>log, <1>process, <1>short
      DEF Allocated, Alive
    <3>2. found => process[p].depth <= log'[p]
      <4>1. found => log[p] = 0 \/ process[p].depth <= log[p]
        BY <1>process
      <4> QED BY <4>1, <1>log, <1>numbers
    <3>3. ~found => process[p].run \in short'[p]
      BY <1>short
    <3> QED BY <3>1, <3>2, <3>3, <1>fields, <1>same DEF Allocated
  <2>3. Promise(p)'
    BY <1>typed, <1>numbers, <1>before, <1>fields, <1>same, <1>log, <1>process, <1>short
    DEF Promise, Allocated, Numbering, Shown, Alive
  <2>4. Shown(p)'
    BY <1>typed, <1>numbers, <1>before, <1>fields, <1>same, <1>log, <1>process, <1>short
    DEF Shown, Numbering, Alive, Building
  <2> QED BY <2>1, <2>2, <2>3, <2>4 DEF Sound
<1>4. ASSUME monitor.pid = p PROVE Watched(p)' /\ Taken(p)'
  <2>1. Watched(p) /\ Taken(p) /\ monitor.found \in Int /\ started \in Nat
    BY <1>4, <1>typed DEF TypeOK, Monitor, NoRun
  <2>2. Watched(p)'
    BY <2>1, <1>typed, <1>numbers, <1>before, <1>fields, <1>same, <1>log, <1>process, <1>short
    DEF Watched, Allocated, Numbering, Alive
  <2>3. Taken(p)'
    BY <2>1, <1>typed, <1>numbers, <1>before, <1>fields, <1>same, <1>log, <1>process, <1>short
    DEF Taken, Latest, Numbering, Shown, Alive, Building, TypeOK, Monitor
  <2> QED BY <2>2, <2>3
<1> QED BY <1>1, <1>2, <1>3, <1>4, StepOfOne

\* Slot 0 is in every log; no record of this run is shown before its first beat.
LEMMA ResetIndexInv == ASSUME IInv, NEW p \in Pids, ResetIndex(p) PROVE IInv'
<1> USE Sizes
<1>typed. /\ TypeOK /\ state[p] \in Segment /\ process[p] \in Process
          /\ Numbering(p) /\ Allocated(p) /\ Promise(p) /\ Shown(p)
          /\ monitor.pid = p => Watched(p) /\ Taken(p)
  BY DEF IInv, PidInv, Sound, MonitorInv, TypeOK
<1>numbers. /\ log[p] \in Nat /\ state[p].depth \in Nat /\ process[p].depth \in Nat
            /\ state[p].run \in Nat /\ process[p].run \in Int /\ process[p].i \in Nat
            /\ state[p].shown \in Nat /\ state[p].at \in Nat /\ file[p] \in Int
            /\ started \in Nat /\ latest[p] \in Nat
  BY <1>typed DEF TypeOK, Segment, Process, NoRun
<1>before. process[p].pc \in {"reset", "index"} /\ process[p].depth \in Depths
           /\ process[p].run \in 1..started
  BY <1>typed DEF TypeOK, Process, Numbering, Alive, ResetIndex, At
<1>same. UNCHANGED <<file, log, started, short, monitor>>
  BY DEF ResetIndex
<1>segment. /\ state'[p].valid = state[p].valid /\ state'[p].at = 0 /\ state'[p].shown \in Nat
            /\ state'[p].run = state[p].run /\ state'[p].there = state[p].there
            /\ state'[p].depth = state[p].depth
  BY <1>typed DEF TypeOK, Segment, ResetIndex
<1>place. PICK place \in {"depth", "valid"} :
            /\ process' = [process EXCEPT ![p].pc = place]
            /\ (place = "valid" <=> process[p].pc = "index")
  BY <1>typed, <1>before DEF ResetIndex, At, Goto
<1>fields. /\ process'[p].pc = place /\ process'[p].run = process[p].run
           /\ process'[p].i = process[p].i /\ process'[p].depth = process[p].depth
           /\ process'[p].attached = process[p].attached
  BY <1>place, <1>typed DEF TypeOK, Process
<1>latest. latest'[p] = process[p].run
  BY <1>typed DEF TypeOK, ResetIndex
<1>1. StepOf(p)
  BY <1>typed DEF TypeOK, StepOf, ResetIndex, At, Goto
<1>2. TypeOK'
  <2>1. state'[p] = [state[p] EXCEPT !.at = 0, !.shown = state[p].first]
    BY <1>typed DEF TypeOK, ResetIndex
  <2>2. state'[p] \in Segment
    <3>1. state[p].first \in 0..(Beats - 1) /\ 0 \in Nat
      BY <1>typed DEF Segment
    <3> QED BY <2>1, <3>1, <1>typed DEF Segment
  <2>3. process'[p] \in Process
    BY <1>typed, <1>place DEF TypeOK, Process
  <2>4. latest' \in [Pids -> 0..LastRun]
    BY <1>typed, <1>before DEF TypeOK, ResetIndex
  <2> QED BY <2>1, <2>2, <2>3, <2>4, <1>typed, <1>place DEF TypeOK, ResetIndex, At, Goto
<1>3. Sound(p)'
  <2>1. Numbering(p)'
    BY <1>typed, <1>numbers, <1>before, <1>fields, <1>same, <1>segment, <1>place, <1>latest DEF Numbering, Alive
  <2>2. Allocated(p)'
    BY <1>typed, <1>numbers, <1>before, <1>fields, <1>same, <1>segment, <1>place, <1>latest
    DEF Allocated, Numbering, Alive
  <2>3. Promise(p)'
    BY <1>typed, <1>numbers, <1>before, <1>fields, <1>same, <1>segment, <1>place, <1>latest
    DEF Promise, Allocated, Numbering, Shown, Alive
  <2>4. Shown(p)'
    BY <1>typed, <1>numbers, <1>before, <1>fields, <1>same, <1>segment, <1>place, <1>latest
    DEF Shown, Numbering, Alive, Building
  <2> QED BY <2>1, <2>2, <2>3, <2>4 DEF Sound
<1>4. ASSUME monitor.pid = p PROVE Watched(p)' /\ Taken(p)'
  <2>1. Watched(p) /\ Taken(p) /\ monitor.found \in Int /\ started \in Nat
    BY <1>4, <1>typed DEF TypeOK, Monitor, NoRun
  <2>2. Watched(p)'
    BY <2>1, <1>typed, <1>numbers, <1>before, <1>fields, <1>same, <1>segment, <1>place, <1>latest
    DEF Watched, Allocated, Numbering, Alive
  <2>3. Taken(p)'
    BY <2>1, <1>typed, <1>numbers, <1>before, <1>fields, <1>same, <1>segment, <1>place, <1>latest
    DEF Taken, Latest, Numbering, Shown, Alive, Building, TypeOK, Monitor
  <2> QED BY <2>2, <2>3
<1> QED BY <1>1, <1>2, <1>3, <1>4, StepOfOne

\* A depth that is larger than the log is that of a run that found it so.
LEMMA ResetDepthInv == ASSUME IInv, NEW p \in Pids, ResetDepth(p) PROVE IInv'
<1> USE Sizes
<1>typed. /\ TypeOK /\ state[p] \in Segment /\ process[p] \in Process
          /\ Numbering(p) /\ Allocated(p) /\ Promise(p) /\ Shown(p)
          /\ monitor.pid = p => Watched(p) /\ Taken(p)
  BY DEF IInv, PidInv, Sound, MonitorInv, TypeOK
<1>numbers. /\ log[p] \in Nat /\ state[p].depth \in Nat /\ process[p].depth \in Nat
            /\ state[p].run \in Nat /\ process[p].run \in Int /\ process[p].i \in Nat
            /\ state[p].shown \in Nat /\ state[p].at \in Nat /\ file[p] \in Int
            /\ started \in Nat /\ latest[p] \in Nat
  BY <1>typed DEF TypeOK, Segment, Process, NoRun
<1>before. process[p].pc \in {"reset", "depth"} /\ process[p].depth \in Depths
           /\ process[p].run \in 1..started
  BY <1>typed DEF TypeOK, Process, Numbering, Alive, ResetDepth, At
<1>same. UNCHANGED <<file, log, started, short, latest, monitor>>
  BY DEF ResetDepth
<1>segment. /\ state'[p].valid = state[p].valid /\ state'[p].at = state[p].at
            /\ state'[p].shown = state[p].shown /\ state'[p].run = state[p].run
            /\ state'[p].there = state[p].there
            /\ state'[p].depth = process[p].depth
  BY <1>typed DEF TypeOK, Segment, ResetDepth
<1>place. PICK place \in {"index", "valid"} :
            /\ process' = [process EXCEPT ![p].pc = place]
            /\ (place = "valid" <=> process[p].pc = "depth")
  BY <1>typed, <1>before DEF ResetDepth, At, Goto
<1>fields. /\ process'[p].pc = place /\ process'[p].run = process[p].run
           /\ process'[p].i = process[p].i /\ process'[p].depth = process[p].depth
           /\ process'[p].attached = process[p].attached
  BY <1>place, <1>typed DEF TypeOK, Process
<1>latest. latest'[p] = latest[p]
  BY <1>typed DEF TypeOK, ResetDepth
<1>1. StepOf(p)
  BY <1>typed DEF TypeOK, StepOf, ResetDepth, At, Goto
<1>2. TypeOK'
  <2>1. state'[p] = [state[p] EXCEPT !.depth = process[p].depth]
    BY <1>typed DEF TypeOK, ResetDepth
  <2>2. state'[p] \in Segment
    BY <2>1, <1>typed, <1>before DEF Segment
  <2>3. process'[p] \in Process
    BY <1>typed, <1>place DEF TypeOK, Process
  <2>4. latest' \in [Pids -> 0..LastRun]
    BY <1>typed, <1>before DEF TypeOK, ResetDepth
  <2> QED BY <2>1, <2>2, <2>3, <2>4, <1>typed, <1>place DEF TypeOK, ResetDepth, At, Goto
<1>3. Sound(p)'
  <2>1. Numbering(p)'
    BY <1>typed, <1>numbers, <1>before, <1>fields, <1>same, <1>segment, <1>place, <1>latest DEF Numbering, Alive
  <2>2. Allocated(p)'
    BY <1>typed, <1>numbers, <1>before, <1>fields, <1>same, <1>segment, <1>place, <1>latest
    DEF Allocated, Numbering, Alive
  <2>3. Promise(p)'
    BY <1>typed, <1>numbers, <1>before, <1>fields, <1>same, <1>segment, <1>place, <1>latest
    DEF Promise, Allocated, Numbering, Shown, Alive
  <2>4. Shown(p)'
    BY <1>typed, <1>numbers, <1>before, <1>fields, <1>same, <1>segment, <1>place, <1>latest
    DEF Shown, Numbering, Alive, Building
  <2> QED BY <2>1, <2>2, <2>3, <2>4 DEF Sound
<1>4. ASSUME monitor.pid = p PROVE Watched(p)' /\ Taken(p)'
  <2>1. Watched(p) /\ Taken(p) /\ monitor.found \in Int /\ started \in Nat
    BY <1>4, <1>typed DEF TypeOK, Monitor, NoRun
  <2>2. Watched(p)'
    BY <2>1, <1>typed, <1>numbers, <1>before, <1>fields, <1>same, <1>segment, <1>place, <1>latest
    DEF Watched, Allocated, Numbering, Alive
  <2>3. Taken(p)'
    BY <2>1, <1>typed, <1>numbers, <1>before, <1>fields, <1>same, <1>segment, <1>place, <1>latest
    DEF Taken, Latest, Numbering, Shown, Alive, Building, TypeOK, Monitor
  <2> QED BY <2>2, <2>3
<1> QED BY <1>1, <1>2, <1>3, <1>4, StepOfOne

\* From here on nothing of an earlier process is valid.
LEMMA ResetValidInv == ASSUME IInv, NEW p \in Pids, ResetValid(p) PROVE IInv'
<1> USE Sizes
<1>typed. /\ TypeOK /\ state[p] \in Segment /\ process[p] \in Process
          /\ Numbering(p) /\ Allocated(p) /\ Promise(p) /\ Shown(p)
          /\ monitor.pid = p => Watched(p) /\ Taken(p)
  BY DEF IInv, PidInv, Sound, MonitorInv, TypeOK
<1>numbers. /\ log[p] \in Nat /\ state[p].depth \in Nat /\ process[p].depth \in Nat
            /\ state[p].run \in Nat /\ process[p].run \in Int /\ process[p].i \in Nat
            /\ state[p].shown \in Nat /\ state[p].at \in Nat /\ file[p] \in Int
            /\ started \in Nat /\ latest[p] \in Nat
  BY <1>typed DEF TypeOK, Segment, Process, NoRun
<1>before. process[p].pc \in {"valid"} /\ process[p].depth \in Depths
           /\ process[p].run \in 1..started
  BY <1>typed DEF TypeOK, Process, Numbering, Alive, ResetValid, At
<1>same. UNCHANGED <<file, log, started, short, latest, monitor>>
  BY DEF ResetValid
<1>segment. /\ ~state'[p].valid /\ state'[p].at = state[p].at
            /\ state'[p].shown = state[p].shown /\ state'[p].run = state[p].run
            /\ state'[p].there = state[p].there
            /\ state'[p].depth = state[p].depth
  BY <1>typed DEF TypeOK, Segment, ResetValid
<1>place. PICK place \in {"file"} :
            /\ process' = [process EXCEPT ![p].pc = place]
            /\ place = "file"
  BY <1>typed, <1>before DEF ResetValid, At, Goto
<1>fields. /\ process'[p].pc = place /\ process'[p].run = process[p].run
           /\ process'[p].i = process[p].i /\ process'[p].depth = process[p].depth
           /\ process'[p].attached = process[p].attached
  BY <1>place, <1>typed DEF TypeOK, Process
<1>latest. latest'[p] = latest[p]
  BY <1>typed DEF TypeOK, ResetValid
<1>1. StepOf(p)
  BY <1>typed DEF TypeOK, StepOf, ResetValid, At, Goto
<1>2. TypeOK'
  <2>1. state'[p] = [state[p] EXCEPT !.valid = FALSE]
    BY <1>typed DEF TypeOK, ResetValid
  <2>2. state'[p] \in Segment
    BY <2>1, <1>typed, <1>before DEF Segment
  <2>3. process'[p] \in Process
    BY <1>typed, <1>place DEF TypeOK, Process
  <2>4. latest' \in [Pids -> 0..LastRun]
    BY <1>typed, <1>before DEF TypeOK, ResetValid
  <2> QED BY <2>1, <2>2, <2>3, <2>4, <1>typed, <1>place DEF TypeOK, ResetValid, At, Goto
<1>3. Sound(p)'
  <2>1. Numbering(p)'
    BY <1>typed, <1>numbers, <1>before, <1>fields, <1>same, <1>segment, <1>place, <1>latest DEF Numbering, Alive
  <2>2. Allocated(p)'
    BY <1>typed, <1>numbers, <1>before, <1>fields, <1>same, <1>segment, <1>place, <1>latest
    DEF Allocated, Numbering, Alive
  <2>3. Promise(p)'
    BY <1>typed, <1>numbers, <1>before, <1>fields, <1>same, <1>segment, <1>place, <1>latest
    DEF Promise, Allocated, Numbering, Shown, Alive
  <2>4. Shown(p)'
    BY <1>typed, <1>numbers, <1>before, <1>fields, <1>same, <1>segment, <1>place, <1>latest
    DEF Shown, Numbering, Alive, Building
  <2> QED BY <2>1, <2>2, <2>3, <2>4 DEF Sound
<1>4. ASSUME monitor.pid = p PROVE Watched(p)' /\ Taken(p)'
  <2>1. Watched(p) /\ Taken(p) /\ monitor.found \in Int /\ started \in Nat
    BY <1>4, <1>typed DEF TypeOK, Monitor, NoRun
  <2>2. Watched(p)'
    BY <2>1, <1>typed, <1>numbers, <1>before, <1>fields, <1>same, <1>segment, <1>place, <1>latest
    DEF Watched, Allocated, Numbering, Alive
  <2>3. Taken(p)'
    BY <2>1, <1>typed, <1>numbers, <1>before, <1>fields, <1>same, <1>segment, <1>place, <1>latest
    DEF Taken, Latest, Numbering, Shown, Alive, Building, TypeOK, Monitor
  <2> QED BY <2>2, <2>3
<1> QED BY <1>1, <1>2, <1>3, <1>4, StepOfOne

\* The file is written when no record is valid.
LEMMA AnnounceInv == ASSUME IInv, NEW p \in Pids, Announce(p) PROVE IInv'
<1> USE Sizes
<1>typed. /\ TypeOK /\ state[p] \in Segment /\ process[p] \in Process
          /\ Numbering(p) /\ Allocated(p) /\ Promise(p) /\ Shown(p)
          /\ monitor.pid = p => Watched(p) /\ Taken(p)
  BY DEF IInv, PidInv, Sound, MonitorInv, TypeOK
<1>numbers. /\ log[p] \in Nat /\ state[p].depth \in Nat /\ process[p].depth \in Nat
            /\ state[p].run \in Nat /\ process[p].run \in Int /\ process[p].i \in Nat
            /\ state[p].shown \in Nat /\ state[p].at \in Nat /\ file[p] \in Int
            /\ started \in Nat /\ latest[p] \in Nat
  BY <1>typed DEF TypeOK, Segment, Process, NoRun
<1>before. process[p].pc = "file" /\ process[p].run \in 1..started
  BY <1>typed DEF TypeOK, Process, Numbering, Alive, Announce, At, Goto
<1>same. UNCHANGED <<state, log, started, short, latest, monitor>>
  BY DEF Announce
<1>file. file'[p] \in {file[p], process[p].run}
  BY <1>typed DEF TypeOK, Announce
<1>fields. /\ process'[p].pc = "beat" /\ process'[p].run = process[p].run
            /\ process'[p].i = process[p].i /\ process'[p].depth = process[p].depth
            /\ process'[p].attached = process[p].attached
  BY <1>typed DEF TypeOK, Process, Announce, At, Goto
<1>1. StepOf(p)
  BY <1>typed DEF TypeOK, StepOf, Announce, At, Goto
<1>2. TypeOK'
  <2>1. process'[p] \in Process
    BY <1>typed DEF TypeOK, Process, Announce, At, Goto
  <2>2. file' \in [Pids -> NoRun..LastRun]
    BY <1>typed, <1>before DEF TypeOK, NoRun, Announce, At, Goto
  <2> QED BY <2>1, <2>2, <1>typed DEF TypeOK, Announce, At, Goto
<1>3. Sound(p)'
  <2>1. Numbering(p)'
    BY <1>typed, <1>numbers, <1>before, <1>fields, <1>same, <1>file DEF Numbering, Alive
  <2>2. Allocated(p)'
    BY <1>typed, <1>numbers, <1>before, <1>fields, <1>same, <1>file
    DEF Allocated, Numbering, Alive
  <2>3. Promise(p)'
    BY <1>typed, <1>numbers, <1>before, <1>fields, <1>same, <1>file
    DEF Promise, Allocated, Numbering, Shown, Alive
  <2>4. Shown(p)'
    BY <1>typed, <1>numbers, <1>before, <1>fields, <1>same, <1>file
    DEF Shown, Numbering, Alive, Building
  <2> QED BY <2>1, <2>2, <2>3, <2>4 DEF Sound
<1>4. ASSUME monitor.pid = p PROVE Watched(p)' /\ Taken(p)'
  <2>1. Watched(p) /\ Taken(p) /\ monitor.found \in Int /\ started \in Nat
    BY <1>4, <1>typed DEF TypeOK, Monitor, NoRun
  <2>2. Watched(p)'
    BY <2>1, <1>typed, <1>numbers, <1>before, <1>fields, <1>same, <1>file
    DEF Watched, Allocated, Numbering, Alive
  <2>3. Taken(p)'
    BY <2>1, <1>typed, <1>numbers, <1>before, <1>fields, <1>same, <1>file
    DEF Taken, Latest, Numbering, Shown, Alive, Building, TypeOK, Monitor
  <2> QED BY <2>2, <2>3
<1> QED BY <1>1, <1>2, <1>3, <1>4, StepOfOne

\* A beat goes to a slot below the depth.
LEMMA Remainder == ASSUME NEW i \in Nat, NEW d \in Nat \ {0} PROVE i % d \in 0..(d - 1)
OBVIOUS

\* A beat is later than the one before it, of the same run.
LEMMA BeatInv == ASSUME IInv, NEW p \in Pids, Beat(p) PROVE IInv'
<1> USE Sizes
<1>typed. /\ TypeOK /\ state[p] \in Segment /\ process[p] \in Process
          /\ Numbering(p) /\ Allocated(p) /\ Promise(p) /\ Shown(p)
          /\ monitor.pid = p => Watched(p) /\ Taken(p)
  BY DEF IInv, PidInv, Sound, MonitorInv, TypeOK
<1>numbers. /\ log[p] \in Nat /\ state[p].depth \in Nat /\ process[p].depth \in Nat
            /\ state[p].run \in Nat /\ process[p].run \in Int /\ process[p].i \in Nat
            /\ state[p].shown \in Nat /\ state[p].at \in Nat /\ file[p] \in Int
            /\ started \in Nat /\ latest[p] \in Nat
  BY <1>typed DEF TypeOK, Segment, Process, NoRun
<1>before. /\ process[p].pc = "beat" /\ process[p].attached
           /\ process[p].i \in 0..(Beats - 1) /\ process[p].run \in 1..started
  BY <1>typed DEF TypeOK, Process, Numbering, Alive, Beat, At
<1>same. UNCHANGED <<file, log, started, short, latest, monitor>>
  BY DEF Beat
<1>effect. PICK place \in {"beat", "finish"} :
             /\ process' = [process EXCEPT ![p] = [process[p] EXCEPT !.i = process[p].i + 1,
                                                                     !.pc = place]]
             /\ place # "finish" => process[p].i + 1 # Beats
  <2> DEFINE next == IF process[p].i + 1 = Beats THEN "finish" ELSE "beat"
  <2>1. process' = [process EXCEPT ![p] = [process[p] EXCEPT !.i = process[p].i + 1,
                                                             !.pc = next]]
    BY DEF Beat
  <2>2. next \in {"beat", "finish"} /\ (next # "finish" => process[p].i + 1 # Beats)
    OBVIOUS
  <2> HIDE DEF next
  <2> QED BY <2>1, <2>2
<1>new. process'[p] = [process[p] EXCEPT !.i = @ + 1, !.pc = place]
  <2> DEFINE new == [process[p] EXCEPT !.i = process[p].i + 1, !.pc = place]
  <2>1. process \in [Pids -> Process]
    BY <1>typed DEF TypeOK
  <2>2. process' = [process EXCEPT ![p] = new]
    BY <1>effect
  <2> HIDE DEF new
  <2>3. process'[p] = new
    BY <2>1, <2>2
  <2> QED BY <2>3 DEF new
<1>i. process'[p].i = process[p].i + 1
  BY <1>new, <1>typed DEF Process
<1>fields. /\ process'[p].pc = place /\ process'[p].run = process[p].run
           /\ process'[p].depth = process[p].depth /\ process'[p].attached = process[p].attached
  BY <1>new, <1>typed DEF Process
<1>beat. state'[p] = Record(state[p], process[p].run, process[p].i)
  BY <1>typed DEF Beat, TypeOK
<1>slot. /\ state[p].depth = process[p].depth /\ process[p].depth \in Nat \ {0}
         /\ process[p].depth <= log[p]
  BY <1>typed, <1>before DEF Allocated, Numbering, Alive
<1>at. /\ process[p].i % state[p].depth \in Nat
       /\ process[p].i % state[p].depth < log[p]
  <2>1. process[p].i % state[p].depth \in 0..(state[p].depth - 1)
    BY <1>slot, <1>numbers, Remainder
  <2> QED BY <2>1, <1>slot, <1>numbers
<1>segment. /\ state'[p].valid /\ state'[p].shown = process[p].i /\ state'[p].run = process[p].run
            /\ state'[p].there = state[p].there /\ state'[p].depth = state[p].depth
            /\ state'[p].at = process[p].i % state[p].depth
  BY <1>beat, <1>typed DEF Segment, Record
<1>1. StepOf(p)
  BY <1>typed DEF TypeOK, StepOf, Beat, At
<1>2. TypeOK'
  <2>1. process[p].run \in 0..LastRun
    BY <1>typed, <1>before DEF TypeOK
  <2>2. state'[p] \in Segment
    <3>1. Record(state[p], process[p].run, process[p].i).first \in 0..(Beats - 1)
      BY <1>before, <1>typed DEF Segment, Record
    <3> QED BY <2>1, <3>1, <1>at, <1>before, <1>beat, <1>typed DEF Segment, Record
  <2>3. process'[p].i \in 0..Beats
    BY <1>i, <1>before
  <2>4. process'[p] \in Process
    BY <2>3, <1>new, <1>i, <1>typed DEF Process
  <2> QED BY <2>1, <2>2, <2>3, <2>4, <1>typed, <1>effect DEF TypeOK, Beat, At
<1>3. Sound(p)'
  <2>1. Numbering(p)'
    BY <1>typed, <1>numbers, <1>before, <1>fields, <1>same, <1>segment, <1>i, <1>effect, <1>at
    DEF Numbering, Alive
  <2>2. Allocated(p)'
    BY <1>typed, <1>numbers, <1>before, <1>fields, <1>same, <1>segment, <1>i, <1>effect, <1>at
    DEF Allocated, Numbering, Alive
  <2>3. Promise(p)'
    BY <1>typed, <1>numbers, <1>before, <1>fields, <1>same, <1>segment, <1>i, <1>effect, <1>at
    DEF Promise, Allocated, Numbering, Shown, Alive
  <2>4. Shown(p)'
    BY <1>typed, <1>numbers, <1>before, <1>fields, <1>same, <1>segment, <1>i, <1>effect, <1>at
    DEF Shown, Numbering, Alive, Building
  <2> QED BY <2>1, <2>2, <2>3, <2>4 DEF Sound
<1>4. ASSUME monitor.pid = p PROVE Watched(p)' /\ Taken(p)'
  <2>1. Watched(p) /\ Taken(p) /\ monitor.found \in Int /\ started \in Nat
    BY <1>4, <1>typed DEF TypeOK, Monitor, NoRun
  <2>2. Watched(p)'
    BY <2>1, <1>typed, <1>numbers, <1>before, <1>fields, <1>same, <1>segment, <1>i, <1>effect, <1>at
    DEF Watched, Allocated, Numbering, Alive
  <2>3. Taken(p)'
    BY <2>1, <1>typed, <1>numbers, <1>before, <1>fields, <1>same, <1>segment, <1>i, <1>effect, <1>at
    DEF Taken, Latest, Numbering, Shown, Alive, Building, TypeOK, Monitor
  <2> QED BY <2>2, <2>3
<1> QED BY <1>1, <1>2, <1>3, <1>4, StepOfOne

\* What is left are the segments.
LEMMA heartbeat_finishInv == ASSUME IInv, NEW p \in Pids, heartbeat_finish(p) PROVE IInv'
<1> USE Sizes
<1>typed. /\ TypeOK /\ state[p] \in Segment /\ process[p] \in Process
          /\ Numbering(p) /\ Allocated(p) /\ Promise(p) /\ Shown(p)
          /\ monitor.pid = p => Watched(p) /\ Taken(p)
  BY DEF IInv, PidInv, Sound, MonitorInv, TypeOK
<1>numbers. /\ log[p] \in Nat /\ state[p].depth \in Nat /\ process[p].depth \in Nat
            /\ state[p].run \in Nat /\ process[p].run \in Int /\ process[p].i \in Nat
            /\ state[p].shown \in Nat /\ state[p].at \in Nat /\ file[p] \in Int
            /\ started \in Nat /\ latest[p] \in Nat
  BY <1>typed DEF TypeOK, Segment, Process, NoRun
<1>before. process[p].pc = "finish"
  BY <1>typed DEF TypeOK, Process, Numbering, Alive, heartbeat_finish, At
<1>same. UNCHANGED <<state, log, started, short, latest, monitor>>
  BY DEF heartbeat_finish
<1>file. file'[p] = -1
  BY <1>typed DEF TypeOK, heartbeat_finish, NoRun
<1>fields. /\ process'[p].pc = "none" /\ process'[p].attached = FALSE
  BY <1>typed DEF TypeOK, Process, heartbeat_finish, At, Nobody
<1>1. StepOf(p)
  BY <1>typed DEF TypeOK, StepOf, heartbeat_finish, At
<1>2. TypeOK'
  <2>1. process'[p] \in Process
    BY <1>typed DEF TypeOK, Process, heartbeat_finish, At, Nobody, NoRun
  <2>2. file' \in [Pids -> NoRun..LastRun]
    BY <1>typed, <1>before DEF TypeOK, NoRun, heartbeat_finish, At
  <2> QED BY <2>1, <2>2, <1>typed DEF TypeOK, heartbeat_finish, At
<1>3. Sound(p)'
  <2>1. Numbering(p)'
    BY <1>typed, <1>numbers, <1>before, <1>fields, <1>same, <1>file DEF Numbering, Alive
  <2>2. Allocated(p)'
    BY <1>typed, <1>numbers, <1>before, <1>fields, <1>same, <1>file
    DEF Allocated, Numbering, Alive
  <2>3. Promise(p)'
    BY <1>typed, <1>numbers, <1>before, <1>fields, <1>same, <1>file
    DEF Promise, Allocated, Numbering, Shown, Alive
  <2>4. Shown(p)'
    BY <1>typed, <1>numbers, <1>before, <1>fields, <1>same, <1>file
    DEF Shown, Numbering, Alive, Building
  <2> QED BY <2>1, <2>2, <2>3, <2>4 DEF Sound
<1>4. ASSUME monitor.pid = p PROVE Watched(p)' /\ Taken(p)'
  <2>1. Watched(p) /\ Taken(p) /\ monitor.found \in Int /\ started \in Nat
    BY <1>4, <1>typed DEF TypeOK, Monitor, NoRun
  <2>2. Watched(p)'
    BY <2>1, <1>typed, <1>numbers, <1>before, <1>fields, <1>same, <1>file
    DEF Watched, Allocated, Numbering, Alive
  <2>3. Taken(p)'
    BY <2>1, <1>typed, <1>numbers, <1>before, <1>fields, <1>same, <1>file
    DEF Taken, Latest, Numbering, Shown, Alive, Building, TypeOK, Monitor
  <2> QED BY <2>2, <2>3
<1> QED BY <1>1, <1>2, <1>3, <1>4, StepOfOne

\* What is left are the segments, and a file whose promise they keep.
LEMMA DieInv == ASSUME IInv, NEW p \in Pids, Die(p) PROVE IInv'
<1> USE Sizes
<1>typed. /\ TypeOK /\ state[p] \in Segment /\ process[p] \in Process
          /\ Numbering(p) /\ Allocated(p) /\ Promise(p) /\ Shown(p)
          /\ monitor.pid = p => Watched(p) /\ Taken(p)
  BY DEF IInv, PidInv, Sound, MonitorInv, TypeOK
<1>numbers. /\ log[p] \in Nat /\ state[p].depth \in Nat /\ process[p].depth \in Nat
            /\ state[p].run \in Nat /\ process[p].run \in Int /\ process[p].i \in Nat
            /\ state[p].shown \in Nat /\ state[p].at \in Nat /\ file[p] \in Int
            /\ started \in Nat /\ latest[p] \in Nat
  BY <1>typed DEF TypeOK, Segment, Process, NoRun
<1>before. process[p].pc # "none"
  BY <1>typed DEF TypeOK, Process, Numbering, Alive, Die, At
<1>same. UNCHANGED <<file, state, log, started, short, latest, monitor>>
  BY DEF Die
<1>fields. /\ process'[p].pc = "none" /\ process'[p].attached = FALSE
  BY <1>typed DEF TypeOK, Process, Die, At, Nobody
<1>1. StepOf(p)
  BY <1>typed DEF TypeOK, StepOf, Die, At
<1>2. TypeOK'
  <2>1. process'[p] \in Process
    BY <1>typed DEF TypeOK, Process, Die, At, Nobody, NoRun
  <2> QED BY <2>1, <1>typed DEF TypeOK, Die, At
<1>3. Sound(p)'
  <2>1. Numbering(p)'
    BY <1>typed, <1>numbers, <1>before, <1>fields, <1>same DEF Numbering, Alive
  <2>2. Allocated(p)'
    BY <1>typed, <1>numbers, <1>before, <1>fields, <1>same DEF Allocated, Numbering, Alive
  <2>3. Promise(p)'
    BY <1>typed, <1>numbers, <1>before, <1>fields, <1>same
    DEF Promise, Allocated, Numbering, Shown, Alive
  <2>4. Shown(p)'
    BY <1>typed, <1>numbers, <1>before, <1>fields, <1>same
    DEF Shown, Numbering, Alive, Building
  <2> QED BY <2>1, <2>2, <2>3, <2>4 DEF Sound
<1>4. ASSUME monitor.pid = p PROVE Watched(p)' /\ Taken(p)'
  <2>1. Watched(p) /\ Taken(p) /\ monitor.found \in Int /\ started \in Nat
    BY <1>4, <1>typed DEF TypeOK, Monitor, NoRun
  <2>2. Watched(p)'
    BY <2>1, <1>typed, <1>numbers, <1>before, <1>fields, <1>same
    DEF Watched, Allocated, Numbering, Alive
  <2>3. Taken(p)'
    BY <2>1, <1>typed, <1>numbers, <1>before, <1>fields, <1>same
    DEF Taken, Latest, Numbering, Shown, Alive, Building, TypeOK, Monitor
  <2> QED BY <2>2, <2>3
<1> QED BY <1>1, <1>2, <1>3, <1>4, StepOfOne

\* The initial states: no process, no run; and what is left is of run 0.
LEMMA InitInv == Init => IInv
<1> USE Sizes
<1> SUFFICES ASSUME Init PROVE IInv
  OBVIOUS
<1>1. PICK left \in [Pids -> Leftovers] :
        /\ file = [p \in Pids |-> IF left[p].file THEN 0 ELSE NoRun]
        /\ state = [p \in Pids |-> [there |-> left[p].state, valid |-> left[p].valid,
                                    at |-> left[p].at, shown |-> left[p].shown,
                                    first |-> left[p].first, run |-> 0,
                                    depth |-> left[p].depth]]
        /\ log = [p \in Pids |-> left[p].log]
  BY DEF Init
<1>2. \A p \in Pids :
        /\ left[p].state \in BOOLEAN /\ left[p].valid \in BOOLEAN
        /\ left[p].at \in Nat
        /\ left[p].shown \in 0..(Beats - 1) /\ left[p].first \in 0..(Beats - 1)
        /\ left[p].depth \in Depths \cup {0} /\ left[p].log \in Depths \cup {0}
        /\ left[p].valid => left[p].at < left[p].log
  BY DiscoveryAssumption
<1>3. PICK program \in Programs :
        monitor = [program |-> program, pc |-> "find", pid |-> CHOOSE p \in Pids : TRUE,
                   found |-> NoRun, rc |-> 0, last |-> IF program = "system" THEN -1 ELSE 0,
                   taken |-> 0, runs |-> {}]
  BY DEF Init
<1>4. (CHOOSE p \in Pids : TRUE) \in Pids
  BY DiscoveryAssumption
<1>5. TypeOK
  <2>1. file \in [Pids -> NoRun..LastRun]
    BY <1>1 DEF NoRun
  <2>2. state \in [Pids -> Segment]
    BY <1>1, <1>2 DEF Segment
  <2>3. log \in [Pids -> Depths \cup {0}]
    BY <1>1, <1>2
  <2>4. process \in [Pids -> Process]
    BY DEF Init, Nobody, Process, NoRun
  <2>5. monitor \in Monitor
    BY <1>3, <1>4 DEF Monitor, NoRun
  <2> QED BY <2>1, <2>2, <2>3, <2>4, <2>5 DEF Init, TypeOK
<1>6. PidInv
  <2> SUFFICES ASSUME NEW p \in Pids
               PROVE  Numbering(p) /\ Allocated(p) /\ Promise(p) /\ Shown(p)
    BY DEF PidInv, Sound
  <2>1. /\ process[p].pc = "none" /\ file[p] \in {0, -1} /\ state[p].run = 0 /\ started = 0
        /\ state[p].valid => state[p].at < log[p]
        /\ latest[p] = 0
    BY <1>1, <1>2 DEF Init, Nobody, NoRun
  <2> QED BY <2>1 DEF Numbering, Allocated, Promise, Shown, Alive, Building
<1>7. MonitorInv
  <2>1. PICK m \in Pids : m = monitor.pid
    BY <1>3, <1>4
  <2>2. process[m].pc = "none" /\ state[m].run = 0 /\ started = 0
    BY <1>1 DEF Init, Nobody
  <2>3. /\ monitor.pc = "find" /\ monitor.found = -1 /\ monitor.rc = 0
        /\ monitor.last \in {-1, 0} /\ monitor.taken = 0 /\ monitor.runs = {}
    BY <1>3 DEF NoRun
  <2> QED BY <2>1, <2>2, <2>3
          DEF MonitorInv, Watched, Taken, Latest, AttachFails, NoRecordBefore, Alive
<1> QED BY <1>5, <1>6, <1>7 DEF IInv
-----------------------------------------------------------------------------
\* The monitor changes nothing of an application.
Apps == <<file, state, log, process, started, short, latest>>

LEMMA StepOfMonitor ==
    ASSUME IInv, UNCHANGED Apps, monitor' \in Monitor, MonitorInv' PROVE IInv'
<1>1. TypeOK'
  BY DEF IInv, TypeOK, Apps
<1>2. PidInv'
  BY DEF IInv, PidInv, Sound, Apps, Numbering, Allocated, Promise, Shown, Alive, Building
<1> QED BY <1>1, <1>2 DEF IInv

\* What the file of an application stands for when it is found.
LEMMA FindInv == ASSUME IInv, get_heartbeat_apps PROVE IInv'
<1> USE Sizes
<1>1. UNCHANGED Apps /\ monitor.pc = "find" /\ monitor \in Monitor
  BY DEF get_heartbeat_apps, Here, Apps, IInv, TypeOK
<1>2. Watched(monitor.pid) /\ Taken(monitor.pid) /\ AttachFails /\ NoRecordBefore
  BY DEF IInv, MonitorInv
<1>3. CASE monitor' = [monitor EXCEPT !.pc = "refused"]
  <2>1. monitor' \in Monitor
    BY <1>1, <1>3 DEF Monitor
  <2>2. /\ monitor'.pid = monitor.pid /\ monitor'.found = monitor.found
        /\ monitor'.rc = monitor.rc /\ monitor'.last = monitor.last
        /\ monitor'.taken = monitor.taken /\ monitor'.runs = monitor.runs
        /\ monitor'.pc = "refused"
    BY <1>1, <1>3 DEF Monitor
  <2>3. MonitorInv'
    BY <1>1, <1>2, <2>2
    DEF Apps, MonitorInv, Watched, Taken, Latest, AttachFails, NoRecordBefore, Alive
  <2> QED BY <1>1, <2>1, <2>3, StepOfMonitor
<1>4. CASE monitor' # [monitor EXCEPT !.pc = "refused"]
  <2>1. PICK m \in Pids :
          /\ file[m] # NoRun
          /\ monitor' = [monitor EXCEPT !.pc = "attach", !.pid = m, !.found = file[m]]
    BY <1>4 DEF get_heartbeat_apps
  <2>2. file[m] \in 0..LastRun /\ file[m] \in -1..LastRun
    BY <2>1 DEF IInv, TypeOK, NoRun
  <2>3. monitor' \in Monitor
    BY <1>1, <2>1, <2>2 DEF Monitor, NoRun
  <2>4. /\ monitor'.pid = m /\ monitor'.found = file[m] /\ monitor'.rc = monitor.rc
        /\ monitor'.last = monitor.last /\ monitor'.taken = monitor.taken
        /\ monitor'.runs = monitor.runs /\ monitor'.pc = "attach"
    BY <1>1, <2>1 DEF Monitor
  <2>5. Numbering(m) /\ Allocated(m) /\ Promise(m) /\ Shown(m)
    BY DEF IInv, PidInv, Sound
  <2>6. monitor.rc = 0 /\ monitor.runs = {} /\ monitor.taken = 0 /\ monitor.taken <= monitor.last + 1
    BY <1>1, <1>2 DEF Watched, Taken, Latest
  <2>7. AttachFails' /\ NoRecordBefore'
    BY <1>1, <1>2, <2>4, <2>6 DEF Apps, AttachFails, NoRecordBefore
  <2>8. Watched(m)'
    BY <1>1, <2>2, <2>4, <2>5, <2>6 DEF Apps, Watched, Numbering, Promise, Shown, Alive
  <2>9. Taken(m)'
    BY <1>1, <2>4, <2>6 DEF Apps, Taken, Latest
  <2>10. MonitorInv'
    BY <2>4, <2>7, <2>8, <2>9 DEF MonitorInv
  <2> QED BY <1>1, <2>3, <2>10, StepOfMonitor
<1> QED BY <1>3, <1>4

\* Attaching fails without the segments, or with a log too small.
LEMMA AttachInv == ASSUME IInv, AttachState \/ AttachLog PROVE IInv'
<1> USE Sizes
<1>1. PICK m \in Pids : m = monitor.pid
  BY DEF IInv, TypeOK, Monitor
<1>2. /\ UNCHANGED Apps /\ monitor \in Monitor
      /\ monitor.pc \in {"attach", "attach_log"}
  BY DEF AttachState, AttachLog, Here, Apps, IInv, TypeOK
<1>3. /\ Watched(m) /\ Taken(m) /\ AttachFails /\ NoRecordBefore
      /\ monitor.found \in Nat /\ log[m] \in Nat
  <2>1. Watched(m) /\ Taken(m) /\ AttachFails /\ NoRecordBefore
    BY <1>1 DEF IInv, MonitorInv
  <2>2. monitor.found \in Int /\ log[m] \in Nat
    BY DEF IInv, TypeOK, Monitor, NoRun
  <2> QED BY <1>2, <2>1, <2>2 DEF Watched
<1>4. PICK place \in {"attach_log", "poll", "failed", "crashed"}, rc \in {0, 1, 2} :
        /\ monitor' = [monitor EXCEPT !.rc = rc, !.pc = place]
        /\ place = "attach_log" => rc = 0
        /\ rc = 1 => ~state[m].there
        /\ rc = 2 => ~(log[m] > 0 /\ state[m].depth <= log[m])
  <2>1. monitor.rc = 0
    BY <1>2, <1>3 DEF Watched
  <2>2. CASE monitor' = [monitor EXCEPT !.pc = "attach_log"]
    <3>1. monitor' = [monitor EXCEPT !.rc = 0, !.pc = "attach_log"]
      BY <1>2, <2>1, <2>2 DEF Monitor
    <3> QED BY <3>1
  <2>3. CASE monitor' = [monitor EXCEPT !.pc = "poll"]
    <3>1. monitor' = [monitor EXCEPT !.rc = 0, !.pc = "poll"]
      BY <1>2, <2>1, <2>3 DEF Monitor
    <3> QED BY <3>1
  <2>4. CASE Failed(1) /\ ~state[m].there
    <3> DEFINE place == IF monitor.program = "combined" THEN "failed" ELSE "crashed"
    <3>1. monitor' = [monitor EXCEPT !.rc = 1, !.pc = place]
      BY <2>4 DEF Failed
    <3>2. place \in {"attach_log", "poll", "failed", "crashed"} /\ place # "attach_log"
      OBVIOUS
    <3> WITNESS place \in {"attach_log", "poll", "failed", "crashed"}, 1 \in {0, 1, 2}
    <3> QED BY <2>4, <3>1, <3>2
  <2>5. CASE Failed(2) /\ ~(log[m] > 0 /\ state[m].depth <= log[m])
    <3> DEFINE place == IF monitor.program = "combined" THEN "failed" ELSE "poll"
    <3>1. monitor' = [monitor EXCEPT !.rc = 2, !.pc = place]
      BY <2>5 DEF Failed
    <3>2. place \in {"attach_log", "poll", "failed", "crashed"} /\ place # "attach_log"
      OBVIOUS
    <3> WITNESS place \in {"attach_log", "poll", "failed", "crashed"}, 2 \in {0, 1, 2}
    <3> QED BY <2>5, <3>1, <3>2
  <2> QED BY <1>1, <2>2, <2>3, <2>4, <2>5 DEF AttachState, AttachLog
<1>5. monitor' \in Monitor
  BY <1>2, <1>4 DEF Monitor
<1>6. /\ monitor'.pid = m /\ monitor'.found = monitor.found /\ monitor'.rc = rc
      /\ monitor'.last = monitor.last /\ monitor'.taken = monitor.taken
      /\ monitor'.runs = monitor.runs /\ monitor'.pc = place
  BY <1>1, <1>2, <1>4 DEF Monitor
<1>7. AttachFails'
  <2>1. monitor.found >= 1 => /\ state[m].there /\ log[m] > 0
                              /\ state[m].depth > log[m] => \E r \in short[m] : r >= monitor.found
    BY <1>3 DEF Watched
  <2>2. state[m].depth \in Nat
    BY DEF IInv, TypeOK, Segment
  <2>3. rc # 0 /\ monitor.found >= 1 => \E r \in short[m] : r >= monitor.found
    BY <1>3, <1>4, <2>1, <2>2
  <2> QED BY <1>2, <1>3, <1>6, <2>3 DEF AttachFails, Apps
<1>8. NoRecordBefore'
  BY <1>3, <1>6 DEF NoRecordBefore
<1>9. Watched(m)'
  BY <1>2, <1>3, <1>4, <1>6 DEF Watched, Apps, Alive
<1>10. Taken(m)'
  BY <1>2, <1>3, <1>4, <1>6 DEF Taken, Latest, Apps, Alive
<1>11. MonitorInv'
  BY <1>6, <1>7, <1>8, <1>9, <1>10 DEF MonitorInv
<1> QED BY <1>2, <1>5, <1>11, StepOfMonitor

\* A record is later than the last of its run, or the first of another run.
LEMMA TakeInv == ASSUME IInv, Take PROVE IInv'
<1> USE Sizes
<1>1. PICK m \in Pids : m = monitor.pid
  BY DEF IInv, TypeOK, Monitor
<1>2. /\ UNCHANGED Apps /\ monitor \in Monitor /\ monitor.pc = "poll"
      /\ state[m].valid /\ state[m] \in Segment /\ process[m] \in Process
      /\ state[m].run \in 0..LastRun /\ state[m].shown \in 0..(Beats - 1)
  BY <1>1 DEF Take, Here, Apps, IInv, TypeOK, Segment
<1>3. /\ Watched(m) /\ Taken(m) /\ AttachFails /\ NoRecordBefore
      /\ Numbering(m) /\ Shown(m)
  BY <1>1 DEF IInv, MonitorInv, PidInv, Sound
<1>4. monitor.last \in Int /\ monitor.taken \in Nat /\ monitor.found \in Int
  BY <1>2 DEF Monitor, NoRun
<1>5. CASE monitor' = [monitor EXCEPT !.pc = "crashed"]
  <2>1. monitor' \in Monitor
    BY <1>2, <1>5 DEF Monitor
  <2>2. /\ monitor'.pid = m /\ monitor'.found = monitor.found /\ monitor'.rc = monitor.rc
        /\ monitor'.last = monitor.last /\ monitor'.taken = monitor.taken
        /\ monitor'.runs = monitor.runs /\ monitor'.pc = "crashed"
    BY <1>1, <1>2, <1>5 DEF Monitor
  <2>3. MonitorInv'
    BY <1>1, <1>2, <1>3, <2>2
    DEF Apps, MonitorInv, Watched, Taken, Latest, AttachFails, NoRecordBefore, Alive
  <2> QED BY <1>2, <2>1, <2>3, StepOfMonitor
<1>6. CASE monitor' # [monitor EXCEPT !.pc = "crashed"]
  <2>1. PICK place \in {"done", "poll"} :
          monitor' = [monitor EXCEPT !.last = state[m].shown, !.taken = monitor.taken + 1,
                                     !.runs = monitor.runs \cup {state[m].run}, !.pc = place]
    <3> DEFINE place == IF Ends(state[m].shown) THEN "done" ELSE "poll"
    <3>1. monitor' = [monitor EXCEPT !.last = state[m].shown, !.taken = monitor.taken + 1,
                                     !.runs = monitor.runs \cup {state[m].run}, !.pc = place]
      BY <1>1, <1>6 DEF Take
    <3>2. place \in {"done", "poll"}
      OBVIOUS
    <3> HIDE DEF place
    <3> QED BY <3>1, <3>2
  <2>2. New(state[m].shown)
    BY <1>1, <1>6 DEF Take
  <2>3. /\ monitor'.pid = m /\ monitor'.found = monitor.found /\ monitor'.rc = monitor.rc
        /\ monitor'.last = state[m].shown /\ monitor'.taken = monitor.taken + 1
        /\ monitor'.runs = monitor.runs \cup {state[m].run} /\ monitor'.pc = place
    BY <1>1, <1>2, <2>1 DEF Monitor
  <2>4. monitor' \in Monitor
    <3>1. /\ state[m].shown \in -1..(Beats - 1) /\ monitor.taken + 1 \in Nat
          /\ monitor.runs \cup {state[m].run} \in SUBSET (0..LastRun)
      BY <1>2, <1>4 DEF Monitor
    <3> QED BY <1>2, <2>1, <3>1 DEF Monitor
  <2>5. AttachFails'
    BY <1>1, <1>2, <1>3, <2>3 DEF Apps, AttachFails
  <2>6. NoRecordBefore'
    BY <1>2, <1>3, <2>3 DEF NoRecordBefore, Watched
  <2>7. Watched(m)'
    BY <1>2, <1>3, <2>3 DEF Watched, Apps, Alive
  <2>8. Taken(m)'
    <3>1. monitor.runs \cup {state[m].run} \subseteq 0..started
      BY <1>2, <1>3 DEF Taken, Numbering
    <3>2. Alive(m) /\ process[m].run = state[m].run =>
            /\ process[m].pc \in {"beat", "finish"}
            /\ state[m].shown = process[m].i - 1 /\ process[m].i \in Int
      BY <1>2, <1>3 DEF Shown, Alive, Building, Process
    <3>3. monitor.runs = {} => monitor.taken = 0
      BY <1>3 DEF Taken
    <3>4. monitor.runs # {} /\ Latest(m) /\ state[m].run = latest[m] =>
            monitor.taken <= monitor.last + 1 /\ state[m].shown >= monitor.last
      BY <1>2, <1>3 DEF Taken
    <3>5. state[m].shown # monitor.last
      <4>1. monitor.program \in {"system", "core_allocator", "combined"}
        BY <1>2, DiscoveryAssumption DEF Monitor
      <4>2. CASE monitor.program = "system"
        BY <2>2, <4>2 DEF New
      <4>3. CASE monitor.program = "core_allocator"
        BY <2>2, <4>3 DEF New
      <4>4. CASE monitor.program = "combined"
        BY <1>2, <1>4, <2>2, <4>4 DEF New
      <4> QED BY <4>1, <4>2, <4>3, <4>4
    <3>6. Latest(m)' => Latest(m) /\ state[m].run = latest[m]
      BY <1>2, <2>3 DEF Latest, Apps
    <3>7. Latest(m)' => monitor.taken + 1 <= state[m].shown + 1
      BY <1>2, <1>4, <3>3, <3>4, <3>5, <3>6
    <3>8. Alive(m) /\ process[m].run \in monitor.runs =>
            process[m].pc \in {"beat", "finish"}
      BY <1>3 DEF Taken
    <3> QED BY <1>2, <2>3, <3>1, <3>2, <3>6, <3>7, <3>8 DEF Taken, Apps, Alive, Latest
  <2>9. MonitorInv'
    BY <2>3, <2>5, <2>6, <2>7, <2>8 DEF MonitorInv
  <2> QED BY <1>2, <2>4, <2>9, StepOfMonitor
<1> QED BY <1>5, <1>6
-----------------------------------------------------------------------------
\* The inductive invariant.
THEOREM Invariance == Spec => []IInv
<1>1. Init => IInv
  BY InitInv
<1>2. IInv /\ [Next]_vars => IInv'
  <2> SUFFICES ASSUME IInv, [Next]_vars PROVE IInv'
    OBVIOUS
  <2>1. ASSUME NEW p \in Pids, App(p) PROVE IInv'
    BY <2>1, StartInv, HB_alloc_stateInv, HB_alloc_logInv, ResetIndexInv, ResetDepthInv,
       ResetValidInv, AnnounceInv, BeatInv,
       heartbeat_finishInv, DieInv DEF App
  <2>2. CASE Watch
    BY <2>2, FindInv, AttachInv, TakeInv DEF Watch
  <2>3. CASE UNCHANGED vars
    <3>1. UNCHANGED Apps /\ UNCHANGED monitor
      BY <2>3 DEF vars, Apps
    <3>2. monitor' \in Monitor
      BY <3>1 DEF IInv, TypeOK
    <3>3. MonitorInv'
      BY <3>1 DEF IInv, MonitorInv, Watched, Taken, Latest, AttachFails, NoRecordBefore,
                  Alive, Apps
    <3> QED BY <3>1, <3>2, <3>3, StepOfMonitor
  <2> QED BY <2>1, <2>2, <2>3 DEF Next, Idle
<1> QED BY <1>1, <1>2, PTL DEF Spec

\* Whatever happens to the processes of a pid, wherever in heartbeat_init they die,
\* and whatever depths they ask for, the record that a valid state shows is in the
\* log segment (run discovery on a small instance).
THEOREM SegmentsCorrect == Spec => []SegmentsFit
<1>1. IInv => SegmentsFit
  BY DEF IInv, PidInv, Sound, Promise, SegmentsFit, ShownFits
<1> QED BY <1>1, Invariance, PTL

\* heart_rate_monitor_init fails only on what a crash or a reboot left, or on a log
\* that was too small for a run with the pid it was given.
THEOREM AttachCorrect == Spec => []AttachFails
<1>1. IInv => AttachFails
  BY DEF IInv, MonitorInv
<1> QED BY <1>1, Invariance, PTL

\* No monitor takes a record of a run before the one it found; and until a later
\* process with the pid resets the segment, none takes more than the array it writes
\* them to has room for.
THEOREM RecordsCorrect == Spec => []RecordsOfRun
<1>1. IInv => RecordsOfRun
  BY DEF IInv, MonitorInv, RecordsOfRun, RecordsFit, Taken, Latest
<1> QED BY <1>1, Invariance, PTL
=============================================================================
