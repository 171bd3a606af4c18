# Heartbeats: a TLA+ verification project

Heartbeats is a small C library by which an application reports its progress
(`heartbeat()`), and a set of programs that observe it through shared memory and
steer the machine: frequencies with cpufreq, the number of cores with taskset.
This directory holds TLA+ models of that code, what TLC checks of them and what
TLAPS proves.  Paths are relative to the repository (`src/...`).

## 1. The system

| Part | State it keeps | Operations | Talks to |
|---|---|---|---|
| Heartbeat segment, producer API (`src/heartbeat-shared.c`, `inc/heartbeat.h`) | in shared memory: `counter`, `buffer_index`, `read_index`, `valid`, targets, window size, the ring `log`; private: `mutex`, `first_timestamp`, window of intervals, text log | `heartbeat_init`, `heartbeat`, `heartbeat_finish`, `hb_get_current`, `hb_get_history`, `hb_get_*_rate` | monitors, through System V shared memory keyed by pid and a file per pid in `HEARTBEAT_ENABLED_DIR` |
| Monitor API (`src/heart_rate_monitor-shared.c`) | the attached segment, read only by convention | `heart_rate_monitor_init/finish`, `hrm_get_current`, `hrm_get_history`, `hrm_get_*_rate` | the segment; no lock, no notification: polling |
| Machine states (`src/machine_states.c`, `machine_speed_init` in `src/combined.c`) | the table of machine states | generate, sort, filter | the combined service, the state printer |
| Machine speed actuator (`machine_speed_act`) | its set value | bisection of the table, hands a state to the other actuators | the frequency and core actuators |
| Combined service (`src/combined.c`) | actuators (`value`, `set_value`, `cur_index`), beat to wait for, static errors of the controllers | poll, decide (ten decision functions), act (four kinds of actuator) | monitor API; cpufreq (sysfs), taskset |
| Core allocator (`src/core-allocator.c`) | `nprocs`, `wait_for`, `records` | poll, add a core, take one away | monitor API, taskset |
| Frequency scalers (`src/frequencyscaler.c`, `1`, `2`) | index into the list of frequencies, current core, `records` | poll, raise, lower | monitor API, cpufreq |
| Latency example (`src/lat.c`) | two processes, a segment each | beats in turns by tag | both APIs |
| State printer (`src/powerstates.c`) | none beyond locals | prints the sorted machine states, each test behind an option; reads its own output | machine states |
| System monitor (`src/system.c`), example applications (`src/application.c`, `src/tp.c`) | `records`; none beyond locals | poll and print, or call `heartbeat` in a loop | the APIs |
| File-based heartbeats (`src/heartbeat-file.c`, `src/heart_rate_monitor-file.c`) | a file of records | an earlier implementation | not built: it uses members `inc/heartbeat.h` no longer has |
| Scripts (`test4/`, `Test/`) | | start an application and a service, plot | |

What is hard in this code:

* **Readers without a lock.** Threads of the application beat under
  `hb->mutex`; monitors, and the application's own readers, load the segment
  without it, record by record and index by index, while it is being written.
* **Two indices that wrap apart.** `buffer_index` and `read_index` start, move
  and wrap at different places, the first heartbeat takes another branch, and
  `read_index` holds the transient value `buffer_depth`.
* **A polling control loop.** A service decides on a record that is already
  old, acts through several commands that can each fail, and must then wait
  until the window of the application has forgotten the old setting.
* **Derived values.** The machine speed is never read: it is recomputed from
  what the actuators read back, and each decision starts from it.
* **Filtering next to equal keys.** The table of machine states comes from a
  sort that is not stable and a filter that compares neighbours.
* **Bookkeeping instead of reading.**  The older services count cores and
  indices and never read them back: from a start that may be wrong, past the end
  of the list, and next to another service that changes the same machine.
* **Death of the application** at any instruction, with the segment and the
  directory entry left behind, for a later process with the same pid to take
  over as they are.
* **Values read before the lock.**  `heartbeat()` reads the time of the last beat and
  the clock before it takes the mutex: the intervals of two threads overlap.

What makes each part correct: the ring holds the last beats, whole and in
order, and the text log all of them (segment); a read that was not overtaken is
one whole record and never goes back in time (both APIs); the table is strictly
increasing and contains what is worth having (machine states); the search ends
at a neighbour of what was asked (speed actuator); a decision never works
against the rate, uses only fresh windows, keeps the application's cores in
range, and an application that stays too slow gets everything (combined
service); what the older services count is what the machine has, they end at
beat `MAX`, and do not write behind `records`; a monitor takes the beats of the
application it found, and none of an earlier one (directory and segments); the
windowed rate is that of the last beats, or at least not above it (rates); the
two processes of the latency example beat in turns and come to an end.

## 2. Modules

| Module | What it is |
|---|---|
| `BeatRegister` | abstract: the current record moves one whole beat at a time; what an undisturbed monitor returned never goes back |
| `Heartbeat` | the segment with its writers and readers, store by store and load by load; implements `BeatRegister` |
| `LocalRead` | `Heartbeat` with a history of whether there was a record when a call of `hb_get_current` began |
| `HeartbeatProofs` | the inductive invariant of `Heartbeat` and its theorems |
| `MachineStates` | generation, sort and filter of the table |
| `SpeedTable` | operators: a table of speeds, the neighbour choice and the result of the search |
| `MachineSpeed` | the search of `machine_speed_act` as a loop |
| `SpeedTableProofs` | what all proofs about sums and tables need: induction over sets and numbers, sums of speeds, the recursive search |
| `SpeedActuator` | both composed: the table is built, then searched as often as a controller asks |
| `SpeedActuatorProofs` | the proofs of `MachineSpeed`, `MachineStates`, of both composed, and of `Powerstates` |
| `Powerstates` | what `powerstates.c` prints of the same list, next to `SpeedActuator` |
| `Combined` | the service, composing decisions, actuators, the machine and the application; uses `SpeedTable` |
| `CombinedProofs` | its inductive invariants and theorems |
| `ServiceLoop` | what the older services share: the application as its current record, and the polling loop as a record of locals |
| `CoreAllocator` | `core-allocator.c` |
| `FrequencyScaler1` | `frequencyscaler1.c` |
| `Both` | the two services on one application, as `test4/both.sh` starts them; instantiates both modules |
| `FrequencyScaler2` | `frequencyscaler2.c`: the walk from core to core |
| `FrequencyScaler0` | `frequencyscaler.c`, the first of the scalers |
| `Scalers` | either of `FrequencyScaler0` and `FrequencyScaler2` on one application |
| `ServicesProofs` | the inductive invariants and theorems of the older services |
| `Latency` | `lat.c`: two processes beating in turns |
| `LatencyProofs` | its inductive invariant and theorems |
| `Discovery` | applications and monitors that find each other, when pids are used again |
| `DiscoveryProofs` | its inductive invariant and theorems |
| `SlidingWindow` | abstract: the mean of the last intervals |
| `HeartRate` | clock, intervals and windowed rate of `heartbeat()`; implements `SlidingWindow` |
| `HeartRateProofs` | its inductive invariant, theorems and the refinement |
| `MCHeartbeat`, `MCSpeedActuator`, `MCCombined`, `MCBoth`, `MCScalers`, `MCLatency`, `MCDiscovery`, `MCHeartRate` | small instances for TLC |

Names follow the source: a definition or a variable called `drop_equivalent`,
`read_index` or `set_value` is that function or member.  A `Fault_x` operator
before a definition is a plausible bug in that definition, used to see that the
properties would notice it; no specification refers to one.

### 2.1 Heartbeat

State: the members of `HB_global_state_t`, the ring `log` with one more slot
that stands for the memory behind it, the text log, the mutex, the locals of
each thread inside `heartbeat()` and of each reader inside its call.  A record
is a function from fields to the number of the beat each field was stored for,
so that a torn record can be told from a whole one.

| Code (`heartbeat()`) | Action |
|---|---|
| lock, branch on `first_timestamp` (327, 331, 350) | `Lock` |
| stores to the fields of `log[0]` or `log[buffer_index]`, in any order | `StoreField` |
| `counter++; buffer_index++` | `Count` |
| `valid = 1` (first branch, which then leaves) | `PublishFirst` |
| `read_index++` (later branch) | `Publish` |
| one turn of the loop of `hb_flush_buffer` (296-307) | `FlushRecord` |
| end of the flush, if the buffer is full, and wrap of `buffer_index` | `WrapBuffer` |
| wrap of `read_index` | `WrapRead` |
| unlock | `Unlock` |
| process dies | `Crash` |

Readers: `CheckValid`, `LoadIndex`, `CopyField`, `Return` are
`hrm_get_current`; a local reader (`hb_get_current`, or a rate function, which
returns one field) skips `CheckValid` and loads the index again for each field.
`seen` and `got` are history variables.  `Crash` may come between any two of these
steps, in the middle of a flush too.  `Crash` is not code: the process dies.

*Memory order.*  The members are plain, not atomic, so what another process sees
depends on the build.  The model is that of the Makefile's build (gcc, x86-64):
stores become visible in program order; inside `heartbeat()` the compiler keeps
the record before the counters and the counters before the flush, since calls
and the address-taken segment separate them; the fields of one record may come
in any order and do so in the model, in stores and in loads.

### 2.2 MachineStates, SpeedTable, MachineSpeed, SpeedActuator, Powerstates

`MachineStates` starts from the set of all assignments of frequencies to
cores with the source's integer arithmetic (the division by 10000 makes
different states equal).  `Sort` takes one state at a time in the order of
`compare_states_on_speed`; among equal states it takes any, or the one generated
first (`sort = "stable"`), since C leaves this open.  `Filter` is one turn of the
loop of `machine_speed_init`.  The loops of `drop_equivalent` and
`pareto_optimal` stop before the first entry of the list, and so do the
operators.

`MachineSpeed` is the `do ... while` loop of `machine_speed_act` with its
variables `f`, `t` and `mid`, one turn per `Probe`, and `Settle` for the comparison
with the neighbour after it.  `SpeedTable!Implemented` is the same choice as a
function, which `Combined` uses; `FunctionAgrees` ties the two together.

`SpeedActuator` extends `MachineSpeed` and instantiates `MachineStates`: `Build` runs
`machine_speed_init` (the actions of `MachineStates`), `Ask` is a controller that sets
`set_value` within the table, `Search` is `machine_speed_act`; a finished search is
followed by the next.  `Powerstates` adds no step.  `Shown` is the test of one line in
the loop of its `main`, for each set of options, and `Printed` all of the output;
the properties apply them to the list that the service sorted.  With `-f` the command
reads that output and sorts it again (line 155): `Resorted` is the set of lists that
a sort, stable or not, may leave of it.

### 2.3 Combined

| Code (`main`) | Action |
|---|---|
| inner polling loop without a new record | `Spin` |
| new record; before `skip_until_beat` it is only printed | `Poll` |
| `decision_f(...)` | `Decide` |
| action of the machine speed, of the frequency of core c, of the global frequency, of the cores | `ActSpeed`, `ActFreq(c)`, `ActGlobal`, `ActCores` |
| the speed is recomputed; `skip_until_beat` | `After` |
| the application beats / ends at any time | `Beat`, `Finish` |

The actuators run in the order in which the code lists them, one action each, and the
application beats in between.  `ActSpeed` passes the state of the table on as the
`set_value`s of the later ones.  An action may fail: the frequency is read back whatever
happened, `global_freq_act` stops at the first failing core and reads only core 0, a
failing taskset leaves `value` and `set_value` apart. A controller that counts a
`set_value` up or down while its action fails takes it out of range; `Stray` bounds how
far it gets before the service polls no more. Beats are counted from the last record
taken, up to `Window + 1`, which is as far as the loop tells them apart.  History
variables record what the properties need about the past: `mixed`, the beats to come
until the window is rid of the old setting (one more than the window, since the interval
that the first of them ends began before the change, `heartbeat-shared.c:352`), `lag`,
the beats between the record decided on and the change, `stair`, `failed`, `retried`,
whether a turn has acted without a new speed since the speed was last computed, and
`behind`, the cores that the last global setting did not reach.

### 2.4 The older services: ServiceLoop, CoreAllocator, the frequency scalers, Both, Scalers

| Code (`main` of each) | Action |
|---|---|
| inner loop on `rc` and `window_rate`, tests of `current_beat_prev` and `wait_for` | `Poll` (`Polled`, `Again`) |
| `window_rate` below the minimum | `Add`; `Raise`, `Next_core`; `Keep` at the limit |
| above the maximum | `Take`; `Lower`, `Core_below`; `Keep` at the limit |
| within | `Keep` |
| `wait_for`, `records[i++]` | `Decided`, part of each of these |
| inner loop with no record to take | `Spin` |

The application is its current record (`beat`, `rate`, and `app` for its end), and
beats between any two steps.  A poll takes one step: what `hrm_get_current` may
do in between is the subject of `Heartbeat`.  taskset and cpufreq are modelled by
what they refuse: no cores, a process that has ended, a core that does not exist.
`get_current_cores_assigned` returns the number of bits of a variable that is
never set, so `nprocs` starts at any member of `Guesses`.  The word behind
`available_freqs` may be any number: the kernel refuses it or brings it into the
list, and a lookup that runs behind the list finds a 0 within `Behind` words or
ends the process (`Lost`).

`FrequencyScaler0` is the first scaler.  It sets core 0 only, by a command that takes
a number of MHz; `get_speed` is its rounding, and `Granted` what the kernel makes of a
frequency that is not in the list.  Its inner loop is left with any record that has a
rate, new or not: `Poll` passes on, or the turn ends without a decision before
`wait_for`; `Raise`, `AtTop`, `Lower` and `InTarget` are its four branches.  `AtTop`
waits for nothing, so that one record is decided on again and again; what follows a
write behind `records` is `lost`.  `Scalers` runs either program, with the variables of
the other at rest; nothing of their code is shared but `ServiceLoop`.

### 2.5 Latency

Each process has its segment, reduced to `valid` and to the tag of the record that
`read_index` shows.  `heartbeat` is the beat up to the increment of `read_index`,
`Wrap` what follows when it has to wrap: between them a reader gets the zeros
behind the log (a log of 100 records of 48 bytes ends inside its last page), and
0 is a tag of the exchange.  `Check`, `Copy` and `Return` are `hrm_get_current` and
the two loops around it.  `record` is not initialised, and the segments may be
left over from earlier processes.

### 2.6 Discovery

The state is what outlives a process: the files of the directory, the segments of
each pid with the size of the log, and `valid`, `read_index`, `buffer_depth`, the
record `read_index` shows, the one in slot 0 and the run they are of in the state
segment.  Runs of applications
are numbered as they start.  At the start each pid may have any of the `Leftovers`.

| Code | Action |
|---|---|
| fork and exec, with a pid that may have been used before | `Start(p)` |
| `HB_alloc_state`, `HB_alloc_log` (`heartbeat-shared.c:8-60`) | `HB_alloc_state(p)`, `HB_alloc_log(p)` |
| `read_index = 0`, `buffer_depth`, `valid = 0` (`heartbeat_init`, 113-117) | `ResetIndex(p)`, `ResetDepth(p)`, `ResetValid(p)` |
| `fopen` of the file, which may fail | `Announce(p)` |
| `heartbeat`, `heartbeat_finish` | `Beat(p)`, `heartbeat_finish(p)` |
| the process dies anywhere, also of a store to the log it has not | `Die(p)` |
| `get_heartbeat_apps` until one is found; two are refused | `get_heartbeat_apps` |
| `heart_rate_monitor_init`: the two segments, and what each program does of a failure | `AttachState`, `AttachLog` |
| the loop of `system.c`, `core-allocator.c` (and the two scalers that share it), `combined.c` | `Take` |

The first two stores of the reset are plain and may be seen in either order; the call of
`pthread_mutex_init` keeps them before the third.  A process may die between them, which
leaves a valid record of the run before with a depth of the later one, and a monitor
that is attached since the run before may poll between them.  A beat is one step, and so
is `hrm_get_current`; inside them is the subject of `Heartbeat`.  Segments are never
removed, as no code removes them.

### 2.7 HeartRate, SlidingWindow

`ReadLast`, `ReadClock` are the two reads before `pthread_mutex_lock`; `First` and
`Later` are the two branches under it, each one step with all it stores
(`last_timestamp` is all of it that is read outside, and it is stored once); `Tick`
is the clock.  `hb_window_average` is inside `Later`: the window, `current_index`,
`steady_state` and the average, kept as a sum and a number in place of a quotient.
`SlidingWindow` promises the mean of the last `WindowSize` intervals, summed anew;
the code sums only until its window is full.  `stamps` is the record log's column of
timestamps, `serial` is a history variable.

## 3. What is checked

Properties are the INVARIANTs and PROPERTYs of the configuration of each run.

| Run | Question | Bounds, and why they are enough |
|---|---|---|
| `ring` | Do the ring, the text log and lock-free reads hold up, and is the segment a `BeatRegister`? | 2 threads, 1 monitor, 3 slots, 2 fields, 8 beats: the log is filled twice and started a third time, and a monitor can be overtaken by a whole lap.  More threads only add contenders for the one mutex |
| `liveness` | Is the mutex always given back and every counted beat shown (`BeatCompletes`), does each call return, and what does a reader in the application get, field by field? | 2 threads, 1 monitor, 1 local reader, 2 slots, 4 beats: both wraps; also after `Crash` |
| `speed_actuator` | Is the table increasing, made of states with cores on from core 0, frugal, and complete with a stable sort (`TableSound`)?  Does each search end at a neighbour (`NothingBetween`, `FunctionAgrees`, `SearchEnds`), of *all* states worth their power (`NothingMissed`)?  Is what `powerstates` prints that table, and is it printed again after any sort of it (`PrinterAgrees`)? | 7 machines chosen for equal speeds, equal powers, permutations, one core and one frequency; every order of equal states; tables of up to 8 entries (3 probes); every speed of the table, those next to it and between |
| `combined` | Do the derived values stay true through failed actions (`ValuesKnown`: each core's frequency, the speed and the global frequency), does no decision of any function without an integral work against the rate until an action fails (`RightWay`), are the cores the application has those of `value` and in range (`CoresCounted`), is the staircase kept, and how many intervals of the old setting are in the window a decision is based on (`WholeWindow`)? | 2 cores, 2 frequencies, window of 2 beats, rates below, in and above the target; all decision functions, all initial settings of the machine.  Two cores are the least with a "last" core and another.  Actions fail under all decision functions but the two with an integral, whose error multiplies the states, and the one that is two others at once; `Stray` 2 lets `set_value` go twice past the limit |
| `combined_liveness` | Is an application that stays too slow given everything? | the same machine, a rate that stays below the target, gain 2 |
| `both` | Does each of two services keep its count true next to the other, and do both end? | 2 cores, 2 frequencies, every initial mask and frequency, first counts of 0, 1 and 3 (below, in and above what the machine has), `MAX` 4: two changes each way, past the end of the list and down to 0 cores |
| `scalers` | Is the index true through the walk, are the cores left behind at the top, does `records` suffice; for the first scaler, does core 0 follow the index and is the array left only at the top (`FirstScaler`); do both end? | 2 cores and `CORES` 2, so that the walk ends at a core that does not exist; 2668000, 2667000 and 1867000 kHz of `Test/scaling_available_frequencies`: the two highest are closer together than `get_speed` rounds; 10 beats and a window of one, so that there is a decision for each beat: up both cores, behind the last and back (run `both` has a longer window) |
| `latency` | Do the two beat in turns (`BeatsInTurns`), is each answer a real one, do both end? | 5 exchanges over logs of 2 records: each log wraps twice; any tag of the exchange in memory |
| `discovery` | Is what a valid state shows always inside its log (`SegmentsFit`), does a monitor take only records of the run it found or later ones, and no more than its array has room for until the pid is used again (`RecordsOfRun`), when does attaching fail, does the monitor end? | 2 pids and 2 runs, so that one pid is used again and two applications meet; depths 1 and 2, so that a log is too small; 4 kinds of leftovers, one of them the depth of a process that died before it reset `valid`; 4 beats with `MAX` 3, so that a monitor of `system.c` can miss the beat it ends at |
| `heart_rate` | Is the windowed rate the one of the last beats (`RateTrue`), and the average kept up to date the mean (`SlidingSpec`)? | 2 threads, window of 3, 8 beats: the window is filled and turned over twice; clock 0..4, so that several beats share a time.  More threads only overlap more |

A property that names several of its kind is their conjunction; the parts are
operators of their own in the module, each with its comment.  `TypeOK` of a module is
part of the first of them.  Only `SpeedActuator.cfg` switches the test for deadlock
off among the passing runs: an unstable sort can leave an empty table, of which
`machine_speed_init` reads `states[0]` and `states[-1]` (`combined.c:337-342`), and the
model stops there.

Two runs show where the code departs from what the repository says of it; TLC's
counterexample is the point of the run:

* `local_read` — `hb_get_current` "Returns the record for the current heartbeat /
  currently may read old data" (`heartbeat-shared.c:143`), but loads
  `read_index` once per field: a beat published between two loads gives the fields of
  two beats.  The run looks only at calls that began when there was a record
  (`LocalRead!began`).
* `uncopied_read` — `hrm_get_current` loads `valid` again for its return code and
  can report success without having written the record
  (`test4/test4.sh:96` works around "a ridiculously high number").

Also seen while modelling, and stated here rather than checked:

* Past the first lap `hb_get_history` and `hrm_get_history` copy
  `buffer_index * buffer_depth` records where `buffer_depth - buffer_index`
  remain (`heartbeat-shared.c:173`, `heart_rate_monitor-shared.c:89`).
* `hrm_get_global_rate` and `hrm_get_windowed_rate` index the log with `counter`
  (`heart_rate_monitor-shared.c:109`), which is never the newest record.
* `drop_equivalent` and `redundant_state` together can drop every state of a speed
  when equal states are not sorted in the order they came
  (`machine_states.c:126`); `StableKept` holds for a stable sort.
* `pareto_optimal` keeps a state that another one beats in speed at *equal* power.
* The search of `machine_speed_act` leaves one entry unread, so what it takes is
  next to the wanted speed but not always the closest.
* `step_heuristics` may take the last core away while the one before it is not at
  the top frequency, if the service found the machine so.
* With a gain of 1 a proportional controller can stay below the target: it asks
  for less than half the way to the next state.
* The speed actuator's value is computed anew only in a turn that asked for a new speed
  (`combined.c:780`).  An action that failed (774, "TODO: handle error") is run again in
  a later turn, also when the controller asks for no change; it may then work, the
  machine changes, and the controller's next decision starts from the speed of before.
  `SpeedKnown` speaks of all turns but those (`retried`).
* `core_heuristics` counts `set_value` on while its action fails, out of what its
  action can do; `value` stays in range (`CoresCounted`).
* `combined.c` takes its number of beats from the arguments only if two are left
  after the options.
* An unstable sort can leave the service without any state, see above.  A stable one
  can lose speeds too if the driver lists its frequencies from the lowest up: with
  0.5 and 2 MHz in that order, `StableKept` fails for two cores.  The drivers in use
  list them from the highest down (`HighestFirst`).
* `core-allocator.c` may take cores from a too slow application with its first
  taskset, whose count starts from memory nobody set, and counts down to
  "taskset -pc 0--1".
* `frequencyscaler1.c` sets the word behind its list (`current_counter < current`,
  439), and its loops include core `CORES` (416, 442).
* `frequencyscaler2.c` never goes back to a lower core (`current_counter > max_freq`,
  504, holds only behind the last core), and its walk stops at a core that starts
  at the top, or one step below, since `u_next` is not set there (443, 457).
  `CORES == ncpus` (292) is a comparison.
* `frequencyscaler.c` does not test for a record it has already seen, so at the
  top frequency it writes behind `records` (365-376, 409; `LostAtTop`).  Its
  `get_speed` adds a whole unit where it means to round, so a core asked for
  1867 MHz gets the next higher frequency; `get_policy` compares the governor's
  name by pointer.
* `system.c` may write behind `records` when its pid is used by a second run, whose
  tags start again, and already when that run has reset `read_index` and not yet
  `valid` (`heartbeat-shared.c:113-117`): the record in slot 0 is then shown once more
  (`RecordsFit` is about the time before).
* A process that dies between the same stores leaves a valid state with a
  `buffer_depth` that its log may not have room for; the record shown is inside it
  (`ShownFits`), and attaching to it fails, if a file is left.
* `get_speed` cannot tell 2668000 from 2667000 kHz, which are in one list: asked for the
  lower the kernel sets the higher (`IndexFollowed` says how far it may be off).
* With two threads, the intervals of `heartbeat()` overlap: the windowed rate is then
  too low, never too high (`NeverFaster`); a thread that has read -1 for the last
  time before the first beat gives an interval since -1.
* `global_rate` divides `counter + 1` beats by the time of `counter` intervals
  (`heartbeat-shared.c:354`).
* `lat.c`, like every service, polls the directory with `fgets` on a `stdin` that has
  met its end before, and writes to `apps[2]` without a bound (48-50, 87).

### Fairness

`Heartbeat!FairSpec`: a thread inside `heartbeat()` and a reader inside its call
keep running, for both are code without a wait, and the kernel schedules runnable
threads.  No fairness is assumed for taking the lock, for calling `heartbeat()`,
or for a thread of a process that has died.
`Combined!FairSpec`: the loop of the service keeps running, since `main` does
nothing else, and the application goes on beating unless it ends, which
`AllGiven` allows for.  `Spin` and `Finish` are not fair.  `MachineSpeed!FairSpec` and
`SpeedActuator!ActuatorSpec`: the loop of the search keeps running, as nothing else
runs in its thread; nobody has to ask.
`Scalers!ScalersSpec`: the service keeps running; `Spin` is not part of it.
`Discovery!FairSpec`: the monitor keeps running; applications owe nothing, and may
stop at any step.
`Both!FairSpec`: each service keeps running, on its own; the application owes nothing,
and `ServicesEnd` asks only about one that has reached beat `MAX`.
`Latency!Spec`: both processes keep running; they poll and never block.

## 4. What is proved

TLAPS checks the following for all values of the constants that satisfy the
named assumptions; the runs check the same formulas on small instances.

`HeartbeatProofs`, from `HeartbeatAssumption` (in particular `BufferDepth >= 2`:
with one slot the branch of the first heartbeat, which has no wrap, would leave
`buffer_index` outside the log; every caller in the repository uses more):

* `Invariance`: the inductive invariant `IInv`.  `RingOrder` alone is not
  inductive; `IInv` adds *Exclusion* (a thread inside `heartbeat()` holds the
  mutex, so there is at most one), *Stages* (what `counter`, both indices and
  `valid` are at each stage of `heartbeat()`, for the first beat and for later
  ones), *Ring* (the contents of every slot, the half-stored one included, and of
  the text log) and *Reading* (which fields a monitor that was not overtaken has
  copied, and from which beat).
* `Typing`, `RingCorrect`, `TextLogCorrect`, `QuiescentReadCorrect`,
  `UntornReadCorrect`: the invariants of run `ring`, for any number of threads,
  monitors, fields and slots.
* `FieldReadCorrect`: the action property `FieldRead`.  A reader inside the application
  loads the index anew for each field, so it needs an invariant of its own beside `IInv`,
  `LocalReading`: between the two loads the slot shows the beat that was current, until a
  thread comes back to it (`StoreMisses`).
* `Refinement`: `Spec => RegisterSpec`, the segment implements `BeatRegister`.

`HeartRateProofs`, from `HeartRateAssumption` (finitely many threads, a window of one
at least):

* `Invariance`.  Neither `NeverFaster` nor `WindowElapsed` is inductive: one more
  interval says nothing of the average unless the intervals that are still in the
  window are known one by one.  `IInv` says that the sum kept up to date is that of
  the slots (*Averages*), which beat is in which slot (`Beat`), how full the window is
  (*Counting*), and that what a thread holds in its locals was so once (*Calls*).
  The central idea is `Slack`: an interval starts at some earlier record's time, so it
  covers at least what the latest timestamp rose by when its beat was recorded.
  The sum is `Latest(newest) - Latest(oldest)` and the slack of all slots; no slack
  is negative, and without overlap (*Serially*) there is none.
* `RateCorrect`: `RateTrue`, the invariant of run `heart_rate`.
* `Refinement`: `Spec => SlidingSpec`.  Beside `IInv` it needs that the sum of the slots
  is the sum of the queue, which starts at another slot at each step
  (`QueueMoves`, `SumOfRest`).

`SpeedTableProofs` assumes nothing of the constants.  Induction over data is done there
without the library's induction theorems, which take an operator as parameter: by the
least element of a set of numbers (`Least`, from `WFMin`), and from it on subsets of a
finite set (`InductionOnSet`).  It gives the recursion equations of
`SumFunctionOnSet` (`SumRemove`, `SumOfEqual`, `SumNat`, ...) and of the recursive
function in `LastProbe`, and with them

* `ImplementedRight`: in every increasing table, no state lies between
  `Implemented(T, v)` and the speed `v` that is asked for.

`SpeedActuatorProofs`, from `MachineStatesAssumption` (a machine has a core, and a list
that names each of its frequencies once):

* `Invariance`, `SearchTyping`, `SearchCorrect`, `FunctionOfLoop`: the loop of
  `machine_speed_act` in every table of `MachineSpeed`, from `MachineSpeedAssumption`
  (the table is increasing).  It stays in the table, ends at a neighbour of the
  wanted speed, and gives what the function gives: at each turn the function, asked
  about the interval the loop is at, has the same last probe.
* `ActuatorInvariance`: the sorted list is in the order of `Before` and, after a stable
  sort, equal states in that of `Generated`; the table is what the filter has kept of
  the entries before `in_state`; a search is as above, in that table.
* `TableSearchable`: on every machine and with any sort, the table is strictly
  increasing, its states have their cores on from core 0, and none is beaten by
  another state.  Each is an argument about neighbours in a list: two states of the
  same speed that are both kept would have the same power, and the second would
  have been dropped for the first (`KeptIncreasing`).
* `TableCorrect`, `NothingIsMissed`: under `HighestFirst`, a stable sort loses no speed
  that is worth its power, so `TableSound` and `NothingMissed`.  Among equal states the
  first is monotone if any is: sorting two frequencies into order only moves a state
  forward (`FirstOfItsKind`).  The hypothesis is needed, see *Also seen* above.
* `ActuatorSearchCorrect`, `ActuatorFunction`: `NothingBetween` and `FunctionAgrees` in
  the tables that are built.
* `PrintInvariance`, `PrinterCorrect`: what `powerstates` prints (`PrinterAgrees`).  The
  loop of its `main` and the filter look at the same entries, and differ at the first
  line and at states of speed 0 only.  Hence the hypothesis `FromTenMHz`: every
  frequency is 10 MHz at least, so that the one state of speed 0 is the machine with all
  cores off, and that comes first.  Whatever order the second sort leaves, a line finds
  no neighbour that it had not found before.  For two passes: of the states of one speed
  and power, one whose frequencies are nearest to falling from core to core is no
  permutation (`SomeNotRedundant`), and of those the second pass keeps the first
  (`TwoPasses`).

`CombinedProofs`, from `CombinedAssumption` (what `machine_speed_init` and the driver give:
a table increasing in speed whose states sum to their speeds, a list that names each
frequency once, rates that are positive):

* `Invariance`.  The service believes `value`s that it read back at different times, so
  `IInv` says at each place of the loop which actuators the decision function never
  touches (*Quiet*), which have had their turn and show what was asked of them
  (*Settled*), when the speed is that of the machine, without failures (*SpeedAtHand*) and
  with them (*Tracked*), which cores are at the global frequency (*Uniform*), how many
  beats of the old setting are in the window (*Windows*), and what is left of the
  staircase while it is being moved (*Stairs*).
* `CombinedValuesKnown`, `CombinedCoresCounted`, `CombinedWholeWindow`,
  `CombinedStaircaseKept`: invariants of run `combined`, for any number of cores,
  any list, table, window, target and gains.
* `CombinedRightWay`: until an action fails, no decision works against the rate, with any
  decision function but the two with an integral: speed is planned as cores times the
  global frequency, or as the sum of the cores' frequencies.  It needs `Tuned` (the gain
  is not negative, the target is no empty interval, the list has its highest frequency
  first), without which the code does decide the wrong way.  A controller of the machine
  speed may find the machine at a speed that is not in its table, and its first decision
  is rounded either way: `RightWay` speaks of it from then on, and says itself that each
  decision ends in the table.  The proof meets the search again: an actuator asked for
  no less than the current speed, one of the table, implements no less
  (`ImplementedRight`), and speeds compare as sums of frequencies do.

`ServicesProofs`, from `ServiceLoopAssumption`, `FrequencyScalerAssumption` and
`BothAssumption` (`MAX`, the window and the list are not empty, `CORES` is no more than
the number of cores, a first count is the number of bits of a word):

* Lemmas that a poll and a decision keep `LoopInv`.  Its core is what keeps `records`
  within bounds: before each poll, the decisions made are no more than the last beat
  seen, which is below `MAX`, and a decision needs a later beat.
* `ScalerTyping`, `IndexCorrect`, `BelowCorrect`, `RecordsCorrect` for
  `frequencyscaler2.c`.  `IndexKept` and `BelowAtTop` are inductive only together: the
  walk leaves a core at index 0, and that the core then runs at the top frequency is
  what `IndexKept` says.  `EitherScaler` (`ScalersSpec => Spec`) carries them over to
  run `scalers`.
* `FirstScalerCorrect` for `frequencyscaler.c`, under `Descending`: the list has its
  highest frequencies first, as cpufreq gives it; its steps may have any size.
  `get_speed` drops less than a MHz and adds 10 MHz at most, and the kernel takes the next
  frequency it has (`Granted`); so the outcome is off by no more than the frequencies
  that lie in between.
* `BothTyping`, `CountCorrect`, `BothIndexCorrect`, `BothRecordsCorrect` for the two
  services on one application.  The case that needs thought is the step down to 0
  cores, which taskset refuses: the application keeps core 0, as it had with a
  count of 1.

`LatencyProofs`, from `LatencyAssumption` (`BufferDepth >= 2`; any memory):
`LatencyBeatsInTurns` and `LatencyRealAnswer`.  `IInv` says how many exchanges each
process has behind it (*Counted*), what its segment shows meanwhile (*Segment*) and
what the copy in hand can be; the zero behind the log is shown only after the
third beat, when nobody waits for tag 0.

`DiscoveryProofs`, from `DiscoveryAssumption` (there is a pid, depths and beats are
positive, and what earlier processes left has the types of this module, and no valid
state shows a record outside its log; it may promise more records than its log has):
`SegmentsCorrect`, `AttachCorrect` and
`RecordsCorrect`, the invariants of run `discovery`, for any number of pids, runs and
depths.  Its `IInv` says of each pid how the runs are numbered (*Numbering*), what a
process has of its segments after each store of `heartbeat_init` (*Allocated*), what a
file stands for (*Promise*) and which run a valid record is of (*Shown*); and of the
monitor what stays so of the pid it found (*Watched*) and that, within one run, the
next record is later than the last (*Taken*).  Only then are the three properties
inductive: a monitor that has found a file may attach and poll while the pid is
used again.  An application's step is proved for its own pid; `StepOfOne` carries it
over to all others.

Only model-checked: liveness (`BeatCompletes`, `ReadCompletes`, `SearchEnds`, `AllGiven`,
`ServicesEnd`, `ScalerEnds`, `MonitorEnds`, `BothEnd`), which is beyond the prover.
Every other property of a passing run has its theorem.  The bounds `LastBeat`, `LastTime`,
`Stray` and `MaxBeats` of the models are constants in the theorems: they hold for every
bound.

## 5. Not modelled

* `hb_get_history` and `hrm_get_history`: their second `memcpy` is wrong after the first
  lap, and what it then copies is memory the model has nothing to say of.  The same
  is true of the two rates of the monitor that index the log with `counter`.
* The text log that `heartbeat_finish` closes, and failing allocations other than that
  of the log.
* Doubles.  `HeartRate` keeps the average as a sum and a number, so that rounding is
  left out; rates, errors and gains of `Combined` are integers.  The clock of
  `HeartRate` is not set back, though it is `CLOCK_REALTIME`.
* `buffer_depth` 1, which no caller uses: the branch of the first heartbeat has no wrap
  (`heartbeat-shared.c:345`).
* A frequency of the kernel that is not one of the list (`combined.c:234`), in
  `Combined` and in the scalers.
* Options and arguments of the programs, the syntax of the files of `powerstates.c`, what
  is printed.
* `tp.c`, which differs from `application.c` in reading its rate and flushing caches
  between beats.
* The file-based variant: it is not built, and uses members `inc/heartbeat.h` no longer
  has.  Scripts other than `both.sh`.

## 6. Plan

Built: all modules of section 2, their runs, and the proofs of section 4.  What is
left:

1. `Combined` with a frequency outside the list, once it is known what the drivers in
   use report.
