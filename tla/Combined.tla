------------------------------ MODULE Combined ------------------------------
(***************************************************************************)
(* The service of combined.c: it polls the heart rate of one application   *)
(* and changes the frequencies of the cores and the number of cores the    *)
(* application may use.  Each turn of the loop of main takes a new record, *)
(* waits until a whole window was measured since the last change, lets a   *)
(* decision function choose set_values, and runs the action of every       *)
(* actuator whose set_value is not its value.  The application beats, and  *)
(* may end, between any two steps of the service.                          *)
(*                                                                         *)
(* Beats are counted from the last record taken (last_beat), and no        *)
(* further than Window + 1: the loop does not tell larger numbers apart.   *)
(* max_beats is INT_MAX, the default: the loop goes on.  Rates, errors and *)
(* gains are integers, and frequencies are counted in the unit of speeds:  *)
(* the speed of a state is the sum of its frequencies.                     *)
(*                                                                         *)
(* Each Fault_x is a faulty variant of a definition near it: the           *)
(* properties tell it from the code.                                       *)
(***************************************************************************)
EXTENDS SpeedTable, FiniteSets, Functions

CONSTANTS CoreCount,    \* get_core_count()
          FreqArray,    \* freq_array: 0..freq_count-1 -> frequencies, the highest first
          States,       \* data->states: 0..state_count-1 -> [on, core, speed]
          Decisions,    \* the decision functions a behaviour may run with
          Window,       \* hrm_get_window_size
          MinRate, MaxRate,  \* hrm_get_min_rate, hrm_get_max_rate
          Rates,        \* the window rates a record may hold, but 0
          Kp, Ki,       \* param1, param2
          Unreliable,   \* the decision functions run with actions that may fail
          Stray         \* bound: how far failures may take set_value out of range

Cores     == 0..(CoreCount - 1)
FreqCount == LastOf(FreqArray) + 1
Speeds    == [k \in DOMAIN States |-> States[k].speed]
Top       == FreqArray[0]

Heuristics == {"core_heuristics", "freq_heuristics", "uncoordinated_heuristics",
               "step_heuristics"}
MachineControllers ==
    {"machine_state_p_controller", "machine_state_pseudo_pi_controller",
     "machine_state_histeresis_p_controller",
     "machine_state_histeresis_pseudo_pi_controller"}

ASSUME CombinedAssumption ==
    /\ CoreCount \in Nat \ {0} /\ Window \in Nat \ {0}
    /\ LastOf(FreqArray) \in Nat
    /\ FreqArray \in [0..LastOf(FreqArray) -> Nat \ {0}] /\ IsInjective(FreqArray)
    /\ LastOf(States) \in Nat /\ DOMAIN States = 0..LastOf(States)
    /\ \A k \in DOMAIN States :
         /\ States[k].on \in 1..CoreCount
         /\ States[k].core \in [0..(States[k].on - 1) -> Range(FreqArray)]
         /\ States[k].speed = SumFunctionOnSet(States[k].core, DOMAIN States[k].core)
    /\ Increasing(Speeds)
    /\ Decisions \subseteq Heuristics \cup MachineControllers
                               \cup {"dummy_control", "core_p_controller"}
    /\ Rates \subseteq Nat \ {0}
    /\ {MinRate, MaxRate, Kp, Ki} \subseteq Int
    /\ Unreliable \subseteq Decisions /\ Stray \in Nat

VARIABLES
    hw,          \* the frequency each core runs at
    mask,        \* the cores the application may run on
    speed_act,   \* the actuators, in the order of their actions
    freq_act,
    gfreq_act,
    core_act,
    decision_f,  \* the decision function
    old_error,   \* its static variable, in the pseudo PI controllers
    pc,          \* "poll", "decide", "act" or "after"
    i, acted,    \* locals of main
    rate,        \* current.window_rate
    fresh,       \* beats since the last record taken
    wait,        \* skip_until_beat - current.beat, not below 0
    app,         \* "up", or "down" once it beats no more
    failed,      \* history: an action failed
    retried,     \* history: actions were run that no new speed was asked for with
    behind,      \* history: the cores the last global setting did not reach
    mixed,       \* history: beats until the window is rid of the old setting
    lag,         \* history: beats between the last record and the last change
    stair        \* history: the service found a staircase (see Staircase)

machine  == <<hw, mask>>
controls == <<speed_act, freq_act, gfreq_act, core_act>>
since    == <<mixed, lag>>
failures == <<failed, stair>>
history  == <<since, failures, retried, behind>>
vars == <<machine, controls, decision_f, old_error, pc, i, acted, rate, fresh,
          wait, app, history>>

Lower(a, b) == IF a < b THEN a ELSE b

\* get_freq_index
get_freq_index(freq) ==
    IF \E k \in DOMAIN FreqArray : FreqArray[k] = freq
      THEN CHOOSE k \in DOMAIN FreqArray : FreqArray[k] = freq ELSE -1

\* get_current_speed: from the values the actuators last read.
get_current_speed(cores, freqs) ==
    SumFunctionOnSet([c \in Cores |-> freqs[c].value], {c \in Cores : c < cores.value})

\* The cores below the last one run at the top frequency: what step_heuristics
\* builds up and takes down.
Staircase == /\ mask = 0..(core_act.value - 1)
             /\ \A c \in 0..(core_act.value - 2) : hw[c] = Top

\* The actuators start from the machine as the service finds it.
core_init == core_act = [value |-> Cardinality(mask), set_value |-> Cardinality(mask)]
single_freq_init ==
    freq_act = [c \in Cores |-> [value |-> hw[c], set_value |-> hw[c],
                                 cur_index |-> get_freq_index(hw[c])]]
\* "just get all data from the first cpu and assume they're all the same"
global_freq_init == gfreq_act = freq_act[0]
machine_speed_init == LET speed == get_current_speed(core_act, freq_act)
                      IN  speed_act = [value |-> speed, set_value |-> speed]

\* main up to its loop; the application may have beaten already.
Init ==
    /\ hw \in [Cores -> Range(FreqArray)]
    /\ mask \in (SUBSET Cores) \ {{}}
    /\ single_freq_init /\ global_freq_init /\ core_init
    /\ machine_speed_init
    /\ decision_f \in Decisions
    /\ old_error = 0
    /\ pc = "poll" /\ i = 0 /\ acted = FALSE
    /\ rate \in Rates
    /\ fresh \in 0..(Window + 1) /\ wait = Window
    /\ app = "up"
    /\ failed = FALSE /\ retried = FALSE /\ behind = Cores \ {0}
    /\ mixed = 0 /\ lag = 0
    /\ stair = Staircase
-----------------------------------------------------------------------------
(* The application *)

Beat ==
    /\ app = "up"
    /\ fresh' = Lower(fresh + 1, Window + 1)
    /\ UNCHANGED <<machine, controls, decision_f, old_error, pc, i, acted, rate,
                   wait, app, history>>

Finish ==
    /\ app = "up" /\ app' = "down"
    /\ UNCHANGED <<machine, controls, decision_f, old_error, pc, i, acted, rate,
                   fresh, wait, history>>
-----------------------------------------------------------------------------
(* Decision functions: what they leave in set_value, cur_index, old_error    *)

TooSlow == rate < MinRate
TooFast == rate > MaxRate

Fault_OneShort(act) ==
    [act EXCEPT !.set_value = IF TooSlow /\ act.value < CoreCount - 1 THEN @ + 1
                              ELSE IF TooFast /\ act.value > 1 THEN @ - 1 ELSE @]
core_heuristics(act) ==
    [act EXCEPT !.set_value = IF TooSlow /\ act.value < CoreCount THEN @ + 1
                              ELSE IF TooFast /\ act.value > 1 THEN @ - 1 ELSE @]

\* One frequency up or down the list.
ToIndex(act, k) == [act EXCEPT !.cur_index = k, !.set_value = FreqArray[k]]

freq_heuristics(act) ==
    IF TooSlow /\ act.cur_index > 0 THEN ToIndex(act, act.cur_index - 1)
    ELSE IF TooFast /\ act.cur_index < FreqCount - 1 THEN ToIndex(act, act.cur_index + 1)
    ELSE act

\* Raise the last core, or add one at the lowest frequency; lower the last core,
\* or take it away.
Fault_AddEarly(freqs, core) ==
    LET last == core.value - 1
        k == freqs[last].cur_index
    IN  IF TooSlow THEN
          IF k > 1 THEN [freqs |-> [freqs EXCEPT ![last] = ToIndex(@, k - 1)], core |-> core]
          ELSE IF last < CoreCount - 1
            THEN [freqs |-> [freqs EXCEPT ![last + 1] = ToIndex(@, FreqCount - 1)],
                  core |-> [core EXCEPT !.set_value = core.value + 1]]
          ELSE [freqs |-> freqs, core |-> core]
        ELSE IF TooFast THEN
          IF k < FreqCount - 1
            THEN [freqs |-> [freqs EXCEPT ![last] = ToIndex(@, k + 1)], core |-> core]
          ELSE IF last > 0
            THEN [freqs |-> freqs, core |-> [core EXCEPT !.set_value = core.value - 1]]
          ELSE [freqs |-> freqs, core |-> core]
        ELSE [freqs |-> freqs, core |-> core]
step_heuristics(freqs, core) ==
    LET last == core.value - 1
        k == freqs[last].cur_index
    IN  IF TooSlow THEN
          IF k > 0 THEN [freqs |-> [freqs EXCEPT ![last] = ToIndex(@, k - 1)], core |-> core]
          ELSE IF last < CoreCount - 1
            THEN [freqs |-> [freqs EXCEPT ![last + 1] = ToIndex(@, FreqCount - 1)],
                  core |-> [core EXCEPT !.set_value = core.value + 1]]
          ELSE [freqs |-> freqs, core |-> core]
        ELSE IF TooFast THEN
          IF k < FreqCount - 1
            THEN [freqs |-> [freqs EXCEPT ![last] = ToIndex(@, k + 1)], core |-> core]
          ELSE IF last > 0
            THEN [freqs |-> freqs, core |-> [core EXCEPT !.set_value = core.value - 1]]
          ELSE [freqs |-> freqs, core |-> core]
        ELSE [freqs |-> freqs, core |-> core]

\* The controllers clip what they ask for to the range of the actuator.
Clip(v, min, max) == IF v < min THEN min ELSE IF v > max THEN max ELSE v

\* The distance to the middle of the target, or to its nearest end.
Fault_Distance == IF decision_f \in {"machine_state_histeresis_p_controller",
                                     "machine_state_histeresis_pseudo_pi_controller"}
           THEN IF TooSlow THEN MinRate - rate ELSE IF TooFast THEN rate - MaxRate ELSE 0
           ELSE (MaxRate + MinRate) \div 2 - rate
Error == IF decision_f \in {"machine_state_histeresis_p_controller",
                            "machine_state_histeresis_pseudo_pi_controller"}
           THEN IF TooSlow THEN MinRate - rate ELSE IF TooFast THEN MaxRate - rate ELSE 0
           ELSE (MaxRate + MinRate) \div 2 - rate

Integral == decision_f \in {"machine_state_pseudo_pi_controller",
                            "machine_state_histeresis_pseudo_pi_controller"}
Push == Kp * Error + IF Integral THEN Ki * old_error ELSE 0

core_p_controller(act) ==
    [act EXCEPT !.set_value = Clip(act.value + Push, 1, CoreCount)]
machine_state_controller(act) ==
    [act EXCEPT !.set_value = Clip(act.value + Push, Speeds[0], Speeds[LastOf(Speeds)])]
-----------------------------------------------------------------------------
(* One turn of the loop of main *)

\* The inner loop turns while hrm_get_current gives no record, the last one, or
\* one without a rate: for ever, once the application has ended.
Spin == pc = "poll" /\ UNCHANGED vars

\* A record newer than the last.  Before skip_until_beat it is only printed.
Poll ==
    /\ pc = "poll" /\ fresh > 0
    /\ core_act.set_value \in (1 - Stray)..(CoreCount + Stray)
    /\ rate' \in Rates
    /\ fresh' = 0
    /\ wait' = IF wait > fresh THEN wait - fresh ELSE 0
    /\ mixed' = IF mixed > fresh THEN mixed - fresh ELSE 0
    /\ pc' = IF wait > fresh THEN "poll" ELSE "decide"
    /\ UNCHANGED <<machine, controls, decision_f, old_error, i, acted, app, lag,
                   failures, retried, behind>>

Decide ==
    /\ pc = "decide"
    /\ core_act' = CASE decision_f \in {"core_heuristics", "uncoordinated_heuristics"}
                           -> core_heuristics(core_act)
                     [] decision_f = "step_heuristics"
                           -> step_heuristics(freq_act, core_act).core
                     [] decision_f = "core_p_controller" -> core_p_controller(core_act)
                     [] OTHER -> core_act
    /\ freq_act' = IF decision_f = "step_heuristics"
                     THEN step_heuristics(freq_act, core_act).freqs ELSE freq_act
    /\ gfreq_act' = IF decision_f \in {"freq_heuristics", "uncoordinated_heuristics"}
                      THEN freq_heuristics(gfreq_act) ELSE gfreq_act
    /\ speed_act' = IF decision_f \in MachineControllers
                      THEN machine_state_controller(speed_act) ELSE speed_act
    /\ old_error' = IF Integral THEN Error ELSE old_error
    /\ i' = 0 /\ acted' = FALSE
    /\ pc' = "act"
    /\ UNCHANGED <<machine, decision_f, rate, fresh, wait, app, history>>

\* The next actuator of the list: its action is run if its set_value is not its
\* value.
Turn(k, wanted) ==
    /\ pc = "act" /\ i = k
    /\ i' = i + 1
    /\ pc' = IF i = CoreCount + 2 THEN "after" ELSE "act"
    /\ acted' = (acted \/ wanted)
    /\ UNCHANGED <<decision_f, old_error, rate, fresh, wait, app, retried>>

\* What an action does to the machine; a failure that changes nothing is one too.
\* Of the beats after it the first ends an interval that began before it, and only
\* Window beats later is that interval out of the average.
Change(new_hw, new_mask, ok) ==
    /\ hw' = new_hw /\ mask' = new_mask
    /\ failed' = (failed \/ ~ok)
    /\ stair' = (stair /\ ok)
    /\ IF <<new_hw, new_mask>> # machine
         THEN mixed' = fresh + Window + 1 /\ lag' = fresh
         ELSE UNCHANGED since

Outcomes == IF decision_f \in Unreliable THEN {TRUE, FALSE} ELSE {TRUE}

\* machine_speed_act: the state of the table is handed to the other actuators,
\* up to the first core that is off.
ActSpeed ==
    LET wanted == speed_act.set_value # speed_act.value
        state == States[Implemented(Speeds, speed_act.set_value)]
    IN  /\ Turn(0, wanted)
        /\ IF wanted
             THEN /\ freq_act' = [c \in Cores |->
                                    IF c < state.on
                                      THEN [freq_act[c] EXCEPT !.set_value = state.core[c]]
                                      ELSE freq_act[c]]
                  /\ core_act' = [core_act EXCEPT !.set_value = state.on]
             ELSE UNCHANGED <<freq_act, core_act>>
        /\ UNCHANGED <<machine, speed_act, gfreq_act, since, failures, behind>>

\* single_freq_act: the value is read back, whether setting it worked or not.
ActFreq(c) ==
    LET wanted == freq_act[c].set_value # freq_act[c].value
    IN  /\ Turn(c + 1, wanted)
        /\ IF wanted
             THEN \E ok \in Outcomes :
                    /\ Change(IF ok THEN [hw EXCEPT ![c] = freq_act[c].set_value] ELSE hw,
                              mask, ok)
                    /\ freq_act' = [freq_act EXCEPT ![c].value = hw'[c]]
             ELSE UNCHANGED <<machine, since, failures, freq_act>>
        /\ UNCHANGED <<speed_act, gfreq_act, core_act, behind>>

\* global_freq_act: the first core that fails keeps the others from being set
\* (err = err || ...); only core 0 is read back.
GlobalSet(n, freq) == [c \in Cores |-> IF c < n THEN freq ELSE hw[c]]
ActGlobal ==
    LET wanted == gfreq_act.set_value # gfreq_act.value
    IN  /\ Turn(CoreCount + 1, wanted)
        /\ IF wanted
             THEN \E n \in IF decision_f \in Unreliable THEN 0..CoreCount ELSE {CoreCount} :
                    /\ Change(GlobalSet(n, gfreq_act.set_value), mask, n = CoreCount)
                    /\ gfreq_act' = [gfreq_act EXCEPT !.value = hw'[0]]
                    /\ behind' = IF n = 0 THEN behind ELSE {c \in Cores : c >= n}
             ELSE UNCHANGED <<machine, since, failures, gfreq_act, behind>>
        /\ UNCHANGED <<speed_act, freq_act, core_act>>

\* core_act: taskset; "0--1" is no list of cores.
Fault_ValueAnyway ==
    LET wanted == core_act.set_value # core_act.value
    IN  /\ Turn(CoreCount + 2, wanted)
        /\ IF wanted
             THEN \E ok \in IF core_act.set_value < 1 THEN {FALSE} ELSE Outcomes :
                    /\ Change(hw, IF ok THEN 0..(core_act.set_value - 1) \cap Cores
                                  ELSE mask, ok)
                    /\ core_act' = [core_act EXCEPT !.value = core_act.set_value]
             ELSE UNCHANGED <<machine, since, failures, core_act>>
        /\ UNCHANGED <<speed_act, freq_act, gfreq_act, behind>>
ActCores ==
    LET wanted == core_act.set_value # core_act.value
    IN  /\ Turn(CoreCount + 2, wanted)
        /\ IF wanted
             THEN \E ok \in IF core_act.set_value < 1 THEN {FALSE} ELSE Outcomes :
                    /\ Change(hw, IF ok THEN 0..(core_act.set_value - 1) \cap Cores
                                  ELSE mask, ok)
                    /\ core_act' = IF ok THEN [core_act EXCEPT !.value = core_act.set_value]
                                   ELSE core_act
             ELSE UNCHANGED <<machine, since, failures, core_act>>
        /\ UNCHANGED <<speed_act, freq_act, gfreq_act, behind>>

\* "update speed actuator's value", and the beats to skip.
Fault_SkipOne == 1
Skip == IF acted THEN Window ELSE 1
Fault_NotUpdated == speed_act
UpdatedSpeed == IF speed_act.value # speed_act.set_value
                  THEN [speed_act EXCEPT !.value = get_current_speed(core_act, freq_act)]
                  ELSE speed_act
After ==
    /\ pc = "after"
    /\ speed_act' = UpdatedSpeed
    /\ wait' = Skip
    /\ retried' = IF speed_act.value # speed_act.set_value THEN FALSE
                  ELSE (retried \/ acted)
    /\ pc' = "poll"
    /\ UNCHANGED <<machine, freq_act, gfreq_act, core_act, decision_f, old_error, i,
                   acted, rate, fresh, app, since, failures, behind>>

Act  == ActSpeed \/ (\E c \in Cores : ActFreq(c)) \/ ActGlobal \/ ActCores
Loop == Poll \/ Decide \/ Act \/ After
Next == Beat \/ Finish \/ Spin \/ Loop

Spec == Init /\ [][Next]_vars

\* The service does nothing but its loop, and an application that has not ended
\* goes on beating.
FairSpec == Spec /\ WF_vars(Loop) /\ WF_vars(Beat)
-----------------------------------------------------------------------------
(* Safety *)

Actuator == [value : Int, set_value : Int]

\* The type invariant.
TypeOK ==
    /\ hw \in [Cores -> Range(FreqArray)]
    /\ mask \in (SUBSET Cores) \ {{}}
    /\ speed_act \in Actuator /\ core_act \in Actuator
    /\ \A act \in Range(freq_act) \cup {gfreq_act} :
         /\ act.value \in Range(FreqArray) /\ act.set_value \in Range(FreqArray)
         /\ act.cur_index \in DOMAIN FreqArray
    /\ decision_f \in Decisions /\ old_error \in Int
    /\ pc \in {"poll", "decide", "act", "after"}
    /\ i \in 0..(CoreCount + 3) /\ acted \in BOOLEAN
    /\ rate \in Rates /\ fresh \in 0..(Window + 1) /\ wait \in 0..Window
    /\ app \in {"up", "down"} /\ failed \in BOOLEAN /\ stair \in BOOLEAN
    /\ retried \in BOOLEAN /\ behind \subseteq Cores
    /\ mixed \in Nat /\ lag \in Nat

\* How many cores is asked for, however failed actions, their retries and new
\* decisions interleave: core_heuristics counts on from a set_value whose action
\* failed, without a bound.
AskedInRange ==
    ~failed \/ decision_f \notin {"core_heuristics", "uncoordinated_heuristics"} =>
        core_act.set_value \in 1..CoreCount

\* Between one core and all of them are asked for, but for core_heuristics after a
\* failure; and however far that strays, value counts the cores the application
\* has: a taskset with a count below 1 never works, and one above the number of
\* cores gives it all of them.
CoresCounted == AskedInRange /\ Cardinality(mask) = Lower(core_act.value, CoreCount)

\* step_heuristics looks at the last core only; if it found the others at the top
\* frequency they are there, on the machine, whenever the service polls.
StaircaseKept == pc = "poll" /\ stair /\ decision_f = "step_heuristics" => Staircase

\* The decision functions that set one frequency for all cores.
Global == {"freq_heuristics", "uncoordinated_heuristics"}

\* Each core's actuator shows what the core runs at, whatever failed, unless it is the
\* global one that sets the cores.
FreqsKnown == decision_f \notin Global => \A c \in Cores : freq_act[c].value = hw[c]

\* The controllers of the machine speed start each decision from the speed of the
\* last one.  The service never reads the sum of what the cores run at, but at every
\* poll the value is that sum, also when some of the actions have failed; but not from
\* a turn on in which an action that had failed was run again (combined.c:774) and no
\* new speed was asked for, where it is not computed anew (780), to the next that asks
\* for one.
SpeedKnown ==
    pc = "poll" /\ decision_f \in MachineControllers /\ ~retried
        /\ mask = 0..(core_act.value - 1)
    => speed_act.value = SumFunctionOnSet(hw, mask)

\* The global actuator reads core 0 only: what it shows is the frequency of all cores
\* but those that its last setting, cut short by a failure, or none, has reached.
GlobalUniform ==
    decision_f \in Global => \A c \in Cores \ behind : hw[c] = gfreq_act.value

\* The types, and what the service believes of the machine without reading all of
\* it, through failed actions: the frequency of each core, the speed the controllers
\* start from, and the one global frequency.
ValuesKnown == TypeOK /\ FreqsKnown /\ SpeedKnown /\ GlobalUniform

\* The speed that there is, as the actuators show it, and that they are set to.
SpeedNow ==
    IF decision_f \in Global THEN core_act.value * gfreq_act.value
    ELSE get_current_speed(core_act, freq_act)
PlannedSpeed ==
    IF decision_f \in Global THEN core_act.set_value * gfreq_act.set_value
    ELSE SumFunctionOnSet([c \in Cores |-> freq_act[c].set_value],
                          {c \in Cores : c < core_act.set_value})

\* As long as no action has failed, no decision goes the wrong way: too slow a rate
\* never plans less speed than there is, too fast a rate never more, with any of the
\* decision functions, although a controller's speed is rounded to a state of the
\* table.  (The integral part of the pseudo PI controllers may.  An action that failed
\* is run again whatever the next decision wants, so afterwards this does not hold.)
\* The speed a controller finds at its start need not be one of the table, and is
\* rounded either way; every speed it plans after that is one.
RightWay ==
    pc = "act" /\ i = 1 /\ ~failed /\ ~Integral
        /\ (decision_f \in MachineControllers => speed_act.value \in Range(Speeds))
    => /\ TooSlow => PlannedSpeed >= SpeedNow
       /\ TooFast => PlannedSpeed <= SpeedNow
       /\ speed_act.set_value # speed_act.value => PlannedSpeed \in Range(Speeds)

\* Which beats a decision is based on: of the intervals between beats that are in the
\* window of its record, one began before the last change, the one the change was made
\* in, and besides it only as many as the application beat while the service, on an
\* older record, was on its way to the change.
WholeWindow == pc = "decide" => mixed <= lag + 1
-----------------------------------------------------------------------------
(* Liveness, under FairSpec *)

AtMaximum ==
    CASE decision_f \in {"core_heuristics", "core_p_controller"} -> mask = Cores
      [] decision_f = "freq_heuristics" -> hw[0] = Top
      [] decision_f = "uncoordinated_heuristics" -> mask = Cores /\ hw[0] = Top
      [] decision_f = "step_heuristics" -> mask = Cores /\ hw[CoreCount - 1] = Top
      [] decision_f \in MachineControllers
            -> SumFunctionOnSet(hw, mask) = Speeds[LastOf(Speeds)]
      [] OTHER -> TRUE

\* An application whose rate stays below the target is given all that the
\* decision function can give, and keeps it, unless it ends.  (The global
\* actuator takes core 0 for all of them; step_heuristics raises only cores it
\* has seen last.)
AllGiven == <>[]AtMaximum \/ <>(app = "down")
=============================================================================
