--------------------------- MODULE CombinedProofs ----------------------------
(***************************************************************************)
(* The service of combined.c, for every machine, table of states, target,  *)
(* gain and window, with every decision function, and with actions that    *)
(* may fail.                                                               *)
(*                                                                         *)
(* The service keeps a set_value and a value for each actuator, and hardly *)
(* ever looks at the machine.  What it believes is true because of three   *)
(* things the invariant says at each place of the loop: which actuators    *)
(* the decision function leaves alone (Quiet), which of the others have    *)
(* had their turn and show what was asked of them (Settled), and what is   *)
(* true of the values in between (SpeedAtHand, Tracked, Uniform, Stairs,   *)
(* Windows).                                                               *)
(***************************************************************************)
EXTENDS Combined, SpeedTableProofs

Freqs    == Range(FreqArray)
Setting  == [value : Freqs, set_value : Freqs, cur_index : DOMAIN FreqArray]
Counting == {"core_heuristics", "uncoordinated_heuristics"}
Same(act) == act.set_value = act.value

\* The types, with those of the actuators as records.
Shape ==
    /\ hw \in [Cores -> Freqs]
    /\ mask \in (SUBSET Cores) \ {{}}
    /\ speed_act \in Actuator /\ core_act \in Actuator
    /\ freq_act \in [Cores -> Setting] /\ gfreq_act \in Setting
    /\ decision_f \in Decisions /\ old_error \in Int
    /\ pc \in {"poll", "decide", "act", "after"}
    /\ i \in 0..(CoreCount + 3) /\ acted \in BOOLEAN
    /\ pc = "act" => i # CoreCount + 3
    /\ pc = "after" => i = CoreCount + 3
    /\ rate \in Rates /\ fresh \in 0..(Window + 1) /\ wait \in 0..Window
    /\ app \in {"up", "down"} /\ failed \in BOOLEAN /\ stair \in BOOLEAN
    /\ retried \in BOOLEAN /\ behind \subseteq Cores
    /\ mixed \in Nat /\ lag \in Nat

\* value counts the cores of the application, and is in range where set_value is.
Counted ==
    /\ core_act.value >= 1
    /\ Cardinality(mask) = Lower(core_act.value, CoreCount)
    /\ ~failed \/ decision_f \notin Counting =>
         core_act.value <= CoreCount /\ core_act.set_value \in 1..CoreCount

\* What the decision function makes no use of stands still; the frequencies of
\* the cores are read back where the global actuator does not set them; and
\* cur_index follows set_value where nothing but ToIndex sets it.
Quiet ==
    /\ decision_f \notin MachineControllers => Same(speed_act)
    /\ decision_f \notin Global => Same(gfreq_act)
    /\ decision_f \notin Global => \A c \in Cores : freq_act[c].value = hw[c]
    /\ decision_f \in Global => \A c \in Cores : Same(freq_act[c])
    /\ decision_f = "freq_heuristics" => Same(core_act)
    /\ decision_f \in Global => FreqArray[gfreq_act.cur_index] = gfreq_act.set_value
    /\ decision_f = "step_heuristics" =>
         \A c \in Cores : FreqArray[freq_act[c].cur_index] = freq_act[c].set_value

\* Unless an action failed, the actuators that have had their turn show what was
\* asked of them.
Settled ==
    ~failed => /\ \A c \in Cores : pc # "act" \/ c + 1 < i => Same(freq_act[c])
               /\ pc # "act" \/ i > CoreCount + 1 => Same(gfreq_act)
               /\ pc # "act" => Same(core_act)

\* The speed is the sum of the values, but where another speed was asked for and
\* is being set.
Still == Same(core_act) /\ \A c \in Cores : Same(freq_act[c])
AtHand == pc \in {"poll", "decide"} \/ i = 0 \/ Same(speed_act)
SpeedAtHand ==
    ~failed /\ decision_f \in MachineControllers /\ AtHand
    => Still /\ speed_act.value = get_current_speed(core_act, freq_act)

\* The same through failures, as long as the speed is read again after every turn
\* that has acted.
Tracked ==
    decision_f \in MachineControllers /\ ~retried /\ (pc \in {"poll", "decide"} \/ ~acted)
    => speed_act.value = get_current_speed(core_act, freq_act)

\* Core 0, which the global actuator reads back, is one of those its last setting
\* has reached, and they are alike.
Uniform ==
    decision_f \in Global =>
        0 \notin behind /\ \A c \in Cores \ behind : hw[c] = gfreq_act.value

\* The beats to wait for cover those measured in part under the old setting, but for
\* the one that ends the interval of the change and those of before it.
ToCome == CASE pc = "poll" -> wait
            [] pc = "decide" -> 0
            [] OTHER -> IF acted THEN Window ELSE 0
Windows == mixed <= ToCome + lag + 1

\* The staircase, as far as it is asked for.
Stairs ==
    /\ stair => ~failed
    /\ stair /\ decision_f = "step_heuristics" =>
         /\ mask = 0..(core_act.value - 1)
         /\ \A c \in 0..(core_act.set_value - 2) : freq_act[c].set_value = Top

IInv == /\ Shape /\ Counted /\ Quiet /\ Settled
        /\ SpeedAtHand /\ Tracked /\ Uniform /\ Windows /\ Stairs
-----------------------------------------------------------------------------
\* The constants.
LEMMA Constants ==
    /\ CoreCount \in Nat \ {0} /\ Window \in Nat \ {0}
    /\ Cores = 0..(CoreCount - 1) /\ 0 \in Cores /\ IsFiniteSet(Cores)
    /\ Rates \subseteq Nat \ {0}
    /\ MinRate \in Int /\ MaxRate \in Int /\ Kp \in Int /\ Ki \in Int
    /\ Unreliable \subseteq Decisions
    /\ Decisions \subseteq Heuristics \cup MachineControllers
                               \cup {"dummy_control", "core_p_controller"}
<1>1. IsFiniteSet(0..(CoreCount - 1))
  BY CombinedAssumption, FS_Interval
<1> QED
  BY CombinedAssumption, <1>1 DEF Cores

\* The list of frequencies.
LEMMA List ==
    /\ LastOf(FreqArray) \in Nat /\ FreqCount = LastOf(FreqArray) + 1
    /\ DOMAIN FreqArray = 0..LastOf(FreqArray)
    /\ \A k \in DOMAIN FreqArray : FreqArray[k] \in Freqs
    /\ \A x \in Freqs : \E k \in DOMAIN FreqArray : FreqArray[k] = x
    /\ \A x \in Freqs : x \in Nat /\ x \in Int
    /\ Top \in Freqs
<1>1. /\ LastOf(FreqArray) \in Nat
      /\ FreqArray \in [0..LastOf(FreqArray) -> Nat \ {0}]
  BY CombinedAssumption
<1>2. 0 \in DOMAIN FreqArray
  BY <1>1
<1>3. Freqs = {FreqArray[k] : k \in DOMAIN FreqArray}
  BY DEF Freqs, Range
<1>4. \A x \in Freqs : x \in Nat /\ x \in Int
  BY <1>1, <1>3
<1> QED
  BY <1>1, <1>2, <1>3, <1>4 DEF FreqCount, Top

\* The table of states, and the one that is implemented for a speed.
LEMMA Entries ==
    /\ LastOf(States) \in Nat /\ DOMAIN States = 0..LastOf(States)
    /\ LastOf(Speeds) = LastOf(States)
    /\ Table(Speeds, LastOf(Speeds))
    /\ \A k \in DOMAIN States : Speeds[k] = States[k].speed /\ Speeds[k] \in Nat
<1>1. LastOf(States) \in Nat /\ DOMAIN States = 0..LastOf(States) /\ Increasing(Speeds)
  BY CombinedAssumption
<1>2. DOMAIN Speeds = DOMAIN States /\ \A k \in DOMAIN States : Speeds[k] = States[k].speed
  BY DEF Speeds
<1>3. LastOf(Speeds) = LastOf(States)
  BY <1>2 DEF LastOf
<1>4. ASSUME NEW k \in DOMAIN States PROVE Speeds[k] \in Nat
  <2> DEFINE core == States[k].core
             D == DOMAIN core
  <2>1. /\ States[k].on \in 1..CoreCount
        /\ core \in [0..(States[k].on - 1) -> Freqs]
        /\ Speeds[k] = SumFunctionOnSet(core, D)
    BY <1>2, CombinedAssumption DEF Freqs
  <2>2. D = 0..(States[k].on - 1)
    BY <2>1
  <2>3. IsFiniteSet(D)
    <3>1. States[k].on \in Int
      BY <2>1, Constants
    <3> QED  BY <2>2, <3>1, FS_Interval
  <2>4. \A x \in D : core[x] \in Nat
    BY <2>1, List
  <2> HIDE DEF core, D
  <2> QED  BY <2>1, <2>3, <2>4, SumNat
<1>5. Speeds \in [0..LastOf(Speeds) -> Nat]
  BY <1>1, <1>2, <1>3, <1>4 DEF Speeds
<1> QED
  BY <1>1, <1>2, <1>3, <1>4, <1>5 DEF Table
-----------------------------------------------------------------------------
\* The types, at hand.
LEMMA Types ==
    ASSUME Shape
    PROVE  /\ core_act.value \in Int /\ core_act.set_value \in Int
           /\ speed_act.value \in Int /\ speed_act.set_value \in Int
           /\ gfreq_act.value \in Freqs /\ gfreq_act.set_value \in Freqs
           /\ gfreq_act.cur_index \in DOMAIN FreqArray
           /\ \A c \in Cores : /\ freq_act[c] \in Setting /\ hw[c] \in Freqs
                               /\ freq_act[c].value \in Freqs
                               /\ freq_act[c].set_value \in Freqs
                               /\ freq_act[c].cur_index \in DOMAIN FreqArray
           /\ rate \in Nat /\ fresh \in Nat /\ wait \in Nat
BY Constants DEF Shape, Actuator, Setting

\* The speed is an integer.
LEMMA SpeedType ==
    ASSUME Shape
    PROVE  get_current_speed(core_act, freq_act) \in Int
<1> DEFINE S == {c \in Cores : c < core_act.value}
           g == [c \in Cores |-> freq_act[c].value]
<1>1. IsFiniteSet(S)
  BY Constants, FS_Subset
<1>2. ASSUME NEW c \in S PROVE g[c] \in Int
  <2>1. c \in Cores /\ g[c] = freq_act[c].value
    OBVIOUS
  <2>2. freq_act[c].value \in Freqs
    BY <2>1, Types
  <2>3. freq_act[c].value \in Int
    BY <2>2, List
  <2> QED  BY <2>1, <2>3
<1>3. SumFunctionOnSet(g, S) \in Int
  <2> HIDE DEF S, g
  <2> QED  BY <1>1, <1>2, SumType
<1> QED
  BY <1>3 DEF get_current_speed

\* The cores of the application, when there are no more than there are.
LEMMA FirstCores ==
    ASSUME NEW n \in 1..CoreCount
    PROVE  /\ 0..(n - 1) = {c \in Cores : c < n}
           /\ 0..(n - 1) \cap Cores = 0..(n - 1)
           /\ Cardinality(0..(n - 1)) = n
<1>1. n \in Int
  BY Constants
<1>2. Cardinality(0..(n - 1)) = n
  BY <1>1, FS_Interval
<1> QED
  BY <1>2, Constants

\* The service starts with its actuators as it finds the machine.
LEMMA InitInvariant == Init => IInv
<1> SUFFICES ASSUME Init PROVE IInv
  OBVIOUS
<1>1. hw \in [Cores -> Freqs] /\ mask \in (SUBSET Cores) \ {{}}
  BY DEF Init, Freqs
<1>2. Cardinality(mask) \in 1..CoreCount
  <2>1. IsFiniteSet(mask) /\ Cardinality(mask) <= Cardinality(Cores)
    BY <1>1, Constants, FS_Subset
  <2>2. Cardinality(Cores) = CoreCount
    BY Constants, FS_Interval
  <2>3. Cardinality(mask) \in Nat /\ Cardinality(mask) # 0
    BY <1>1, <2>1, FS_CardinalityType, FS_EmptySet
  <2> QED  BY <2>1, <2>2, <2>3, Constants
<1>3. core_act = [value |-> Cardinality(mask), set_value |-> Cardinality(mask)]
  BY DEF Init, core_init
<1>4. ASSUME NEW c \in Cores
      PROVE  /\ freq_act[c] \in Setting
             /\ freq_act[c].value = hw[c] /\ freq_act[c].set_value = hw[c]
             /\ FreqArray[freq_act[c].cur_index] = hw[c]
  <2>1. freq_act[c] = [value |-> hw[c], set_value |-> hw[c],
                       cur_index |-> get_freq_index(hw[c])]
    BY DEF Init, single_freq_init
  <2>2. hw[c] \in Freqs
    BY <1>1
  <2>3. \E k \in DOMAIN FreqArray : FreqArray[k] = hw[c]
    BY <2>2, List
  <2>4. /\ get_freq_index(hw[c]) \in DOMAIN FreqArray
        /\ FreqArray[get_freq_index(hw[c])] = hw[c]
    BY <2>3 DEF get_freq_index
  <2> QED  BY <2>1, <2>2, <2>4 DEF Setting
<1>5. freq_act \in [Cores -> Setting]
  BY <1>4 DEF Init, single_freq_init
<1>6. gfreq_act \in Setting /\ Same(gfreq_act)
  BY <1>4, Constants DEF Init, global_freq_init, Same
<1>7. core_act \in Actuator /\ core_act.value \in 1..CoreCount /\ Same(core_act)
  BY <1>2, <1>3, Constants DEF Actuator, Same
<1>8. get_current_speed(core_act, freq_act) \in Int
  <2> DEFINE S == {c \in Cores : c < core_act.value}
             g == [c \in Cores |-> freq_act[c].value]
  <2>1. IsFiniteSet(S)
    BY Constants, FS_Subset
  <2>2. ASSUME NEW c \in S PROVE g[c] \in Int
    <3>1. c \in Cores /\ g[c] = freq_act[c].value
      OBVIOUS
    <3>2. g[c] \in Freqs
      BY <1>1, <1>4, <3>1
    <3> QED  BY <3>2, List
  <2>3. SumFunctionOnSet(g, S) \in Int
    <3> HIDE DEF S, g
    <3> QED  BY <2>1, <2>2, SumType
  <2> QED  BY <2>3 DEF get_current_speed
<1>9. /\ speed_act \in Actuator /\ Same(speed_act)
      /\ speed_act.value = get_current_speed(core_act, freq_act)
  BY <1>8 DEF Init, machine_speed_init, Actuator, Same
<1>10. Shape
  <2>1. /\ decision_f \in Decisions /\ old_error = 0 /\ pc = "poll" /\ i = 0
        /\ acted = FALSE /\ rate \in Rates /\ fresh \in 0..(Window + 1)
        /\ wait = Window /\ app = "up" /\ failed = FALSE /\ mixed = 0 /\ lag = 0
        /\ retried = FALSE /\ behind = Cores \ {0}
    BY DEF Init
  <2>2. stair \in BOOLEAN
    BY DEF Init, Staircase
  <2>3. i \in 0..(CoreCount + 3) /\ wait \in 0..Window
    BY <2>1, Constants
  <2>4. pc # "act" /\ pc # "after" /\ fresh \in Nat /\ mixed \in Nat /\ lag \in Nat
        /\ old_error \in Int
    BY <2>1, Constants
  <2> QED  BY <1>1, <1>5, <1>6, <1>7, <1>9, <2>1, <2>2, <2>3, <2>4 DEF Shape
<1>11. Counted
  BY <1>2, <1>3, <1>7, Constants DEF Counted, Lower
<1>12. Quiet /\ Settled
  <2>1. FreqArray[gfreq_act.cur_index] = gfreq_act.set_value
    BY <1>4, Constants DEF Init, global_freq_init
  <2> QED  BY <1>4, <1>6, <1>7, <1>9, <2>1 DEF Quiet, Settled, Same
<1>13. SpeedAtHand /\ Tracked
  BY <1>4, <1>7, <1>9 DEF SpeedAtHand, Still, Same, Tracked
<1>14. Uniform /\ Windows
  <2>1. gfreq_act.value = hw[0] /\ behind = Cores \ {0}
    BY <1>4, Constants DEF Init, global_freq_init
  <2>2. pc = "poll" /\ wait = Window /\ lag = 0 /\ mixed = 0
    BY DEF Init
  <2>3. 0 <= Window + 0 + 1
    BY Constants
  <2> QED  BY <2>1, <2>2, <2>3 DEF Uniform, Windows, ToCome
<1>15. Stairs
  <2>1. stair = Staircase /\ failed = FALSE
    BY DEF Init
  <2> SUFFICES ASSUME stair
               PROVE  /\ mask = 0..(core_act.value - 1)
                      /\ \A c \in 0..(core_act.set_value - 2) : freq_act[c].set_value = Top
    BY <2>1 DEF Stairs
  <2>2. \A c \in 0..(core_act.set_value - 2) : c \in Cores
    BY <1>7, Constants DEF Same
  <2> QED  BY <1>4, <1>7, <2>1, <2>2 DEF Staircase, Same
<1> QED
  BY <1>10, <1>11, <1>12, <1>13, <1>14, <1>15 DEF IInv
-----------------------------------------------------------------------------
\* The application, and a service that waits, change nothing of this.
LEMMA ApplicationStep == ASSUME IInv, Beat \/ Finish \/ UNCHANGED vars PROVE IInv'
<1>1. /\ UNCHANGED <<machine, controls, decision_f, old_error, pc, i, acted, rate,
                     wait, history>>
      /\ fresh' \in 0..(Window + 1) /\ app' \in {"up", "down"}
  BY Constants DEF IInv, Shape, Beat, Finish, vars, Lower
<1>2. /\ hw' = hw /\ mask' = mask /\ speed_act' = speed_act /\ core_act' = core_act
      /\ freq_act' = freq_act /\ gfreq_act' = gfreq_act /\ decision_f' = decision_f
      /\ old_error' = old_error /\ pc' = pc /\ i' = i /\ acted' = acted /\ rate' = rate
      /\ wait' = wait /\ failed' = failed /\ mixed' = mixed /\ lag' = lag /\ stair' = stair
      /\ retried' = retried /\ behind' = behind
  BY <1>1 DEF machine, controls, history, since, failures
<1>3. Shape'
  BY <1>1, <1>2 DEF IInv, Shape
<1>4. Counted' /\ Quiet' /\ Settled'
  BY <1>2 DEF IInv, Counted, Quiet, Settled
<1>5. SpeedAtHand' /\ Tracked'
  BY <1>2 DEF IInv, SpeedAtHand, Tracked, AtHand, Still, get_current_speed
<1>6. Uniform' /\ Windows' /\ Stairs'
  BY <1>2 DEF IInv, Uniform, Windows, ToCome, Stairs
<1> QED
  BY <1>3, <1>4, <1>5, <1>6 DEF IInv

\* A record: the beats to wait for and those still mixed pass together.
LEMMA PollStep == ASSUME IInv, Poll PROVE IInv'
<1>1. /\ hw' = hw /\ mask' = mask /\ speed_act' = speed_act /\ core_act' = core_act
      /\ freq_act' = freq_act /\ gfreq_act' = gfreq_act /\ decision_f' = decision_f
      /\ old_error' = old_error /\ i' = i /\ acted' = acted /\ app' = app
      /\ failed' = failed /\ lag' = lag /\ stair' = stair
      /\ retried' = retried /\ behind' = behind
  BY DEF Poll, machine, controls, failures
<1>2. pc = "poll" /\ pc' \in {"poll", "decide"}
  BY DEF Poll
<1>3. Shape /\ mixed \in Nat /\ fresh \in 0..(Window + 1) /\ wait \in 0..Window
  BY DEF IInv, Shape
<1>4. /\ wait' = IF wait > fresh THEN wait - fresh ELSE 0
      /\ mixed' = IF mixed > fresh THEN mixed - fresh ELSE 0
      /\ pc' = IF wait > fresh THEN "poll" ELSE "decide"
  BY DEF Poll
<1>5. wait' \in 0..Window /\ mixed' \in Nat
  BY <1>3, <1>4, Constants
<1>6. Shape'
  <2>1. rate' \in Rates /\ fresh' \in 0..(Window + 1)
    BY Constants DEF Poll
  <2> QED  BY <1>1, <1>2, <1>3, <1>5, <2>1 DEF Shape
<1>7. Counted' /\ Quiet' /\ Stairs'
  BY <1>1 DEF IInv, Counted, Quiet, Stairs
<1>8. Settled'
  BY <1>1, <1>2 DEF IInv, Settled
<1>9. SpeedAtHand' /\ Tracked'
  BY <1>1, <1>2 DEF IInv, SpeedAtHand, Tracked, AtHand, Still, get_current_speed
<1>10. Uniform'
  BY <1>1 DEF IInv, Uniform
<1>11. Windows'
  <2> SUFFICES mixed' <= ToCome' + lag + 1
    BY <1>1 DEF Windows
  <2>1. mixed <= wait + lag + 1 /\ lag \in Nat
    BY <1>2, <1>3 DEF IInv, Windows, ToCome, Shape
  <2>2. CASE wait > fresh
    <3>1. ToCome' = wait'
      BY <1>4, <2>2 DEF ToCome
    <3> QED  BY <1>3, <1>4, <2>1, <2>2, <3>1, Constants
  <2>3. CASE ~(wait > fresh)
    <3>1. ToCome' = 0
      BY <1>4, <2>3 DEF ToCome
    <3> QED  BY <1>3, <1>4, <2>1, <2>3, <3>1, Constants
  <2> QED  BY <2>2, <2>3
<1> QED
  BY <1>6, <1>7, <1>8, <1>9, <1>10, <1>11 DEF IInv

\* The end of a turn: the speed is read again if it is not the one asked for.
LEMMA AfterStep == ASSUME IInv, After PROVE IInv'
<1>1. /\ hw' = hw /\ mask' = mask /\ core_act' = core_act
      /\ freq_act' = freq_act /\ gfreq_act' = gfreq_act /\ decision_f' = decision_f
      /\ old_error' = old_error /\ i' = i /\ acted' = acted /\ rate' = rate
      /\ fresh' = fresh /\ app' = app /\ failed' = failed /\ mixed' = mixed
      /\ lag' = lag /\ stair' = stair /\ behind' = behind
  BY DEF After, machine, since, failures
<1>2. pc = "after" /\ pc' = "poll" /\ wait' = Skip /\ speed_act' = UpdatedSpeed
  BY DEF After
<1>3. Shape /\ i = CoreCount + 3
  BY <1>2 DEF IInv, Shape
<1>4. \/ Same(speed_act) /\ speed_act' = speed_act
      \/ /\ ~Same(speed_act)
         /\ speed_act' \in Actuator
         /\ speed_act'.value = get_current_speed(core_act, freq_act)
  <2>1. get_current_speed(core_act, freq_act) \in Int /\ speed_act \in Actuator
    BY <1>3, SpeedType DEF Shape
  <2> QED  BY <1>2, <2>1 DEF UpdatedSpeed, Same, Actuator
<1>5. Shape'
  <2>1. Skip \in 0..Window
    BY <1>3, Constants DEF Skip, Shape
  <2>2. retried' \in BOOLEAN
    BY <1>3 DEF After, Shape
  <2> QED  BY <1>1, <1>2, <1>3, <1>4, <2>1, <2>2 DEF Shape
<1>6. Counted' /\ Stairs'
  BY <1>1 DEF IInv, Counted, Stairs
<1>7. Quiet'
  BY <1>1, <1>4 DEF IInv, Quiet
<1>8. Settled'
  BY <1>1, <1>2 DEF IInv, Settled
<1>9. SpeedAtHand'
  <2> SUFFICES ASSUME ~failed, decision_f \in MachineControllers
               PROVE  Still /\ speed_act'.value = get_current_speed(core_act, freq_act)
    BY <1>1 DEF SpeedAtHand, Still, get_current_speed
  <2>1. Still
    BY <1>2 DEF IInv, Settled, Still
  <2>2. Same(speed_act) => speed_act.value = get_current_speed(core_act, freq_act)
    BY <1>2 DEF IInv, SpeedAtHand, AtHand
  <2> QED  BY <1>4, <2>1, <2>2
<1>10. Uniform'
  BY <1>1 DEF IInv, Uniform
<1>11. Windows'
  <2> SUFFICES mixed <= wait' + lag + 1
    BY <1>1, <1>2 DEF Windows, ToCome
  <2>1. mixed <= (IF acted THEN Window ELSE 0) + lag + 1
    BY <1>2 DEF IInv, Windows, ToCome
  <2>2. mixed \in Nat /\ lag \in Nat /\ acted \in BOOLEAN
    BY <1>3 DEF Shape
  <2> QED  BY <1>2, <2>1, <2>2, Constants DEF Skip
\* No new speed: nothing was done in this turn, or it is known as a retry.
<1>12. Tracked'
  <2> SUFFICES ASSUME decision_f \in MachineControllers, ~retried'
               PROVE  speed_act'.value = get_current_speed(core_act, freq_act)
    BY <1>1 DEF Tracked, get_current_speed
  <2>1. CASE Same(speed_act)
    <3>1. retried' = (retried \/ acted)
      BY <2>1 DEF After, Same
    <3>2. ~retried /\ ~acted
      BY <3>1
    <3>3. speed_act.value = get_current_speed(core_act, freq_act)
      BY <3>2 DEF IInv, Tracked
    <3> QED  BY <1>4, <2>1, <3>3
  <2>2. CASE ~Same(speed_act)
    BY <1>4, <2>2
  <2> QED  BY <2>1, <2>2
<1> QED
  BY <1>5, <1>6, <1>7, <1>8, <1>9, <1>10, <1>11, <1>12 DEF IInv
-----------------------------------------------------------------------------
(* The decision functions *)

\* core_heuristics moves set_value by one, towards where value has room.
LEMMA CoreHeuristics ==
    ASSUME Shape
    PROVE  LET new == core_heuristics(core_act)
           IN  /\ new \in Actuator /\ new.value = core_act.value
               /\ \/ /\ TooSlow /\ core_act.value < CoreCount
                     /\ new.set_value = core_act.set_value + 1
                  \/ /\ TooFast /\ core_act.value > 1
                     /\ new.set_value = core_act.set_value - 1
                  \/ new = core_act /\ (TooSlow => core_act.value >= CoreCount)
                                    /\ (TooFast => core_act.value <= 1)
<1>1. core_act \in [value : Int, set_value : Int]
  BY DEF Shape, Actuator
<1>2. CoreCount \in Int
  BY Constants
<1>3. CASE TooSlow /\ core_act.value < CoreCount
  BY <1>1, <1>3 DEF core_heuristics, Actuator
<1>4. CASE ~(TooSlow /\ core_act.value < CoreCount) /\ TooFast /\ core_act.value > 1
  <2>1. core_heuristics(core_act) = [core_act EXCEPT !.set_value = core_act.set_value - 1]
    BY <1>4 DEF core_heuristics
  <2> QED  BY <1>1, <1>2, <1>4, <2>1 DEF Actuator
<1>5. CASE ~(TooSlow /\ core_act.value < CoreCount) /\ ~(TooFast /\ core_act.value > 1)
  <2>1. core_heuristics(core_act) = core_act
    BY <1>1, <1>5 DEF core_heuristics
  <2> QED  BY <1>1, <1>2, <1>5, <2>1 DEF Actuator
<1> QED
  BY <1>3, <1>4, <1>5

\* A setting that goes to an entry of the list.
LEMMA Indexed ==
    ASSUME NEW act \in Setting, NEW k \in DOMAIN FreqArray
    PROVE  /\ ToIndex(act, k) \in Setting
           /\ ToIndex(act, k).value = act.value
           /\ ToIndex(act, k).set_value = FreqArray[k]
           /\ ToIndex(act, k).cur_index = k
BY List DEF ToIndex, Setting

\* freq_heuristics goes one step up or down the list, with cur_index, and leaves the
\* value as it is.
LEMMA FreqHeuristics ==
    ASSUME NEW act \in Setting
    PROVE  LET new == freq_heuristics(act)
               k   == act.cur_index
           IN  /\ new \in Setting /\ new.value = act.value
               /\ \/ /\ TooSlow /\ k - 1 \in DOMAIN FreqArray /\ k - 1 < k
                     /\ new = ToIndex(act, k - 1)
                  \/ /\ TooFast /\ k + 1 \in DOMAIN FreqArray /\ k < k + 1
                     /\ new = ToIndex(act, k + 1)
                  \/ new = act
               /\ FreqArray[act.cur_index] = act.set_value =>
                    FreqArray[new.cur_index] = new.set_value
<1>1. act.cur_index \in 0..LastOf(FreqArray) /\ LastOf(FreqArray) \in Nat
  BY List DEF Setting
<1>2. CASE TooSlow /\ act.cur_index > 0
  <2>1. act.cur_index - 1 \in DOMAIN FreqArray /\ act.cur_index - 1 < act.cur_index
    BY <1>1, <1>2, List
  <2> QED  BY <1>2, <2>1, Indexed DEF freq_heuristics
<1>3. CASE ~(TooSlow /\ act.cur_index > 0) /\ TooFast /\ act.cur_index < FreqCount - 1
  <2>1. act.cur_index + 1 \in DOMAIN FreqArray /\ act.cur_index < act.cur_index + 1
    BY <1>1, <1>3, List
  <2> QED  BY <1>3, <2>1, Indexed DEF freq_heuristics
<1>4. CASE /\ ~(TooSlow /\ act.cur_index > 0)
           /\ ~(TooFast /\ act.cur_index < FreqCount - 1)
  BY <1>4 DEF freq_heuristics
<1> QED
  BY <1>2, <1>3, <1>4

\* step_heuristics goes one step up or down the list with the last core, adds a
\* core once the last one is at the top, or takes one away.
LEMMA StepHeuristics ==
    ASSUME Shape, core_act.value \in 1..CoreCount
    PROVE  LET new  == step_heuristics(freq_act, core_act)
               last == core_act.value - 1
               k    == freq_act[last].cur_index
           IN  \/ /\ TooSlow /\ k - 1 \in DOMAIN FreqArray /\ new.core = core_act
                  /\ new.freqs = [freq_act EXCEPT ![last] = ToIndex(freq_act[last], k - 1)]
               \/ /\ TooFast /\ k + 1 \in DOMAIN FreqArray /\ new.core = core_act
                  /\ new.freqs = [freq_act EXCEPT ![last] = ToIndex(freq_act[last], k + 1)]
                  /\ ~TooSlow
               \/ /\ TooSlow /\ k = 0 /\ last + 1 \in Cores
                  /\ new.core = [core_act EXCEPT !.set_value = core_act.value + 1]
                  /\ new.freqs = [freq_act EXCEPT ![last + 1] =
                                    ToIndex(freq_act[last + 1], FreqCount - 1)]
               \/ /\ TooFast /\ last > 0 /\ new.freqs = freq_act /\ ~TooSlow
                  /\ new.core = [core_act EXCEPT !.set_value = core_act.value - 1]
               \/ new.freqs = freq_act /\ new.core = core_act
<1> DEFINE new  == step_heuristics(freq_act, core_act)
           last == core_act.value - 1
           k    == freq_act[last].cur_index
<1>1. last \in Int /\ last \in Cores /\ CoreCount \in Int /\ Cores = 0..(CoreCount - 1)
  BY Constants
<1>2. k \in 0..LastOf(FreqArray) /\ LastOf(FreqArray) \in Nat
  <2>1. k \in DOMAIN FreqArray
    BY <1>1, Types
  <2> QED  BY <2>1, List
<1>3. DOMAIN FreqArray = 0..LastOf(FreqArray) /\ FreqCount - 1 = LastOf(FreqArray)
  BY <1>2, List
<1>4. CASE TooSlow /\ k > 0
  <2>1. /\ new.freqs = [freq_act EXCEPT ![last] = ToIndex(freq_act[last], k - 1)]
        /\ new.core = core_act
    BY <1>4 DEF step_heuristics
  <2>2. k - 1 \in DOMAIN FreqArray
    BY <1>2, <1>3, <1>4
  <2> QED  BY <1>4, <2>1, <2>2
<1>5. CASE TooSlow /\ ~(k > 0) /\ last < CoreCount - 1
  <2>1. /\ new.core = [core_act EXCEPT !.set_value = core_act.value + 1]
        /\ new.freqs = [freq_act EXCEPT ![last + 1] =
                          ToIndex(freq_act[last + 1], FreqCount - 1)]
    BY <1>5 DEF step_heuristics
  <2>2. k = 0 /\ last + 1 \in Cores
    <3> HIDE DEF last, k
    <3> QED  BY <1>1, <1>2, <1>5
  <2> QED  BY <1>5, <2>1, <2>2
<1>6. CASE TooSlow /\ ~(k > 0) /\ ~(last < CoreCount - 1)
  <2>1. new.freqs = freq_act /\ new.core = core_act
    BY <1>6 DEF step_heuristics
  <2> QED  BY <2>1
<1>7. CASE ~TooSlow /\ TooFast /\ k < FreqCount - 1
  <2>1. /\ new.freqs = [freq_act EXCEPT ![last] = ToIndex(freq_act[last], k + 1)]
        /\ new.core = core_act
    BY <1>7 DEF step_heuristics
  <2>2. k + 1 \in DOMAIN FreqArray
    BY <1>2, <1>3, <1>7
  <2> QED  BY <1>7, <2>1, <2>2
<1>8. CASE ~TooSlow /\ TooFast /\ ~(k < FreqCount - 1) /\ last > 0
  <2>1. /\ new.freqs = freq_act
        /\ new.core = [core_act EXCEPT !.set_value = core_act.value - 1]
    BY <1>8 DEF step_heuristics
  <2> QED  BY <1>8, <2>1
<1>9. CASE ~TooSlow /\ ~(TooFast /\ (k < FreqCount - 1 \/ last > 0))
  <2>1. new.freqs = freq_act /\ new.core = core_act
    BY <1>9 DEF step_heuristics
  <2> QED  BY <2>1
<1> QED
  BY <1>4, <1>5, <1>6, <1>7, <1>8, <1>9

LEMMA Clipped ==
    ASSUME NEW v \in Int, NEW min \in Int, NEW max \in Int
    PROVE  /\ Clip(v, min, max) \in Int
           /\ min <= max => min <= Clip(v, min, max) /\ Clip(v, min, max) <= max
           /\ min <= v => Clip(v, min, max) <= v
           /\ v <= max => v <= Clip(v, min, max)
           /\ max < v => Clip(v, min, max) >= max \/ max < min
           /\ v < min => Clip(v, min, max) = min
BY DEF Clip

LEMMA PushType == ASSUME Shape PROVE Error \in Int /\ Push \in Int
<1>1. rate \in Int /\ old_error \in Int
  BY Types DEF Shape
<1>2. MinRate \in Int /\ MaxRate \in Int /\ Kp \in Int /\ Ki \in Int
  BY Constants
<1>3. Error \in Int
  BY <1>1, <1>2 DEF Error
<1>4. \A a, b \in Int : a * b \in Int /\ a + b \in Int
  OBVIOUS
<1>5. Kp * Error \in Int /\ (IF Integral THEN Ki * old_error ELSE 0) \in Int
  BY <1>1, <1>2, <1>3, <1>4
<1> QED
  BY <1>3, <1>4, <1>5 DEF Push

\* The controllers stay in the range of their actuators.
LEMMA CoreController ==
    ASSUME Shape
    PROVE  LET new == core_p_controller(core_act)
           IN  /\ new \in Actuator /\ new.value = core_act.value
               /\ new.set_value = Clip(core_act.value + Push, 1, CoreCount)
               /\ new.set_value \in 1..CoreCount
<1> DEFINE s == Clip(core_act.value + Push, 1, CoreCount)
<1>1. core_act.value + Push \in Int /\ CoreCount \in Int /\ 1 <= CoreCount
  BY Types, PushType, Constants
<1>2. s \in Int /\ 1 <= s /\ s <= CoreCount
  <2> DEFINE w == core_act.value + Push
  <2>1. w \in Int /\ CoreCount \in Int /\ 1 <= CoreCount
    BY <1>1
  <2> HIDE DEF w
  <2>2. /\ Clip(w, 1, CoreCount) \in Int
        /\ 1 <= Clip(w, 1, CoreCount) /\ Clip(w, 1, CoreCount) <= CoreCount
    BY <2>1 DEF Clip
  <2> QED  BY <2>2 DEF w
<1>3. core_act \in [value : Int, set_value : Int]
  BY DEF Shape, Actuator
<1>4. core_p_controller(core_act) = [core_act EXCEPT !.set_value = s]
  BY DEF core_p_controller
<1> HIDE DEF s
<1>5. /\ core_p_controller(core_act) \in Actuator
      /\ core_p_controller(core_act).value = core_act.value
      /\ core_p_controller(core_act).set_value = s
  BY <1>2, <1>3, <1>4 DEF Actuator
<1>6. s \in 1..CoreCount
  BY <1>1, <1>2
<1> QED
  BY <1>5, <1>6 DEF s

LEMMA SpeedController ==
    ASSUME Shape
    PROVE  LET new == machine_state_controller(speed_act)
           IN  /\ new \in Actuator /\ new.value = speed_act.value
               /\ new.set_value = Clip(speed_act.value + Push, Speeds[0], Speeds[LastOf(Speeds)])
<1> DEFINE s == Clip(speed_act.value + Push, Speeds[0], Speeds[LastOf(Speeds)])
<1>1. speed_act.value + Push \in Int /\ Speeds[0] \in Int /\ Speeds[LastOf(Speeds)] \in Int
  <2>1. 0 \in DOMAIN States /\ LastOf(Speeds) \in DOMAIN States
    BY Entries
  <2>2. Speeds[0] \in Nat /\ Speeds[LastOf(Speeds)] \in Nat
    BY <2>1, Entries
  <2>3. speed_act.value \in Int /\ Push \in Int
    BY Types, PushType
  <2> QED  BY <2>2, <2>3
<1>2. s \in Int
  BY <1>1, Clipped
<1>3. speed_act \in [value : Int, set_value : Int]
  BY DEF Shape, Actuator
<1>4. machine_state_controller(speed_act) = [speed_act EXCEPT !.set_value = s]
  BY DEF machine_state_controller
<1> HIDE DEF s
<1> QED
  BY <1>2, <1>3, <1>4 DEF Actuator, s

\* What a decision asks for.
LEMMA Decided ==
    ASSUME IInv, Decide
    PROVE  /\ core_act' \in Actuator /\ core_act'.value = core_act.value
           /\ ~failed \/ decision_f \notin Counting => core_act'.set_value \in 1..CoreCount
           /\ decision_f = "freq_heuristics" => core_act' = core_act
           /\ freq_act' \in [Cores -> Setting]
           /\ \A c \in Cores : freq_act'[c].value = freq_act[c].value
           /\ decision_f # "step_heuristics" => freq_act' = freq_act
           /\ decision_f = "step_heuristics" =>
                \A c \in Cores : FreqArray[freq_act'[c].cur_index] = freq_act'[c].set_value
           /\ gfreq_act' \in Setting /\ gfreq_act'.value = gfreq_act.value
           /\ decision_f \notin Global => gfreq_act' = gfreq_act
           /\ decision_f \in Global =>
                gfreq_act' = freq_heuristics(gfreq_act)
                /\ FreqArray[gfreq_act'.cur_index] = gfreq_act'.set_value
           /\ speed_act' \in Actuator /\ speed_act'.value = speed_act.value
           /\ decision_f \notin MachineControllers => speed_act' = speed_act
           /\ decision_f \in MachineControllers => core_act' = core_act
<1>1. Shape /\ Counted /\ Quiet /\ Settled /\ pc = "decide"
  BY DEF IInv, Decide
<1>2. /\ decision_f \in Counting => core_act' = core_heuristics(core_act)
      /\ decision_f = "step_heuristics" =>
           core_act' = step_heuristics(freq_act, core_act).core
      /\ decision_f = "core_p_controller" => core_act' = core_p_controller(core_act)
      /\ decision_f \notin Counting \cup {"step_heuristics", "core_p_controller"} =>
           core_act' = core_act
  BY DEF Decide, Counting
<1>3. core_act \in Actuator /\ core_act \in [value : Int, set_value : Int]
  BY <1>1 DEF Shape, Actuator
<1>4. freq_act \in [Cores -> Setting]
  BY <1>1 DEF Shape
<1>5. CoreCount \in Int
  BY Constants
<1>6. decision_f \in Global =>
        /\ gfreq_act' = freq_heuristics(gfreq_act)
        /\ FreqArray[gfreq_act'.cur_index] = gfreq_act'.set_value
  <2> SUFFICES ASSUME decision_f \in Global
               PROVE  /\ gfreq_act' = freq_heuristics(gfreq_act)
                      /\ FreqArray[gfreq_act'.cur_index] = gfreq_act'.set_value
    OBVIOUS
  <2>1. gfreq_act' = freq_heuristics(gfreq_act)
    BY DEF Decide, Global
  <2>2. gfreq_act \in Setting /\ FreqArray[gfreq_act.cur_index] = gfreq_act.set_value
    BY <1>1 DEF Shape, Quiet
  <2> QED  BY <2>1, <2>2, FreqHeuristics
<1>7. CASE decision_f \in Counting
  <2>1. core_act' = core_heuristics(core_act)
    BY <1>2, <1>7
  <2>2. core_act' \in Actuator /\ core_act'.value = core_act.value
    BY <1>1, <2>1, CoreHeuristics
  <2>3. ASSUME ~failed PROVE core_act'.set_value \in 1..CoreCount
    <3>1. /\ core_act.value <= CoreCount /\ core_act.set_value \in 1..CoreCount
          /\ core_act.set_value = core_act.value
      BY <1>1, <2>3 DEF Counted, Settled, Same
    <3> QED  BY <1>1, <1>3, <1>5, <2>1, <3>1, CoreHeuristics
  <2>4. freq_act' = freq_act
    BY <1>7 DEF Decide, Counting
  <2>5. decision_f # "freq_heuristics" /\ decision_f # "step_heuristics"
        /\ decision_f \notin MachineControllers
    BY <1>7 DEF Counting, MachineControllers
  <2>6. gfreq_act' \in Setting /\ gfreq_act'.value = gfreq_act.value
        /\ (decision_f \notin Global => gfreq_act' = gfreq_act)
    BY <1>1, FreqHeuristics DEF Decide, Global, Shape
  <2>7. speed_act' = speed_act /\ speed_act \in Actuator
    BY <1>1, <2>5 DEF Decide, Shape
  <2> QED
    BY <1>4, <1>6, <1>7, <2>2, <2>3, <2>4, <2>5, <2>6, <2>7
<1>8. CASE decision_f = "step_heuristics"
  <2> DEFINE last == core_act.value - 1
             k    == freq_act[last].cur_index
  <2>1. decision_f \notin Counting /\ decision_f \notin Global
        /\ decision_f \notin MachineControllers
    BY <1>8 DEF Counting, Global, MachineControllers
  <2>2. core_act.value \in 1..CoreCount /\ core_act.set_value \in 1..CoreCount
    BY <1>1, <1>3, <1>5, <2>1 DEF Counted
  <2>3. last \in Cores /\ DOMAIN freq_act = Cores
    BY <1>4, <2>2, Constants
  <2>4. \A c \in Cores : FreqArray[freq_act[c].cur_index] = freq_act[c].set_value
    BY <1>1, <1>8 DEF Quiet
  <2>5. /\ core_act' = step_heuristics(freq_act, core_act).core
        /\ freq_act' = step_heuristics(freq_act, core_act).freqs
    BY <1>2, <1>8 DEF Decide
  <2>6. /\ core_act' \in Actuator /\ core_act'.value = core_act.value
        /\ core_act'.set_value \in 1..CoreCount
    <3>1. \/ core_act' = core_act
          \/ /\ last + 1 \in Cores
             /\ core_act' = [core_act EXCEPT !.set_value = core_act.value + 1]
          \/ /\ last > 0
             /\ core_act' = [core_act EXCEPT !.set_value = core_act.value - 1]
      BY <1>1, <2>2, <2>5, StepHeuristics
    <3>2. last + 1 \in Cores => core_act.value + 1 \in 1..CoreCount
      BY <1>5, <2>2, Constants
    <3>3. last > 0 => core_act.value - 1 \in 1..CoreCount
      BY <1>5, <2>2
    <3>4. \A s \in 1..CoreCount : s \in Int
      BY <1>5
    <3> HIDE DEF last
    <3> QED  BY <1>3, <2>2, <3>1, <3>2, <3>3, <3>4 DEF Actuator
  <2>7. freq_act' = freq_act \/ \E c \in Cores, j \in DOMAIN FreqArray :
                                  freq_act' = [freq_act EXCEPT ![c] = ToIndex(freq_act[c], j)]
    <3>1. FreqCount - 1 \in DOMAIN FreqArray
      BY List
    <3> QED  BY <1>1, <2>2, <2>3, <2>5, <3>1, StepHeuristics
  <2>8. /\ freq_act' \in [Cores -> Setting]
        /\ \A c \in Cores : freq_act'[c].value = freq_act[c].value
        /\ \A c \in Cores : FreqArray[freq_act'[c].cur_index] = freq_act'[c].set_value
    <3>1. CASE freq_act' = freq_act
      BY <1>4, <2>4, <3>1
    <3>2. ASSUME NEW c \in Cores, NEW j \in DOMAIN FreqArray,
                 freq_act' = [freq_act EXCEPT ![c] = ToIndex(freq_act[c], j)]
          PROVE  /\ freq_act' \in [Cores -> Setting]
                 /\ \A d \in Cores : freq_act'[d].value = freq_act[d].value
                 /\ \A d \in Cores : FreqArray[freq_act'[d].cur_index] = freq_act'[d].set_value
      <4>1. freq_act[c] \in Setting
        BY <1>4
      <4>2. /\ ToIndex(freq_act[c], j) \in Setting
            /\ ToIndex(freq_act[c], j).value = freq_act[c].value
            /\ ToIndex(freq_act[c], j).set_value = FreqArray[j]
            /\ ToIndex(freq_act[c], j).cur_index = j
        BY <4>1, Indexed
      <4>3. \A d \in Cores : freq_act'[d] = IF d = c THEN ToIndex(freq_act[c], j)
                                            ELSE freq_act[d]
        BY <1>4, <3>2
      <4>4. freq_act' \in [Cores -> Setting]
        BY <1>4, <3>2, <4>2
      <4> QED  BY <2>4, <4>2, <4>3, <4>4
    <3> QED  BY <2>7, <3>1, <3>2
  <2>9. gfreq_act' = gfreq_act /\ speed_act' = speed_act
        /\ gfreq_act \in Setting /\ speed_act \in Actuator
    BY <1>1, <1>8 DEF Decide, MachineControllers, Shape
  <2> QED
    BY <1>8, <2>1, <2>6, <2>8, <2>9
<1>9. CASE decision_f \notin Counting /\ decision_f # "step_heuristics"
  <2>1. freq_act' = freq_act
    BY <1>9 DEF Decide
  <2>2. /\ core_act.set_value \in 1..CoreCount
        /\ decision_f # "core_p_controller" => core_act' = core_act
        /\ decision_f = "core_p_controller" =>
             core_act' = core_p_controller(core_act)
    BY <1>1, <1>2, <1>9 DEF Counted
  <2>3. /\ core_act' \in Actuator /\ core_act'.value = core_act.value
        /\ core_act'.set_value \in 1..CoreCount
    BY <1>1, <1>3, <2>2, CoreController
  <2>4. /\ gfreq_act' \in Setting /\ gfreq_act'.value = gfreq_act.value
        /\ decision_f \notin Global => gfreq_act' = gfreq_act
    BY <1>1, FreqHeuristics DEF Decide, Global, Shape
  <2>5. /\ speed_act' \in Actuator /\ speed_act'.value = speed_act.value
        /\ decision_f \notin MachineControllers => speed_act' = speed_act
    <3>1. speed_act' = IF decision_f \in MachineControllers
                         THEN machine_state_controller(speed_act) ELSE speed_act
      BY DEF Decide
    <3>2. speed_act \in Actuator
      BY <1>1 DEF Shape
    <3> QED  BY <1>1, <3>1, <3>2, SpeedController
  <2>6. /\ decision_f = "freq_heuristics" => core_act' = core_act
        /\ decision_f \in MachineControllers => core_act' = core_act
    BY <2>2 DEF MachineControllers
  <2> QED
    BY <1>4, <1>6, <1>9, <2>1, <2>3, <2>4, <2>5, <2>6
<1> QED
  BY <1>7, <1>8, <1>9

LEMMA DecideStep == ASSUME IInv, Decide PROVE IInv'
<1>1. Shape /\ Counted /\ Quiet /\ Settled /\ pc = "decide"
  BY DEF IInv, Decide
<1>2. /\ hw' = hw /\ mask' = mask /\ decision_f' = decision_f /\ rate' = rate
      /\ fresh' = fresh /\ wait' = wait /\ app' = app /\ failed' = failed
      /\ mixed' = mixed /\ lag' = lag /\ stair' = stair
      /\ retried' = retried /\ behind' = behind
      /\ i' = 0 /\ acted' = FALSE /\ pc' = "act"
  BY DEF Decide, machine, history, since, failures
<1>3. old_error' \in Int
  <2>1. Error \in Int /\ old_error \in Int
    BY <1>1, PushType DEF Shape
  <2> QED  BY <2>1 DEF Decide
<1>4. /\ core_act' \in Actuator /\ core_act'.value = core_act.value
      /\ freq_act' \in [Cores -> Setting] /\ gfreq_act' \in Setting
      /\ speed_act' \in Actuator /\ speed_act'.value = speed_act.value
      /\ gfreq_act'.value = gfreq_act.value
      /\ \A c \in Cores : freq_act'[c].value = freq_act[c].value
  BY Decided
<1>5. Shape'
  <2>1. i' \in 0..(CoreCount + 3) /\ i' # CoreCount + 3
    BY <1>2, Constants
  <2> QED  BY <1>1, <1>2, <1>3, <1>4, <2>1 DEF Shape
<1>6. Counted'
  <2>1. ~failed \/ decision_f \notin Counting => core_act'.set_value \in 1..CoreCount
    BY Decided
  <2> QED  BY <1>1, <1>2, <1>4, <2>1 DEF Counted
<1>7. Quiet'
  <2>1. /\ decision_f = "freq_heuristics" => core_act' = core_act
        /\ decision_f # "step_heuristics" => freq_act' = freq_act
        /\ decision_f = "step_heuristics" =>
             \A c \in Cores : FreqArray[freq_act'[c].cur_index] = freq_act'[c].set_value
        /\ decision_f \notin Global => gfreq_act' = gfreq_act
        /\ decision_f \in Global => FreqArray[gfreq_act'.cur_index] = gfreq_act'.set_value
        /\ decision_f \notin MachineControllers => speed_act' = speed_act
    BY Decided
  <2>2. "step_heuristics" \notin Global
    BY DEF Global
  <2> QED  BY <1>1, <1>2, <1>4, <2>1, <2>2 DEF Quiet
<1>8. Settled'
  <2>1. \A c \in Cores : ~(c + 1 < 0)
    BY Constants
  <2>2. ~(0 > CoreCount + 1)
    BY Constants
  <2> QED  BY <1>2, <2>1, <2>2 DEF Settled
<1>9. SpeedAtHand'
  <2> SUFFICES ASSUME ~failed, decision_f \in MachineControllers
               PROVE  (Still /\ speed_act.value = get_current_speed(core_act, freq_act))'
    BY <1>2 DEF SpeedAtHand
  <2>1. Still /\ speed_act.value = get_current_speed(core_act, freq_act)
    BY <1>1 DEF IInv, SpeedAtHand, AtHand
  <2>2. "step_heuristics" \notin MachineControllers
    BY DEF MachineControllers
  <2>3. core_act' = core_act /\ freq_act' = freq_act
    BY <2>2, Decided
  <2> QED  BY <1>4, <2>1, <2>3 DEF Still, get_current_speed
<1>10. Uniform'
  BY <1>2, <1>4 DEF IInv, Uniform
<1>11. Windows'
  <2>1. mixed <= 0 + lag + 1
    BY <1>1 DEF IInv, Windows, ToCome
  <2> QED  BY <1>2, <2>1 DEF Windows, ToCome
<1>12. Tracked'
  <2> SUFFICES ASSUME decision_f \in MachineControllers, ~retried
               PROVE  speed_act'.value = get_current_speed(core_act', freq_act')
    BY <1>2 DEF Tracked, get_current_speed
  <2>1. speed_act.value = get_current_speed(core_act, freq_act)
    BY <1>1 DEF IInv, Tracked
  <2>2. "step_heuristics" \notin MachineControllers
    BY DEF MachineControllers
  <2>3. core_act' = core_act /\ freq_act' = freq_act
    BY <2>2, Decided
  <2> QED  BY <1>4, <2>1, <2>3
<1>13. Stairs'
  <2> SUFFICES ASSUME stair, decision_f = "step_heuristics"
               PROVE  \A c \in 0..(core_act'.set_value - 2) : freq_act'[c].set_value = Top
    BY <1>2, <1>4 DEF IInv, Stairs
  <2> DEFINE last == core_act.value - 1
             k    == freq_act[last].cur_index
  <2>1. /\ core_act.value \in 1..CoreCount /\ core_act.set_value = core_act.value
        /\ core_act.value \in Int /\ CoreCount \in Int
    <3>1. ~failed
      BY DEF IInv, Stairs
    <3> QED  BY <1>1, <3>1, Constants, Types DEF Counted, Settled, Same
  <2>2. /\ core_act' = step_heuristics(freq_act, core_act).core
        /\ freq_act' = step_heuristics(freq_act, core_act).freqs
    BY DEF Decide, Counting
  <2>3. \A c \in 0..(last - 1) : freq_act[c].set_value = Top
    BY <2>1 DEF IInv, Stairs
  <2>4. freq_act \in [Cores -> Setting] /\ last \in Cores /\ Cores = 0..(CoreCount - 1)
    BY <1>1, <2>1, Constants DEF Shape
  <2>5. CASE \E c \in Cores : /\ c >= last
                               /\ \E x : freq_act' = [freq_act EXCEPT ![c] = x]
                               /\ core_act'.set_value = core_act.value
    <3>1. \A d \in 0..(last - 1) : freq_act'[d] = freq_act[d]
      BY <2>1, <2>4, <2>5
    <3> QED  BY <2>1, <2>3, <2>5, <3>1
  <2>6. CASE /\ k = 0 /\ last + 1 \in Cores
             /\ core_act'.set_value = core_act.value + 1
             /\ \E x : freq_act' = [freq_act EXCEPT ![last + 1] = x]
    <3>1. \A d \in 0..last : freq_act'[d] = freq_act[d]
      BY <2>1, <2>4, <2>6
    <3>2. freq_act[last].set_value = Top
      BY <1>1, <2>4, <2>6 DEF Quiet, Top
    <3>3. \A d \in 0..last : d = last \/ d \in 0..(last - 1)
      BY <2>1
    <3>4. core_act'.set_value - 2 = last
      BY <2>1, <2>6
    <3> QED  BY <2>3, <3>1, <3>2, <3>3, <3>4
  <2>7. CASE core_act'.set_value \in {core_act.value, core_act.value - 1} /\ freq_act' = freq_act
    <3>1. \A d \in 0..(core_act'.set_value - 2) : d \in 0..(last - 1)
      BY <2>1, <2>7
    <3> QED  BY <2>3, <2>7, <3>1
  <2>8. core_act \in [value : Int, set_value : Int] /\ core_act.set_value = core_act.value
    BY <1>1, <2>1 DEF Shape, Actuator
  <2> QED
    <3> HIDE DEF last, k
    <3>1. \/ /\ core_act' = core_act
             /\ \E x : freq_act' = [freq_act EXCEPT ![last] = x]
          \/ /\ k = 0 /\ last + 1 \in Cores
             /\ core_act' = [core_act EXCEPT !.set_value = core_act.value + 1]
             /\ \E x : freq_act' = [freq_act EXCEPT ![last + 1] = x]
          \/ /\ freq_act' = freq_act
             /\ core_act' = [core_act EXCEPT !.set_value = core_act.value - 1]
          \/ freq_act' = freq_act /\ core_act' = core_act
      BY <1>1, <2>1, <2>2, StepHeuristics DEF last, k
    <3>2. last \in Int /\ last >= last
      BY <2>1 DEF last
    <3> QED  BY <2>4, <2>5, <2>6, <2>7, <2>8, <3>1, <3>2
<1> QED
  BY <1>5, <1>6, <1>7, <1>8, <1>9, <1>10, <1>11, <1>12, <1>13 DEF IInv
-----------------------------------------------------------------------------
(* The actions *)

\* The turn of an actuator.
LEMMA TurnTaken ==
    ASSUME Shape, NEW k \in 0..(CoreCount + 2), NEW w \in BOOLEAN, Turn(k, w)
    PROVE  /\ pc = "act" /\ i = k /\ i' = k + 1 /\ acted' = (acted \/ w)
           /\ pc' \in {"act", "after"}
           /\ pc' = "after" <=> k = CoreCount + 2
           /\ decision_f' = decision_f /\ old_error' = old_error /\ rate' = rate
           /\ fresh' = fresh /\ wait' = wait /\ app' = app /\ retried' = retried
           /\ i' \in 0..(CoreCount + 3) /\ acted' \in BOOLEAN
           /\ pc' = "act" => i' # CoreCount + 3
           /\ pc' = "after" => i' = CoreCount + 3
<1>1. CoreCount \in Nat /\ acted \in BOOLEAN
  BY Constants DEF Shape
<1>2. /\ pc = "act" /\ i = k /\ i' = k + 1 /\ acted' = (acted \/ w)
      /\ pc' = IF k = CoreCount + 2 THEN "after" ELSE "act"
      /\ decision_f' = decision_f /\ old_error' = old_error /\ rate' = rate
      /\ fresh' = fresh /\ wait' = wait /\ app' = app /\ retried' = retried
  BY DEF Turn
<1>3. k + 1 \in 0..(CoreCount + 3) /\ (k + 1 = CoreCount + 3 <=> k = CoreCount + 2)
  BY <1>1
<1> QED
  BY <1>1, <1>2, <1>3

\* A change of the machine, or none.
LEMMA Changed ==
    ASSUME Shape, NEW h, NEW m, NEW ok \in BOOLEAN, Change(h, m, ok)
    PROVE  /\ hw' = h /\ mask' = m
           /\ failed' = (failed \/ ~ok) /\ stair' = (stair /\ ok)
           /\ \/ h = hw /\ m = mask /\ mixed' = mixed /\ lag' = lag
              \/ mixed' = fresh + Window + 1 /\ lag' = fresh
           /\ mixed' \in Nat /\ lag' \in Nat
           /\ failed' \in BOOLEAN /\ stair' \in BOOLEAN
<1>1. fresh \in Nat /\ Window \in Nat /\ mixed \in Nat /\ lag \in Nat
  BY Constants, Types DEF Shape
<1>2. /\ hw' = h /\ mask' = m
      /\ failed' = (failed \/ ~ok) /\ stair' = (stair /\ ok)
      /\ \/ h = hw /\ m = mask /\ mixed' = mixed /\ lag' = lag
         \/ mixed' = fresh + Window + 1 /\ lag' = fresh
  BY DEF Change, machine, history, since, failures
<1> QED
  BY <1>1, <1>2

\* Beats measured before a change are waited for.
LEMMA WindowsKept ==
    ASSUME Shape, Windows, pc = "act", pc' \in {"act", "after"}, acted \in BOOLEAN,
           \/ mixed' = mixed /\ lag' = lag /\ (acted => acted')
           \/ mixed' = fresh + Window + 1 /\ lag' = fresh /\ acted'
    PROVE  Windows'
<1> SUFFICES mixed' <= (IF acted' THEN Window ELSE 0) + lag' + 1
  BY DEF Windows, ToCome
<1>1. Window \in Nat /\ mixed \in Nat /\ lag \in Nat /\ fresh \in Nat
  BY Constants, Types DEF Shape
<1>2. mixed <= (IF acted THEN Window ELSE 0) + lag + 1
  BY DEF Windows, ToCome
<1>3. CASE mixed' = mixed /\ lag' = lag /\ (acted => acted')
  BY <1>1, <1>2, <1>3
<1>4. CASE mixed' = fresh + Window + 1 /\ lag' = fresh /\ acted'
  BY <1>1, <1>4
<1> QED
  BY <1>3, <1>4

\* The speed of the values is the one it was, unless an action was run.
LEMMA TrackedKept ==
    ASSUME Tracked, pc = "act", pc' \in {"act", "after"}, decision_f' = decision_f,
           retried' = retried, acted => acted', speed_act'.value = speed_act.value,
           \/ acted'
           \/ /\ core_act'.value = core_act.value
              /\ \A c \in Cores : freq_act'[c].value = freq_act[c].value
    PROVE  Tracked'
<1> SUFFICES ASSUME decision_f \in MachineControllers, ~retried, ~acted'
             PROVE  speed_act'.value = get_current_speed(core_act', freq_act')
  BY DEF Tracked, get_current_speed
<1>1. speed_act.value = get_current_speed(core_act, freq_act)
  BY DEF Tracked
<1> QED
  BY <1>1 DEF get_current_speed

\* The entry that is implemented.
Chosen == States[Implemented(Speeds, speed_act.set_value)]
LEMMA ChosenEntry ==
    ASSUME Shape
    PROVE  /\ Chosen.on \in 1..CoreCount
           /\ Chosen.core \in [0..(Chosen.on - 1) -> Freqs]
           /\ Chosen.speed = SumFunctionOnSet(Chosen.core, 0..(Chosen.on - 1))
           /\ Implemented(Speeds, speed_act.set_value) \in DOMAIN States
<1>1. speed_act.set_value \in Int
  BY Types
<1>2. Implemented(Speeds, speed_act.set_value) \in DOMAIN States
  BY <1>1, Entries, ImplementedRight
<1>3. /\ Chosen.on \in 1..CoreCount
      /\ Chosen.core \in [0..(Chosen.on - 1) -> Freqs]
      /\ Chosen.speed = SumFunctionOnSet(Chosen.core, DOMAIN Chosen.core)
  BY <1>2, CombinedAssumption DEF Chosen, Freqs
<1> QED
  BY <1>2, <1>3

LEMMA SpeedActed ==
    ASSUME Shape, ActSpeed
    PROVE  /\ Turn(0, ~Same(speed_act))
           /\ hw' = hw /\ mask' = mask /\ speed_act' = speed_act /\ gfreq_act' = gfreq_act
           /\ failed' = failed /\ mixed' = mixed /\ lag' = lag /\ stair' = stair
           /\ behind' = behind
           /\ Same(speed_act) => freq_act' = freq_act /\ core_act' = core_act
           /\ ~Same(speed_act) =>
                /\ freq_act' = [c \in Cores |->
                                  IF c < Chosen.on
                                    THEN [freq_act[c] EXCEPT !.set_value = Chosen.core[c]]
                                    ELSE freq_act[c]]
                /\ core_act' = [core_act EXCEPT !.set_value = Chosen.on]
           /\ freq_act' \in [Cores -> Setting] /\ core_act' \in Actuator
           /\ \A c \in Cores : freq_act'[c].value = freq_act[c].value
           /\ core_act'.value = core_act.value
<1> USE DEF Same
<1>1. /\ Turn(0, ~Same(speed_act))
      /\ hw' = hw /\ mask' = mask /\ speed_act' = speed_act /\ gfreq_act' = gfreq_act
      /\ failed' = failed /\ mixed' = mixed /\ lag' = lag /\ stair' = stair
      /\ behind' = behind
      /\ Same(speed_act) => freq_act' = freq_act /\ core_act' = core_act
      /\ ~Same(speed_act) =>
           /\ freq_act' = [c \in Cores |->
                             IF c < Chosen.on
                               THEN [freq_act[c] EXCEPT !.set_value = Chosen.core[c]]
                               ELSE freq_act[c]]
           /\ core_act' = [core_act EXCEPT !.set_value = Chosen.on]
  BY DEF ActSpeed, machine, history, since, failures, Chosen
<1>2. freq_act \in [Cores -> Setting] /\ core_act \in [value : Int, set_value : Int]
  BY DEF Shape, Actuator
<1>3. CASE Same(speed_act)
  BY <1>1, <1>2, <1>3 DEF Actuator
<1>4. CASE ~Same(speed_act)
  <2>1. core_act' \in Actuator /\ core_act'.value = core_act.value
    <3>1. Chosen.on \in Int
      BY ChosenEntry, Constants
    <3> QED  BY <1>1, <1>2, <1>4, <3>1 DEF Actuator
  <2>2. ASSUME NEW c \in Cores
        PROVE  freq_act'[c] \in Setting /\ freq_act'[c].value = freq_act[c].value
    <3>1. freq_act[c] \in [value : Freqs, set_value : Freqs, cur_index : DOMAIN FreqArray]
      BY <1>2 DEF Setting
    <3>2. c < Chosen.on => Chosen.core[c] \in Freqs
      <4>1. c < Chosen.on => c \in 0..(Chosen.on - 1)
        BY ChosenEntry, Constants
      <4> QED  BY <4>1, ChosenEntry
    <3>3. freq_act'[c] = IF c < Chosen.on
                           THEN [freq_act[c] EXCEPT !.set_value = Chosen.core[c]]
                           ELSE freq_act[c]
      BY <1>1, <1>4
    <3> QED  BY <3>1, <3>2, <3>3 DEF Setting
  <2>3. freq_act' = [c \in Cores |-> freq_act'[c]]
    BY <1>1, <1>4
  <2>4. freq_act' \in [Cores -> Setting]
    BY <2>2, <2>3
  <2> QED  BY <1>1, <1>4, <2>1, <2>2, <2>4
<1> QED
  BY <1>3, <1>4

\* The machine speed actuator hands its state to the others.
LEMMA SpeedStep == ASSUME IInv, ActSpeed PROVE IInv'
<1>1. Shape /\ Counted /\ Quiet /\ Settled
  BY DEF IInv
<1>2. /\ hw' = hw /\ mask' = mask /\ speed_act' = speed_act /\ gfreq_act' = gfreq_act
      /\ failed' = failed /\ mixed' = mixed /\ lag' = lag /\ stair' = stair
      /\ behind' = behind
      /\ Same(speed_act) => freq_act' = freq_act /\ core_act' = core_act
      /\ freq_act' \in [Cores -> Setting] /\ core_act' \in Actuator
      /\ \A c \in Cores : freq_act'[c].value = freq_act[c].value
      /\ core_act'.value = core_act.value
  BY <1>1, SpeedActed
<1>3. /\ pc = "act" /\ pc' = "act" /\ i = 0 /\ i' = 1
      /\ (acted => acted') /\ decision_f' = decision_f /\ old_error' = old_error
      /\ rate' = rate /\ fresh' = fresh /\ wait' = wait /\ app' = app
      /\ retried' = retried
      /\ i' \in 0..(CoreCount + 3) /\ acted' \in BOOLEAN /\ i' # CoreCount + 3
  <2>1. 0 \in 0..(CoreCount + 2) /\ 0 # CoreCount + 2
    BY Constants
  <2>2. Turn(0, ~Same(speed_act))
    BY <1>1, SpeedActed
  <2> DEFINE w == ~Same(speed_act)
  <2>3. w \in BOOLEAN
    BY DEF Same
  <2> HIDE DEF w
  <2>4. Turn(0, w)
    BY <2>2 DEF w
  <2> QED  BY <1>1, <2>1, <2>3, <2>4, TurnTaken
<1>4. decision_f \notin MachineControllers => freq_act' = freq_act /\ core_act' = core_act
  BY <1>1, <1>2 DEF Quiet
<1>5. Shape'
  BY <1>1, <1>2, <1>3 DEF Shape
<1>6. Counted'
  <2>1. /\ "core_heuristics" \notin MachineControllers
        /\ "uncoordinated_heuristics" \notin MachineControllers
    BY DEF MachineControllers
  <2>2. ~Same(speed_act) => core_act'.set_value \in 1..CoreCount
    <3>1. core_act \in [value : Int, set_value : Int]
      BY <1>1 DEF Shape, Actuator
    <3> QED  BY <1>1, <3>1, SpeedActed, ChosenEntry
  <2> QED  BY <1>1, <1>2, <1>3, <2>2 DEF Counted
<1>7. Quiet'
  <2>1. /\ \A d \in Global : d \notin MachineControllers
        /\ "freq_heuristics" \notin MachineControllers
        /\ "step_heuristics" \notin MachineControllers
    BY DEF Global, MachineControllers
  <2> QED  BY <1>1, <1>2, <1>3, <1>4, <2>1 DEF Quiet
<1>8. Settled'
  <2>1. \A c \in Cores : ~(c + 1 < 1)
    BY Constants
  <2>2. ~(1 > CoreCount + 1)
    BY Constants
  <2> QED  BY <1>3, <2>1, <2>2 DEF Settled
<1>9. SpeedAtHand'
  <2> SUFFICES ASSUME ~failed, decision_f \in MachineControllers, Same(speed_act)
               PROVE  (Still /\ speed_act.value = get_current_speed(core_act, freq_act))'
    BY <1>2, <1>3 DEF SpeedAtHand, AtHand
  <2>1. Still /\ speed_act.value = get_current_speed(core_act, freq_act)
    BY <1>3 DEF IInv, SpeedAtHand, AtHand
  <2> QED  BY <1>2, <2>1 DEF Still, get_current_speed
<1>10. Uniform'
  BY <1>2, <1>3 DEF IInv, Uniform
<1>11. Windows'
  BY <1>1, <1>2, <1>3, WindowsKept DEF IInv, Shape
<1>12. Stairs'
  <2>1. "step_heuristics" \notin MachineControllers
    BY DEF MachineControllers
  <2> QED  BY <1>2, <1>3, <1>4, <2>1 DEF IInv, Stairs
<1>13. Tracked'
  BY <1>2, <1>3, TrackedKept DEF IInv
<1> QED
  BY <1>5, <1>6, <1>7, <1>8, <1>9, <1>10, <1>11, <1>12, <1>13 DEF IInv

\* An action of an unreliable service may fail.
LEMMA Outcome == \A ok \in Outcomes : ok \in BOOLEAN
BY DEF Outcomes

\* The action of a core sets its frequency or leaves it, and reads it back.
LEMMA FreqActed ==
    ASSUME Shape, NEW c \in Cores, ActFreq(c)
    PROVE  /\ Turn(c + 1, ~Same(freq_act[c]))
           /\ speed_act' = speed_act /\ gfreq_act' = gfreq_act /\ core_act' = core_act
           /\ behind' = behind
           /\ mask' = mask /\ hw' \in [Cores -> Freqs] /\ freq_act' \in [Cores -> Setting]
           /\ Same(freq_act[c]) =>
                /\ hw' = hw /\ failed' = failed /\ mixed' = mixed /\ lag' = lag
                /\ stair' = stair /\ freq_act' = freq_act
           /\ ~Same(freq_act[c]) =>
                \E ok \in BOOLEAN :
                  /\ hw' = IF ok THEN [hw EXCEPT ![c] = freq_act[c].set_value] ELSE hw
                  /\ freq_act' = [freq_act EXCEPT ![c].value = hw'[c]]
                  /\ failed' = (failed \/ ~ok) /\ stair' = (stair /\ ok)
           /\ \/ hw' = hw /\ mixed' = mixed /\ lag' = lag
              \/ mixed' = fresh + Window + 1 /\ lag' = fresh /\ ~Same(freq_act[c])
           /\ mixed' \in Nat /\ lag' \in Nat
           /\ failed' \in BOOLEAN /\ stair' \in BOOLEAN
           /\ \A d \in Cores : freq_act'[d].set_value = freq_act[d].set_value
           /\ \A d \in Cores : freq_act'[d].cur_index = freq_act[d].cur_index
<1>1. /\ Turn(c + 1, ~Same(freq_act[c]))
      /\ speed_act' = speed_act /\ gfreq_act' = gfreq_act /\ core_act' = core_act
      /\ behind' = behind
      /\ Same(freq_act[c]) =>
           /\ hw' = hw /\ mask' = mask /\ failed' = failed /\ mixed' = mixed /\ lag' = lag
           /\ stair' = stair /\ freq_act' = freq_act
  BY DEF ActFreq, Same, machine, history, since, failures
<1>2. /\ hw \in [Cores -> Freqs] /\ freq_act \in [Cores -> Setting]
      /\ freq_act[c] \in Setting /\ freq_act[c].set_value \in Freqs
      /\ mixed \in Nat /\ lag \in Nat /\ failed \in BOOLEAN /\ stair \in BOOLEAN
  BY Types DEF Shape
<1>3. CASE Same(freq_act[c])
  BY <1>1, <1>2, <1>3
<1>4. CASE ~Same(freq_act[c])
  <2> DEFINE h(ok) == IF ok THEN [hw EXCEPT ![c] = freq_act[c].set_value] ELSE hw
  <2>1. PICK ok \in Outcomes : /\ Change(h(ok), mask, ok)
                               /\ freq_act' = [freq_act EXCEPT ![c].value = hw'[c]]
    BY <1>4 DEF ActFreq, Same
  <2>2. ok \in BOOLEAN
    BY Outcome
  <2>3. h(ok) \in [Cores -> Freqs]
    BY <1>2
  <2> HIDE DEF h
  <2>4. /\ hw' = h(ok) /\ mask' = mask
        /\ failed' = (failed \/ ~ok) /\ stair' = (stair /\ ok)
        /\ \/ h(ok) = hw /\ mask = mask /\ mixed' = mixed /\ lag' = lag
           \/ mixed' = fresh + Window + 1 /\ lag' = fresh
        /\ mixed' \in Nat /\ lag' \in Nat
        /\ failed' \in BOOLEAN /\ stair' \in BOOLEAN
    BY <2>1, <2>2, Changed
  <2>5. hw' \in [Cores -> Freqs] /\ hw'[c] \in Freqs
    BY <2>3, <2>4
  <2>6. /\ freq_act' \in [Cores -> Setting]
        /\ \A d \in Cores : /\ freq_act'[d].set_value = freq_act[d].set_value
                            /\ freq_act'[d].cur_index = freq_act[d].cur_index
    <3>1. \A d \in Cores : freq_act[d] \in Setting
      BY <1>2
    <3> QED  BY <1>2, <2>1, <2>5, <3>1 DEF Setting
  <2> QED
    BY <1>1, <1>4, <2>1, <2>2, <2>4, <2>5, <2>6 DEF h
<1> QED
  BY <1>3, <1>4

LEMMA FreqStep == ASSUME IInv, NEW c \in Cores, ActFreq(c) PROVE IInv'
<1>1. Shape /\ Counted /\ Quiet /\ Settled
  BY DEF IInv
<1>2. /\ speed_act' = speed_act /\ gfreq_act' = gfreq_act /\ core_act' = core_act
      /\ behind' = behind
      /\ mask' = mask /\ hw' \in [Cores -> Freqs] /\ freq_act' \in [Cores -> Setting]
      /\ Same(freq_act[c]) =>
           /\ hw' = hw /\ failed' = failed /\ mixed' = mixed /\ lag' = lag
           /\ stair' = stair /\ freq_act' = freq_act
      /\ \/ mixed' = mixed /\ lag' = lag
         \/ mixed' = fresh + Window + 1 /\ lag' = fresh /\ ~Same(freq_act[c])
      /\ mixed' \in Nat /\ lag' \in Nat /\ failed' \in BOOLEAN /\ stair' \in BOOLEAN
      /\ \A d \in Cores : freq_act'[d].set_value = freq_act[d].set_value
      /\ \A d \in Cores : freq_act'[d].cur_index = freq_act[d].cur_index
  BY <1>1, FreqActed
<1>3. /\ pc = "act" /\ pc' = "act" /\ i = c + 1 /\ i' = c + 2
      /\ (acted => acted') /\ (~Same(freq_act[c]) => acted')
      /\ decision_f' = decision_f /\ old_error' = old_error
      /\ rate' = rate /\ fresh' = fresh /\ wait' = wait /\ app' = app
      /\ retried' = retried
      /\ i' \in 0..(CoreCount + 3) /\ acted' \in BOOLEAN /\ i' # CoreCount + 3
  <2> DEFINE w == ~Same(freq_act[c])
  <2>1. c + 1 \in 0..(CoreCount + 2) /\ c + 1 # CoreCount + 2 /\ c \in Int
    BY Constants
  <2>2. Turn(c + 1, w)
    BY <1>1, FreqActed
  <2>3. w \in BOOLEAN
    BY DEF Same
  <2> HIDE DEF w
  <2>4. /\ pc = "act" /\ i = c + 1 /\ i' = (c + 1) + 1 /\ acted' = (acted \/ w)
        /\ pc' = "act"
        /\ decision_f' = decision_f /\ old_error' = old_error
        /\ rate' = rate /\ fresh' = fresh /\ wait' = wait /\ app' = app
        /\ retried' = retried
        /\ i' \in 0..(CoreCount + 3) /\ acted' \in BOOLEAN /\ i' # CoreCount + 3
    BY <1>1, <2>1, <2>2, <2>3, TurnTaken
  <2>5. (c + 1) + 1 = c + 2
    BY <2>1
  <2>6. (acted => acted') /\ (~Same(freq_act[c]) => acted')
    BY <2>4 DEF w
  <2> QED  BY <2>4, <2>5, <2>6
<1>4. /\ c \in Int /\ 0 <= c /\ c <= CoreCount - 1 /\ CoreCount \in Int
      /\ \A d \in Cores : d \in Int
  BY Constants
<1>5. ~Same(freq_act[c]) =>
        \E ok \in BOOLEAN :
          /\ hw' = IF ok THEN [hw EXCEPT ![c] = freq_act[c].set_value] ELSE hw
          /\ freq_act' = [freq_act EXCEPT ![c].value = hw'[c]]
          /\ failed' = (failed \/ ~ok) /\ stair' = (stair /\ ok)
  BY <1>1, FreqActed
<1>6. /\ ~failed' => ~failed
      /\ stair' => stair /\ (~failed => ~failed')
      /\ \A d \in Cores : d # c => freq_act'[d] = freq_act[d] /\ hw'[d] = hw[d]
      /\ ~failed' => Same(freq_act'[c])
      /\ freq_act[c].value = hw[c] => freq_act'[c].value = hw'[c]
  <2>0. /\ hw \in [Cores -> Freqs] /\ freq_act \in [Cores -> Setting]
        /\ freq_act[c] \in [value : Freqs, set_value : Freqs, cur_index : DOMAIN FreqArray]
        /\ failed \in BOOLEAN /\ stair \in BOOLEAN
    BY <1>1 DEF Shape, Setting
  <2>1. CASE Same(freq_act[c])
    BY <1>2, <2>1
  <2>2. CASE ~Same(freq_act[c])
    BY <1>5, <2>0, <2>2 DEF Same
  <2> QED  BY <2>1, <2>2
<1>7. Shape'
  BY <1>1, <1>2, <1>3 DEF Shape
<1>8. Counted'
  BY <1>1, <1>2, <1>3, <1>6 DEF Counted
<1>9. Quiet'
  <2>1. (decision_f \in Global => \A d \in Cores : Same(freq_act[d]))'
    BY <1>1, <1>2, <1>3 DEF Quiet
  <2>2. (decision_f \notin Global => \A d \in Cores : freq_act[d].value = hw[d])'
    BY <1>1, <1>3, <1>6 DEF Quiet
  <2> QED  BY <1>1, <1>2, <1>3, <2>1, <2>2 DEF Quiet
<1>10. Settled'
  <2> SUFFICES ASSUME ~failed'
               PROVE  \A d \in Cores : d + 1 < c + 2 => Same(freq_act'[d])
    BY <1>3, <1>4 DEF Settled
  <2> SUFFICES ASSUME NEW d \in Cores, d + 1 < c + 2 PROVE Same(freq_act'[d])
    OBVIOUS
  <2>1. CASE d = c
    BY <1>6, <2>1
  <2>2. CASE d # c
    <3>1. d + 1 < i
      BY <1>3, <1>4, <2>2
    <3> QED  BY <1>1, <1>6, <2>2, <3>1 DEF Settled
  <2> QED  BY <2>1, <2>2
<1>11. SpeedAtHand'
  <2> SUFFICES ASSUME ~failed', decision_f \in MachineControllers, Same(speed_act)
               PROVE  (Still /\ speed_act.value = get_current_speed(core_act, freq_act))'
    BY <1>2, <1>3, <1>4 DEF SpeedAtHand, AtHand
  <2>1. Still /\ speed_act.value = get_current_speed(core_act, freq_act)
    BY <1>6 DEF IInv, SpeedAtHand, AtHand
  <2>2. freq_act' = freq_act
    BY <1>2, <2>1 DEF Still
  <2> QED  BY <1>2, <2>1, <2>2 DEF Still, get_current_speed
<1>12. Uniform'
  <2> SUFFICES ASSUME decision_f \in Global PROVE Uniform'
    BY <1>3 DEF Uniform
  <2>1. Same(freq_act[c])
    BY <1>1 DEF Quiet
  <2> QED  BY <1>2, <1>3, <2>1 DEF IInv, Uniform
<1>13. Windows'
  BY <1>1, <1>2, <1>3, WindowsKept DEF IInv, Shape
<1>14. Stairs'
  <2>1. stair' => stair /\ ~failed'
    BY <1>6 DEF IInv, Stairs
  <2>2. ASSUME stair', decision_f = "step_heuristics",
               NEW d \in 0..(core_act.set_value - 2)
        PROVE  freq_act'[d].set_value = Top
    <3>1. freq_act[d].set_value = Top
      BY <1>6, <2>2 DEF IInv, Stairs
    <3>2. core_act.set_value \in 1..CoreCount
      <4>1. decision_f \notin Counting
        BY <2>2 DEF Counting
      <4> QED  BY <1>1, <4>1 DEF Counted
    <3>3. d \in Cores
      BY <3>2, Constants
    <3> QED  BY <1>2, <3>1, <3>3
  <2> QED  BY <1>2, <1>3, <2>1, <2>2 DEF IInv, Stairs
<1>15. Tracked'
  <2>1. ~Same(freq_act[c]) \/ freq_act' = freq_act
    BY <1>2
  <2> QED  BY <1>2, <1>3, <2>1, TrackedKept DEF IInv
<1> QED
  BY <1>7, <1>8, <1>9, <1>10, <1>11, <1>12, <1>13, <1>14, <1>15 DEF IInv

\* The global actuator sets the first cores, all of them unless it fails, and
\* reads core 0 back.
LEMMA GlobalActed ==
    ASSUME Shape, ActGlobal
    PROVE  /\ Turn(CoreCount + 1, ~Same(gfreq_act))
           /\ speed_act' = speed_act /\ freq_act' = freq_act /\ core_act' = core_act
           /\ mask' = mask /\ hw' \in [Cores -> Freqs] /\ gfreq_act' \in Setting
           /\ Same(gfreq_act) =>
                /\ hw' = hw /\ failed' = failed /\ mixed' = mixed /\ lag' = lag
                /\ stair' = stair /\ gfreq_act' = gfreq_act /\ behind' = behind
           /\ ~Same(gfreq_act) =>
                \E n \in 0..CoreCount :
                  /\ hw' = GlobalSet(n, gfreq_act.set_value) /\ gfreq_act'.value = hw'[0]
                  /\ behind' = IF n = 0 THEN behind ELSE {c \in Cores : c >= n}
           /\ ~Same(gfreq_act) =>
                \E ok \in BOOLEAN :
                  /\ ok => /\ \A c \in Cores : hw'[c] = gfreq_act.set_value
                           /\ gfreq_act'.value = gfreq_act.set_value
                           /\ gfreq_act'.set_value = gfreq_act.set_value
                  /\ failed' = (failed \/ ~ok) /\ stair' = (stair /\ ok)
           /\ \/ mixed' = mixed /\ lag' = lag
              \/ mixed' = fresh + Window + 1 /\ lag' = fresh /\ ~Same(gfreq_act)
           /\ mixed' \in Nat /\ lag' \in Nat
           /\ failed' \in BOOLEAN /\ stair' \in BOOLEAN
<1>1. /\ Turn(CoreCount + 1, ~Same(gfreq_act))
      /\ speed_act' = speed_act /\ freq_act' = freq_act /\ core_act' = core_act
      /\ Same(gfreq_act) =>
           /\ hw' = hw /\ mask' = mask /\ failed' = failed /\ mixed' = mixed /\ lag' = lag
           /\ stair' = stair /\ gfreq_act' = gfreq_act /\ behind' = behind
  BY DEF ActGlobal, Same, machine, history, since, failures
<1>2. /\ hw \in [Cores -> Freqs] /\ gfreq_act.set_value \in Freqs
      /\ gfreq_act \in [value : Freqs, set_value : Freqs, cur_index : DOMAIN FreqArray]
      /\ mixed \in Nat /\ lag \in Nat /\ failed \in BOOLEAN /\ stair \in BOOLEAN
  BY Types DEF Shape, Setting
<1>3. CASE Same(gfreq_act)
  BY <1>1, <1>2, <1>3 DEF Setting
<1>4. CASE ~Same(gfreq_act)
  <2> DEFINE h(n) == GlobalSet(n, gfreq_act.set_value)
  <2>1. PICK n \in 0..CoreCount : /\ Change(h(n), mask, n = CoreCount)
                                  /\ gfreq_act' = [gfreq_act EXCEPT !.value = hw'[0]]
                                  /\ behind' = IF n = 0 THEN behind
                                               ELSE {c \in Cores : c >= n}
    <3>1. CoreCount \in 0..CoreCount
      BY Constants
    <3> QED  BY <1>4, <3>1 DEF ActGlobal, Same
  <2> DEFINE ok == n = CoreCount
  <2>2. h(n) \in [Cores -> Freqs]
    BY <1>2 DEF GlobalSet
  <2>3. n = CoreCount => \A c \in Cores : h(n)[c] = gfreq_act.set_value
    BY Constants DEF GlobalSet
  <2> HIDE DEF h
  <2>4. Change(h(n), mask, ok) /\ ok \in BOOLEAN
    BY <2>1
  <2> HIDE DEF ok
  <2>5. /\ hw' = h(n) /\ mask' = mask
        /\ failed' = (failed \/ ~ok) /\ stair' = (stair /\ ok)
        /\ \/ mixed' = mixed /\ lag' = lag
           \/ mixed' = fresh + Window + 1 /\ lag' = fresh
        /\ mixed' \in Nat /\ lag' \in Nat
        /\ failed' \in BOOLEAN /\ stair' \in BOOLEAN
    BY <2>4, Changed
  <2>6. hw' \in [Cores -> Freqs] /\ hw'[0] \in Freqs
    BY <2>2, <2>5, Constants
  <2>7. /\ gfreq_act' \in Setting /\ gfreq_act'.value = hw'[0]
        /\ gfreq_act'.set_value = gfreq_act.set_value
    BY <1>2, <2>1, <2>6 DEF Setting
  <2>8. ok => /\ \A c \in Cores : hw'[c] = gfreq_act.set_value
              /\ gfreq_act'.value = gfreq_act.set_value
    BY <2>3, <2>5, <2>7, Constants DEF ok
  <2>9. ok \in BOOLEAN
    BY DEF ok
  <2>10. /\ hw' = GlobalSet(n, gfreq_act.set_value) /\ gfreq_act'.value = hw'[0]
         /\ behind' = IF n = 0 THEN behind ELSE {c \in Cores : c >= n}
    BY <2>1, <2>5, <2>7 DEF h
  <2> QED
    BY <1>1, <1>4, <2>5, <2>6, <2>7, <2>8, <2>9, <2>10
<1> QED
  BY <1>3, <1>4

LEMMA GlobalStep == ASSUME IInv, ActGlobal PROVE IInv'
<1>1. Shape /\ Counted /\ Quiet /\ Settled
  BY DEF IInv
<1>2. /\ speed_act' = speed_act /\ freq_act' = freq_act /\ core_act' = core_act
      /\ mask' = mask /\ hw' \in [Cores -> Freqs] /\ gfreq_act' \in Setting
      /\ Same(gfreq_act) =>
           /\ hw' = hw /\ failed' = failed /\ mixed' = mixed /\ lag' = lag
           /\ stair' = stair /\ gfreq_act' = gfreq_act /\ behind' = behind
      /\ \/ mixed' = mixed /\ lag' = lag
         \/ mixed' = fresh + Window + 1 /\ lag' = fresh /\ ~Same(gfreq_act)
      /\ mixed' \in Nat /\ lag' \in Nat /\ failed' \in BOOLEAN /\ stair' \in BOOLEAN
  BY <1>1, GlobalActed
<1>3. /\ pc = "act" /\ pc' = "act" /\ i = CoreCount + 1 /\ i' = CoreCount + 2
      /\ (acted => acted') /\ (~Same(gfreq_act) => acted')
      /\ decision_f' = decision_f /\ old_error' = old_error
      /\ rate' = rate /\ fresh' = fresh /\ wait' = wait /\ app' = app
      /\ retried' = retried
      /\ i' \in 0..(CoreCount + 3) /\ acted' \in BOOLEAN /\ i' # CoreCount + 3
  <2> DEFINE w == ~Same(gfreq_act)
             k == CoreCount + 1
  <2>1. k \in 0..(CoreCount + 2) /\ k # CoreCount + 2 /\ k + 1 = CoreCount + 2
    BY Constants
  <2>2. Turn(k, w)
    BY <1>1, GlobalActed
  <2>3. w \in BOOLEAN
    BY DEF Same
  <2> HIDE DEF w, k
  <2>4. /\ pc = "act" /\ i = k /\ i' = k + 1 /\ acted' = (acted \/ w)
        /\ pc' = "act"
        /\ decision_f' = decision_f /\ old_error' = old_error
        /\ rate' = rate /\ fresh' = fresh /\ wait' = wait /\ app' = app
        /\ retried' = retried
        /\ i' \in 0..(CoreCount + 3) /\ acted' \in BOOLEAN /\ i' # CoreCount + 3
    BY <1>1, <2>1, <2>2, <2>3, TurnTaken
  <2> QED  BY <2>1, <2>4 DEF w, k
<1>4. ~Same(gfreq_act) =>
        \E ok \in BOOLEAN :
          /\ ok => /\ \A c \in Cores : hw'[c] = gfreq_act.set_value
                   /\ gfreq_act'.value = gfreq_act.set_value
                   /\ gfreq_act'.set_value = gfreq_act.set_value
          /\ failed' = (failed \/ ~ok) /\ stair' = (stair /\ ok)
  BY <1>1, GlobalActed
<1>5. /\ ~failed' => ~failed
      /\ stair' => stair /\ (~failed => ~failed')
      /\ ~failed' => Same(gfreq_act')
  <2>1. CASE Same(gfreq_act)
    BY <1>2, <2>1
  <2>2. CASE ~Same(gfreq_act)
    BY <1>4, <2>2 DEF Same
  <2> QED  BY <2>1, <2>2
<1>6. ~Same(gfreq_act) =>
         \E n \in 0..CoreCount :
           /\ hw' = GlobalSet(n, gfreq_act.set_value) /\ gfreq_act'.value = hw'[0]
           /\ behind' = IF n = 0 THEN behind ELSE {c \in Cores : c >= n}
  BY <1>1, GlobalActed
<1>7. Shape'
  <2>1. behind \subseteq Cores
    BY <1>1 DEF Shape
  <2>2. behind' \subseteq Cores
    BY <1>2, <1>6, <2>1
  <2> QED  BY <1>1, <1>2, <1>3, <2>2 DEF Shape
<1>8. Counted'
  BY <1>1, <1>2, <1>3, <1>5 DEF Counted
<1>9. decision_f \notin Global => hw' = hw /\ gfreq_act' = gfreq_act
  BY <1>1, <1>2 DEF Quiet
<1>10. /\ gfreq_act'.set_value = gfreq_act.set_value
       /\ gfreq_act'.cur_index = gfreq_act.cur_index
  <2>1. gfreq_act \in [value : Freqs, set_value : Freqs, cur_index : DOMAIN FreqArray]
    BY <1>1 DEF Shape, Setting
  <2> QED  BY <2>1 DEF ActGlobal
<1>11. Quiet'
  BY <1>1, <1>2, <1>3, <1>9, <1>10 DEF Quiet
<1>12. Settled'
  <2>1. \A c \in Cores : c + 1 < CoreCount + 1
    BY Constants
  <2> QED  BY <1>1, <1>2, <1>3, <1>5, <2>1 DEF Settled
<1>13. SpeedAtHand'
  <2>1. i # 0 /\ i' # 0
    BY <1>3, Constants
  <2> QED
    BY <1>2, <1>3, <1>5, <2>1 DEF IInv, SpeedAtHand, AtHand, Still, get_current_speed
<1>14. Uniform'
  <2> SUFFICES ASSUME decision_f \in Global
               PROVE  0 \notin behind' /\ \A c \in Cores \ behind' : hw'[c] = gfreq_act'.value
    BY <1>3 DEF Uniform
  <2>1. 0 \notin behind /\ \A c \in Cores \ behind : hw[c] = gfreq_act.value
    BY <1>3 DEF IInv, Uniform
  <2>2. CASE Same(gfreq_act)
    BY <1>2, <2>1, <2>2
  <2>3. CASE ~Same(gfreq_act)
    <3>1. PICK n \in 0..CoreCount :
                 /\ hw' = GlobalSet(n, gfreq_act.set_value) /\ gfreq_act'.value = hw'[0]
                 /\ behind' = IF n = 0 THEN behind ELSE {c \in Cores : c >= n}
      BY <1>6, <2>3
    <3>2. n \in Int /\ 0 <= n /\ 0 \in Cores /\ \A c \in Cores : c \in Int /\ 0 <= c
      BY Constants
    <3>3. CASE n = 0
      <4>1. \A c \in Cores : hw'[c] = hw[c]
        BY <3>1, <3>2, <3>3 DEF GlobalSet
      <4> QED  BY <2>1, <3>1, <3>2, <3>3, <4>1
    <3>4. CASE n # 0
      <4>1. behind' = {c \in Cores : c >= n}
        BY <3>1, <3>4
      <4>2. \A c \in Cores \ behind' : hw'[c] = gfreq_act.set_value
        BY <3>1, <3>2, <4>1 DEF GlobalSet
      <4>3. 0 \notin behind'
        BY <3>2, <3>4, <4>1
      <4> QED  BY <3>1, <3>2, <4>2, <4>3
    <3> QED  BY <3>3, <3>4
  <2> QED  BY <2>2, <2>3
<1>15. Windows'
  BY <1>1, <1>2, <1>3, WindowsKept DEF IInv, Shape
<1>16. Stairs'
  BY <1>2, <1>3, <1>5 DEF IInv, Stairs
<1>17. Tracked'
  BY <1>2, <1>3, TrackedKept DEF IInv
<1> QED
  BY <1>7, <1>8, <1>11, <1>12, <1>13, <1>14, <1>15, <1>16, <1>17 DEF IInv

\* taskset gives the application the first cores, and refuses a count below 1.
LEMMA CoresActed ==
    ASSUME Shape, ActCores
    PROVE  /\ Turn(CoreCount + 2, ~Same(core_act))
           /\ speed_act' = speed_act /\ freq_act' = freq_act /\ gfreq_act' = gfreq_act
           /\ hw' = hw /\ behind' = behind
           /\ Same(core_act) =>
                /\ mask' = mask /\ failed' = failed /\ mixed' = mixed /\ lag' = lag
                /\ stair' = stair /\ core_act' = core_act
           /\ ~Same(core_act) =>
                \/ /\ core_act.set_value >= 1
                   /\ mask' = 0..(core_act.set_value - 1) \cap Cores
                   /\ core_act' = [core_act EXCEPT !.value = core_act.set_value]
                   /\ failed' = failed /\ stair' = stair
                \/ /\ mask' = mask /\ core_act' = core_act
                   /\ failed' = TRUE /\ stair' = FALSE
           /\ \/ mixed' = mixed /\ lag' = lag
              \/ mixed' = fresh + Window + 1 /\ lag' = fresh /\ ~Same(core_act)
           /\ mixed' \in Nat /\ lag' \in Nat
           /\ failed' \in BOOLEAN /\ stair' \in BOOLEAN
<1>1. /\ Turn(CoreCount + 2, ~Same(core_act))
      /\ speed_act' = speed_act /\ freq_act' = freq_act /\ gfreq_act' = gfreq_act
      /\ behind' = behind
      /\ Same(core_act) =>
           /\ hw' = hw /\ mask' = mask /\ failed' = failed /\ mixed' = mixed /\ lag' = lag
           /\ stair' = stair /\ core_act' = core_act
  BY DEF ActCores, Same, machine, history, since, failures
<1>2. /\ core_act.set_value \in Int
      /\ mixed \in Nat /\ lag \in Nat /\ failed \in BOOLEAN /\ stair \in BOOLEAN
  BY Types DEF Shape
<1>3. CASE Same(core_act)
  BY <1>1, <1>2, <1>3
<1>4. CASE ~Same(core_act)
  <2> DEFINE m(ok) == IF ok THEN 0..(core_act.set_value - 1) \cap Cores ELSE mask
  <2>1. PICK ok \in IF core_act.set_value < 1 THEN {FALSE} ELSE Outcomes :
               /\ Change(hw, m(ok), ok)
               /\ core_act' = IF ok THEN [core_act EXCEPT !.value = core_act.set_value]
                              ELSE core_act
    BY <1>4 DEF ActCores, Same
  <2>2. ok \in BOOLEAN /\ (ok => core_act.set_value >= 1)
    <3>1. CASE core_act.set_value < 1
      BY <2>1, <3>1
    <3>2. CASE ~(core_act.set_value < 1)
      BY <1>2, <2>1, <3>2, Outcome
    <3> QED  BY <3>1, <3>2
  <2> HIDE DEF m
  <2>3. /\ hw' = hw /\ mask' = m(ok)
        /\ failed' = (failed \/ ~ok) /\ stair' = (stair /\ ok)
        /\ \/ mixed' = mixed /\ lag' = lag
           \/ mixed' = fresh + Window + 1 /\ lag' = fresh
        /\ mixed' \in Nat /\ lag' \in Nat
        /\ failed' \in BOOLEAN /\ stair' \in BOOLEAN
    BY <2>1, <2>2, Changed
  <2>4. CASE ok
    <3>1. mask' = 0..(core_act.set_value - 1) \cap Cores
      BY <2>3, <2>4 DEF m
    <3>2. failed' = failed /\ stair' = stair
      BY <1>2, <2>3, <2>4
    <3> QED  BY <1>1, <1>4, <2>1, <2>2, <2>3, <2>4, <3>1, <3>2
  <2>5. CASE ~ok
    <3>1. mask' = mask
      BY <2>3, <2>5 DEF m
    <3>2. failed' = TRUE /\ stair' = FALSE
      BY <1>2, <2>3, <2>5
    <3> QED  BY <1>1, <1>4, <2>1, <2>3, <2>5, <3>1, <3>2
  <2> QED  BY <2>4, <2>5
<1> QED
  BY <1>3, <1>4

LEMMA CoresStep == ASSUME IInv, ActCores PROVE IInv'
<1>1. Shape /\ Counted /\ Quiet /\ Settled
  BY DEF IInv
<1>2. /\ speed_act' = speed_act /\ freq_act' = freq_act /\ gfreq_act' = gfreq_act
      /\ hw' = hw /\ behind' = behind
      /\ Same(core_act) =>
           /\ mask' = mask /\ failed' = failed /\ mixed' = mixed /\ lag' = lag
           /\ stair' = stair /\ core_act' = core_act
      /\ \/ mixed' = mixed /\ lag' = lag
         \/ mixed' = fresh + Window + 1 /\ lag' = fresh /\ ~Same(core_act)
      /\ mixed' \in Nat /\ lag' \in Nat /\ failed' \in BOOLEAN /\ stair' \in BOOLEAN
  BY <1>1, CoresActed
<1>3. /\ pc = "act" /\ pc' = "after" /\ i = CoreCount + 2 /\ i' = CoreCount + 3
      /\ (acted => acted') /\ (~Same(core_act) => acted')
      /\ decision_f' = decision_f /\ old_error' = old_error
      /\ rate' = rate /\ fresh' = fresh /\ wait' = wait /\ app' = app
      /\ retried' = retried
      /\ i' \in 0..(CoreCount + 3) /\ acted' \in BOOLEAN
  <2> DEFINE w == ~Same(core_act)
             k == CoreCount + 2
  <2>1. k \in 0..(CoreCount + 2) /\ k = CoreCount + 2 /\ k + 1 = CoreCount + 3
    BY Constants
  <2>2. Turn(k, w)
    BY <1>1, CoresActed
  <2>3. w \in BOOLEAN
    BY DEF Same
  <2> HIDE DEF w, k
  <2>4. /\ pc = "act" /\ i = k /\ i' = k + 1 /\ acted' = (acted \/ w)
        /\ pc' = "after"
        /\ decision_f' = decision_f /\ old_error' = old_error
        /\ rate' = rate /\ fresh' = fresh /\ wait' = wait /\ app' = app
        /\ retried' = retried
        /\ i' \in 0..(CoreCount + 3) /\ acted' \in BOOLEAN
    BY <1>1, <2>1, <2>2, <2>3, TurnTaken
  <2>5. (acted => acted') /\ (~Same(core_act) => acted')
    BY <2>4 DEF w
  <2> QED  BY <2>1, <2>4, <2>5
<1>4. ~Same(core_act) =>
        \/ /\ core_act.set_value >= 1
           /\ mask' = 0..(core_act.set_value - 1) \cap Cores
           /\ core_act' = [core_act EXCEPT !.value = core_act.set_value]
           /\ failed' = failed /\ stair' = stair
        \/ /\ mask' = mask /\ core_act' = core_act
           /\ failed' = TRUE /\ stair' = FALSE
  BY <1>1, CoresActed
<1>5. /\ core_act \in [value : Int, set_value : Int]
      /\ core_act.set_value \in Int /\ CoreCount \in Int /\ CoreCount >= 1
      /\ failed \in BOOLEAN /\ stair \in BOOLEAN
  BY <1>1, Constants DEF Shape, Actuator
\* A new setting: the count of the cores is the value, as far as there are cores.
<1>6. ASSUME core_act.set_value >= 1
      PROVE  LET m == 0..(core_act.set_value - 1) \cap Cores
             IN  /\ m \in (SUBSET Cores) \ {{}}
                 /\ Cardinality(m) = Lower(core_act.set_value, CoreCount)
  <2> DEFINE m == 0..(core_act.set_value - 1) \cap Cores
             n == Lower(core_act.set_value, CoreCount)
  <2>1. n \in 1..CoreCount
    BY <1>5, <1>6 DEF Lower
  <2>2. m = 0..(n - 1)
    BY <1>5, <1>6, Constants DEF Lower
  <2>3. 0 \in m /\ m \subseteq Cores
    BY <1>5, <1>6, Constants
  <2>4. Cardinality(0..(n - 1)) = n
    BY <2>1, FirstCores
  <2> QED  BY <2>2, <2>3, <2>4
<1>7. /\ ~failed' => ~failed /\ Same(core_act')
      /\ core_act'.set_value = core_act.set_value
      /\ stair' => stair /\ (~failed => ~failed')
      /\ core_act' \in Actuator
  <2>1. CASE Same(core_act)
    BY <1>2, <1>5, <2>1 DEF Actuator
  <2>2. CASE ~Same(core_act)
    BY <1>4, <1>5, <2>2 DEF Actuator, Same
  <2> QED  BY <2>1, <2>2
<1>8. mask' \in (SUBSET Cores) \ {{}}
  BY <1>1, <1>2, <1>4, <1>6 DEF Shape
<1>9. Shape'
  <2>1. mixed' \in Nat /\ lag' \in Nat
    BY <1>2
  <2> QED  BY <1>1, <1>2, <1>3, <1>7, <1>8, <2>1 DEF Shape
<1>10. Counted'
  <2>1. CASE core_act' = core_act /\ mask' = mask
    BY <1>1, <1>3, <1>7, <2>1 DEF Counted
  <2>2. CASE /\ core_act.set_value >= 1
             /\ mask' = 0..(core_act.set_value - 1) \cap Cores
             /\ core_act' = [core_act EXCEPT !.value = core_act.set_value]
    <3>1. core_act'.value = core_act.set_value
      BY <1>5, <2>2
    <3>2. core_act.set_value \in 1..CoreCount => core_act.set_value <= CoreCount
      BY <1>5
    <3> QED  BY <1>1, <1>3, <1>6, <1>7, <2>2, <3>1, <3>2 DEF Counted
  <2> QED  BY <1>2, <1>4, <2>1, <2>2
<1>11. Quiet'
  BY <1>1, <1>2, <1>3 DEF Quiet
<1>12. Settled'
  <2>1. \A c \in Cores : c + 1 < CoreCount + 2
    BY Constants
  <2>2. CoreCount + 2 > CoreCount + 1
    BY <1>5
  <2> QED  BY <1>1, <1>2, <1>3, <1>7, <2>1, <2>2 DEF Settled
<1>13. SpeedAtHand'
  <2>1. i # 0 /\ i' # 0
    BY <1>3, <1>5
  <2> SUFFICES ASSUME ~failed', decision_f \in MachineControllers, Same(speed_act)
               PROVE  (Still /\ speed_act.value = get_current_speed(core_act, freq_act))'
    BY <1>2, <1>3, <2>1 DEF SpeedAtHand, AtHand
  <2>2. Still /\ speed_act.value = get_current_speed(core_act, freq_act)
    BY <1>7 DEF IInv, SpeedAtHand, AtHand
  <2>3. core_act' = core_act
    BY <1>2, <2>2 DEF Still
  <2> QED  BY <1>2, <2>2, <2>3 DEF Still, get_current_speed
<1>14. Uniform'
  BY <1>2, <1>3 DEF IInv, Uniform
<1>15. Windows'
  BY <1>1, <1>2, <1>3, WindowsKept DEF IInv, Shape
<1>16. Stairs'
  <2>1. stair' => stair /\ ~failed'
    BY <1>7 DEF IInv, Stairs
  <2>2. ASSUME stair', decision_f = "step_heuristics"
        PROVE  mask' = 0..(core_act'.value - 1)
    <3>1. CASE Same(core_act)
      BY <1>2, <2>1, <2>2, <3>1 DEF IInv, Stairs
    <3>2. CASE ~Same(core_act)
      <4>1. /\ mask' = 0..(core_act.set_value - 1) \cap Cores
            /\ core_act' = [core_act EXCEPT !.value = core_act.set_value]
        BY <1>4, <2>2, <3>2
      <4>2. core_act'.value = core_act.set_value
        BY <1>5, <4>1
      <4>3. core_act.set_value \in 1..CoreCount
        <5>1. decision_f \notin Counting
          BY <2>2 DEF Counting
        <5> QED  BY <1>1, <5>1 DEF Counted
      <4> QED  BY <4>1, <4>2, <4>3, FirstCores
    <3> QED  BY <3>1, <3>2
  <2> QED  BY <1>2, <1>3, <1>7, <2>1, <2>2 DEF IInv, Stairs
<1>17. Tracked'
  <2>1. ~Same(core_act) \/ core_act' = core_act
    BY <1>2
  <2> QED  BY <1>2, <1>3, <2>1, TrackedKept DEF IInv
<1> QED
  BY <1>9, <1>10, <1>11, <1>12, <1>13, <1>14, <1>15, <1>16, <1>17 DEF IInv
-----------------------------------------------------------------------------
LEMMA Induction == IInv /\ [Next]_vars => IInv'
<1> SUFFICES ASSUME IInv, [Next]_vars PROVE IInv'
  OBVIOUS
<1>1. CASE Beat \/ Finish \/ Spin \/ UNCHANGED vars
  BY <1>1, ApplicationStep DEF Spin
<1>2. CASE Poll
  BY <1>2, PollStep
<1>3. CASE Decide
  BY <1>3, DecideStep
<1>4. CASE ActSpeed
  BY <1>4, SpeedStep
<1>5. CASE \E c \in Cores : ActFreq(c)
  BY <1>5, FreqStep
<1>6. CASE ActGlobal
  BY <1>6, GlobalStep
<1>7. CASE ActCores
  BY <1>7, CoresStep
<1>8. CASE After
  BY <1>8, AfterStep
<1> QED
  BY <1>1, <1>2, <1>3, <1>4, <1>5, <1>6, <1>7, <1>8 DEF Next, Loop, Act

THEOREM Invariance == Spec => []IInv
BY InitInvariant, Induction, PTL DEF Spec

\* The count the service keeps of the cores is that of the cores it has given,
\* whatever fails; and it asks for a count out of range only when core_heuristics
\* counts on after a failure (combined.c:159-169, 400-412).
THEOREM CombinedCoresCounted == Spec => []CoresCounted
<1>1. IInv => CoresCounted
  BY DEF IInv, Counted, Counting, CoresCounted, AskedInRange
<1> QED
  BY <1>1, Invariance, PTL

\* The window of the record a decision is based on holds one interval that began
\* before the last change, and besides it no more old beats than came while the
\* service acted (combined.c:757-760, 783).
THEOREM CombinedWholeWindow == Spec => []WholeWindow
<1>1. IInv => WholeWindow
  <2> SUFFICES ASSUME IInv, pc = "decide" PROVE mixed <= lag + 1
    BY DEF WholeWindow
  <2>1. mixed <= 0 + lag + 1 /\ lag \in Nat
    BY DEF IInv, Shape, Windows, ToCome
  <2> QED  BY <2>1
<1> QED
  BY <1>1, Invariance, PTL

\* step_heuristics keeps all cores but the last at the top frequency, although it
\* looks at the last one only (combined.c:442-505).
THEOREM CombinedStaircaseKept == Spec => []StaircaseKept
<1>1. ASSUME IInv PROVE StaircaseKept
  <2> SUFFICES ASSUME pc = "poll", stair, decision_f = "step_heuristics" PROVE Staircase
    BY DEF StaircaseKept
  <2>1. /\ ~failed /\ mask = 0..(core_act.value - 1)
        /\ \A c \in 0..(core_act.set_value - 2) : freq_act[c].set_value = Top
    BY <1>1 DEF IInv, Stairs
  <2>2. decision_f \notin Global
    BY DEF Global
  <2>3. /\ core_act.set_value = core_act.value
        /\ \A c \in Cores : freq_act[c].set_value = freq_act[c].value
        /\ \A c \in Cores : freq_act[c].value = hw[c]
    BY <1>1, <2>1, <2>2 DEF IInv, Settled, Quiet, Same
  <2>4. \A c \in 0..(core_act.value - 2) : c \in Cores
    <3>1. core_act.value <= CoreCount /\ core_act.value \in Int
      BY <1>1, <2>1, Types DEF IInv, Counted
    <3> QED  BY <3>1, Constants
  <2> QED  BY <2>1, <2>3, <2>4 DEF Staircase
<1> QED
  BY <1>1, Invariance, PTL

\* What the service believes of the machine is true through failed actions: the
\* frequencies that the single actuators read back, the one frequency of the global
\* actuator on all cores that its last setting reached, and the speed the controllers
\* start from, which is never read as a whole, until a failed action is run again in a
\* turn with no new speed (combined.c:262-273, 277-294, 774, 779-781).
THEOREM CombinedValuesKnown == Spec => []ValuesKnown
<1>1. ASSUME IInv PROVE TypeOK
  <2>1. /\ Shape
        /\ \A c \in Cores : freq_act[c] \in Setting
        /\ \A act \in Range(freq_act) : \E c \in Cores : act = freq_act[c]
    BY <1>1 DEF IInv, Shape, Range
  <2>2. \A act \in Range(freq_act) \cup {gfreq_act} : act \in Setting
    BY <2>1 DEF Shape
  <2> QED  BY <2>1, <2>2 DEF Shape, TypeOK, Setting, Freqs
<1>2. ASSUME IInv PROVE GlobalUniform
  BY <1>2 DEF IInv, Uniform, GlobalUniform
<1>3. ASSUME IInv PROVE FreqsKnown
  BY <1>3 DEF IInv, Quiet, FreqsKnown
<1>4. ASSUME IInv PROVE SpeedKnown
  <2> SUFFICES ASSUME pc = "poll", ~retried, decision_f \in MachineControllers,
                      mask = 0..(core_act.value - 1)
               PROVE  speed_act.value = SumFunctionOnSet(hw, mask)
    BY DEF SpeedKnown
  <2> DEFINE S == {c \in Cores : c < core_act.value}
             g == [c \in Cores |-> freq_act[c].value]
  <2>1. speed_act.value = SumFunctionOnSet(g, S)
    BY <1>4 DEF IInv, Tracked, get_current_speed
  <2>2. mask = S
    <3>1. core_act.value \in 1..CoreCount
      <4>1. decision_f \notin Counting
        BY DEF Counting, MachineControllers
      <4> QED  BY <1>4, <4>1, Types, Constants DEF IInv, Counted
    <3> QED  BY <3>1, FirstCores
  <2>3. \A c \in Cores : freq_act[c].value = hw[c] /\ hw[c] \in Int
    <3>1. decision_f \notin Global
      BY DEF Global, MachineControllers
    <3>2. \A c \in Cores : hw[c] \in Freqs
      BY <1>4, Types DEF IInv
    <3> QED  BY <1>4, <3>1, <3>2, List DEF IInv, Quiet
  <2>4. IsFiniteSet(S)
    BY Constants, FS_Subset
  <2>5. \A c \in S : g[c] \in Int /\ hw[c] = g[c]
    BY <2>3
  <2> HIDE DEF S, g
  <2>6. SumFunctionOnSet(g, S) = SumFunctionOnSet(hw, S)
    BY <2>4, <2>5, SumOfEqual
  <2> QED  BY <2>1, <2>2, <2>6
<1> QED
  BY <1>1, <1>2, <1>3, <1>4, Invariance, PTL DEF ValuesKnown
-----------------------------------------------------------------------------
(* No decision goes the wrong way, of a service whose parameters make sense: *)
(* the gain is not negative, the target is one, and the list has its highest *)
(* frequencies first, as cpufreq gives it.                                   *)

Tuned == /\ Kp >= 0 /\ MinRate <= MaxRate
         /\ \A k, l \in DOMAIN FreqArray : k < l => FreqArray[l] <= FreqArray[k]

\* A controller of the machine speed finds it at a speed of the table.
OnTable == decision_f \in MachineControllers => speed_act.value \in Range(Speeds)

\* The speed asked for lies on the right side of the one there is.
Aimed ==
    pc = "act" /\ i = 0 /\ ~failed /\ ~Integral /\ OnTable
        /\ decision_f \in MachineControllers =>
        /\ TooSlow => speed_act.set_value >= speed_act.value
        /\ TooFast => speed_act.set_value <= speed_act.value

\* So does what is planned, from the decision on.
Planned ==
    pc = "act" /\ i \in {0, 1} /\ ~failed /\ ~Integral /\ OnTable =>
        /\ TooSlow => PlannedSpeed >= SpeedNow
        /\ TooFast => PlannedSpeed <= SpeedNow
        /\ i = 1 /\ ~Same(speed_act) => PlannedSpeed \in Range(Speeds)

RInv == Aimed /\ Planned

\* The speed of some cores.
Sum(cores, f) == SumFunctionOnSet(f, {c \in Cores : c < cores})

LEMMA SumFacts ==
    ASSUME NEW f, \A c \in Cores : f[c] \in Nat,
           NEW g, \A c \in Cores : g[c] \in Nat,
           NEW m \in Int, NEW n \in Int
    PROVE  /\ Sum(m, f) \in Nat
           /\ m <= n /\ (\A c \in Cores : c < m => f[c] <= g[c]) => Sum(m, f) <= Sum(n, g)
           /\ (\A c \in Cores : c < m => f[c] = g[c]) => Sum(m, f) = Sum(m, g)
<1> DEFINE M == {c \in Cores : c < m}
           N == {c \in Cores : c < n}
<1>1. IsFiniteSet(M) /\ IsFiniteSet(N)
  BY Constants, FS_Subset
<1>2. /\ \A c \in M : c \in Cores /\ c < m /\ f[c] \in Nat /\ g[c] \in Nat
      /\ \A c \in N : g[c] \in Nat
  OBVIOUS
<1>3. Sum(m, f) = SumFunctionOnSet(f, M) /\ Sum(n, g) = SumFunctionOnSet(g, N)
      /\ Sum(m, g) = SumFunctionOnSet(g, M)
  BY DEF Sum
<1>4. m <= n => M \subseteq N
  BY Constants
<1> HIDE DEF M, N
<1>5. SumFunctionOnSet(f, M) \in Nat
  BY <1>1, <1>2, SumNat
<1>6. ASSUME m <= n, \A c \in Cores : c < m => f[c] <= g[c]
      PROVE  SumFunctionOnSet(f, M) <= SumFunctionOnSet(g, N)
  <2>1. \A c \in M : f[c] \in Int /\ g[c] \in Int /\ f[c] <= g[c]
    BY <1>2, <1>6
  <2>2. SumFunctionOnSet(f, M) <= SumFunctionOnSet(g, M)
    BY <1>1, <2>1, SumMonotone
  <2>3. SumFunctionOnSet(g, M) <= SumFunctionOnSet(g, N)
    BY <1>1, <1>2, <1>4, <1>6, SumOfSubset
  <2>4. SumFunctionOnSet(g, M) \in Nat /\ SumFunctionOnSet(g, N) \in Nat
    BY <1>1, <1>2, SumNat
  <2> QED  BY <1>5, <2>2, <2>3, <2>4
<1>7. ASSUME \A c \in Cores : c < m => f[c] = g[c]
      PROVE  SumFunctionOnSet(f, M) = SumFunctionOnSet(g, M)
  <2>1. \A c \in M : f[c] \in Int /\ g[c] = f[c]
    BY <1>2, <1>7
  <2> QED  BY <1>1, <2>1, SumOfEqual
<1> QED
  BY <1>3, <1>5, <1>6, <1>7

\* What a setting gives, and what it plans to give.
Given(freqs)  == [c \in Cores |-> freqs[c].value]
Wanted(freqs) == [c \in Cores |-> freqs[c].set_value]
LEMMA SettingsAreNat ==
    ASSUME NEW freqs \in [Cores -> Setting]
    PROVE  /\ \A c \in Cores : Given(freqs)[c] \in Nat /\ Given(freqs)[c] = freqs[c].value
           /\ \A c \in Cores : Wanted(freqs)[c] \in Nat
                               /\ Wanted(freqs)[c] = freqs[c].set_value
<1> SUFFICES ASSUME NEW c \in Cores
             PROVE  freqs[c].value \in Nat /\ freqs[c].set_value \in Nat
  BY DEF Given, Wanted
<1>1. freqs[c].value \in Freqs /\ freqs[c].set_value \in Freqs
  BY DEF Setting
<1> QED
  BY <1>1, List

\* A plan of more, and of less.
LEMMA PlansMore ==
    ASSUME NEW cores \in Actuator, NEW freqs \in [Cores -> Setting],
           cores.value <= cores.set_value,
           \A c \in Cores : c < cores.value => freqs[c].value <= freqs[c].set_value
    PROVE  Sum(cores.set_value, Wanted(freqs)) >= Sum(cores.value, Given(freqs))
<1> DEFINE m == cores.value
           n == cores.set_value
           f == Given(freqs)
           g == Wanted(freqs)
<1>1. m \in Int /\ n \in Int /\ m <= n
  BY DEF Actuator
<1>2. /\ \A c \in Cores : f[c] \in Nat /\ g[c] \in Nat
      /\ \A c \in Cores : c < m => f[c] <= g[c]
  BY SettingsAreNat
<1> HIDE DEF m, n, f, g
<1>3. Sum(m, f) <= Sum(n, g) /\ Sum(m, f) \in Nat /\ Sum(n, g) \in Nat
  BY <1>1, <1>2, SumFacts
<1> QED
  BY <1>3 DEF m, n, f, g

LEMMA PlansLess ==
    ASSUME NEW cores \in Actuator, NEW freqs \in [Cores -> Setting],
           cores.set_value <= cores.value,
           \A c \in Cores : c < cores.set_value => freqs[c].set_value <= freqs[c].value
    PROVE  Sum(cores.set_value, Wanted(freqs)) <= Sum(cores.value, Given(freqs))
<1> DEFINE m == cores.value
           n == cores.set_value
           f == Given(freqs)
           g == Wanted(freqs)
<1>1. m \in Int /\ n \in Int /\ n <= m
  BY DEF Actuator
<1>2. /\ \A c \in Cores : f[c] \in Nat /\ g[c] \in Nat
      /\ \A c \in Cores : c < n => g[c] <= f[c]
  BY SettingsAreNat
<1> HIDE DEF m, n, f, g
<1>3. Sum(n, g) <= Sum(m, f)
  BY <1>1, <1>2, SumFacts
<1> QED
  BY <1>3 DEF m, n, f, g

\* Products of more are more.
LEMMA ProductGrows ==
    ASSUME NEW a \in Nat, NEW b \in Nat, NEW x \in Nat, NEW y \in Nat, a <= b, x <= y
    PROVE  a * x <= b * y
<1>1. PICK d \in Nat : b = a + d
  BY b - a \in Nat
<1>2. PICK e \in Nat : y = x + e
  BY y - x \in Nat
<1>3. a * x \in Nat /\ a * e \in Nat /\ d * (x + e) \in Nat
  OBVIOUS
<1>4. b * y = a * x + a * e + d * (x + e)
  BY <1>1, <1>2
<1> QED
  BY <1>3, <1>4

\* The push of a proportional controller has the sign of the error.
LEMMA PushSign ==
    ASSUME Shape, Tuned
    PROVE  /\ ~(TooSlow /\ TooFast)
           /\ ~Integral /\ TooSlow => Push >= 0
           /\ ~Integral /\ TooFast => Push <= 0
<1>1. /\ rate \in Int /\ MinRate \in Int /\ MaxRate \in Int /\ Kp \in Nat
      /\ MinRate <= MaxRate
  BY Constants, Types DEF Tuned
<1>2. ~(TooSlow /\ TooFast)
  BY <1>1 DEF TooSlow, TooFast
<1>3. Error \in Int /\ (TooSlow => Error >= 0) /\ (TooFast => Error <= 0)
  BY <1>1 DEF TooSlow, TooFast, Error
<1>4. \A e \in Int : (e >= 0 => Kp * e >= 0) /\ (e <= 0 => Kp * e <= 0) /\ Kp * e \in Int
  BY <1>1
<1>5. ~Integral => Push = Kp * Error + 0
  BY DEF Push
<1> QED
  BY <1>2, <1>3, <1>4, <1>5

\* The table reaches from its first entry to its last.
LEMMA TableReaches ==
    ASSUME NEW x \in Range(Speeds)
    PROVE  /\ x \in Nat /\ Speeds[0] \in Nat /\ Speeds[LastOf(Speeds)] \in Nat
           /\ Speeds[0] <= x /\ x <= Speeds[LastOf(Speeds)]
           /\ \E k \in 0..LastOf(Speeds) : x = Speeds[k]
<1> DEFINE n == LastOf(Speeds)
<1>1. /\ n \in Nat /\ DOMAIN Speeds = 0..n /\ \A k \in 0..n : Speeds[k] \in Nat
      /\ \A k, l \in 0..n : k < l => Speeds[k] < Speeds[l]
  BY Entries DEF Table, Increasing
<1> HIDE DEF n
<1>2. PICK k \in 0..n : x = Speeds[k]
  BY <1>1 DEF Range
<1>3. 0 \in 0..n /\ n \in 0..n /\ (k = 0 \/ 0 < k) /\ (k = n \/ k < n)
  BY <1>1
<1> QED
  BY <1>1, <1>2, <1>3 DEF n

\* A decision on a rate off the target plans in the right direction.
LEMMA DecisionPlans ==
    ASSUME Tuned, IInv, Decide
    PROVE  Aimed' /\ Planned'
<1>1. /\ Shape /\ Counted /\ Quiet /\ Settled /\ pc = "decide"
      /\ core_act \in Actuator /\ core_act \in [value : Int, set_value : Int]
      /\ freq_act \in [Cores -> Setting]
  BY DEF IInv, Decide, Shape, Actuator
<1>2. /\ decision_f' = decision_f /\ rate' = rate /\ failed' = failed
      /\ i' = 0 /\ pc' = "act"
  BY DEF Decide, history, failures
<1>3. /\ core_act' \in Actuator /\ core_act'.value = core_act.value
      /\ freq_act' \in [Cores -> Setting]
      /\ \A c \in Cores : freq_act'[c].value = freq_act[c].value
      /\ decision_f # "step_heuristics" => freq_act' = freq_act
      /\ speed_act'.value = speed_act.value
      /\ decision_f \in MachineControllers => core_act' = core_act
      /\ decision_f = "freq_heuristics" => core_act' = core_act
      /\ gfreq_act' \in Setting /\ gfreq_act'.value = gfreq_act.value
      /\ decision_f \in Global => gfreq_act' = freq_heuristics(gfreq_act)
      /\ ~failed => core_act'.set_value \in 1..CoreCount
  BY Decided
<1>4. /\ ~(TooSlow /\ TooFast)
      /\ ~Integral /\ TooSlow => Push >= 0
      /\ ~Integral /\ TooFast => Push <= 0
      /\ Push \in Int
  BY <1>1, PushSign, PushType
<1>5. /\ TooSlow' = TooSlow /\ TooFast' = TooFast /\ Integral' = Integral
  BY <1>2 DEF TooSlow, TooFast, Integral
<1>6. Aimed'
  <2> SUFFICES ASSUME ~failed, ~Integral, decision_f \in MachineControllers,
                      speed_act.value \in Range(Speeds)
               PROVE  /\ TooSlow => speed_act'.set_value >= speed_act'.value
                      /\ TooFast => speed_act'.set_value <= speed_act'.value
    BY <1>2, <1>3, <1>5 DEF Aimed, OnTable
  <2> DEFINE x == speed_act.value
             a == Speeds[0]
             b == Speeds[LastOf(Speeds)]
  <2>1. x \in Range(Speeds)
    OBVIOUS
  <2>2. x \in Int /\ a \in Int /\ b \in Int /\ a <= x /\ x <= b
    BY <2>1, TableReaches
  <2>3. speed_act' = machine_state_controller(speed_act)
    BY DEF Decide
  <2>4. speed_act'.set_value = Clip(x + Push, a, b)
    BY <1>1, <2>3, SpeedController
  <2> HIDE DEF x, a, b
  <2>5. /\ Push >= 0 => Clip(x + Push, a, b) >= x
        /\ Push <= 0 => Clip(x + Push, a, b) <= x
    BY <1>4, <2>2 DEF Clip
  <2> QED  BY <1>3, <1>4, <2>4, <2>5 DEF x
<1>7. ASSUME ~failed PROVE Still /\ core_act.value \in 1..CoreCount
  BY <1>1, <1>7, Constants DEF Settled, Still, Counted, Actuator
\* The plan is one of more, or of less.
<1>8. ASSUME ~failed, ~Integral, TooSlow
      PROVE  /\ core_act'.value <= core_act'.set_value
             /\ \A c \in Cores : c < core_act'.value =>
                                   freq_act'[c].value <= freq_act'[c].set_value
  <2>1. /\ core_act.set_value = core_act.value /\ core_act.value \in 1..CoreCount
        /\ \A c \in Cores : freq_act[c].set_value = freq_act[c].value
        /\ core_act.value \in Int /\ CoreCount \in Int
    BY <1>7, <1>8, Constants DEF Still, Same
  <2>2. \A c \in Cores : freq_act[c].value \in Int
    BY <1>1, SettingsAreNat
  <2>3. CASE decision_f = "step_heuristics"
    <3> DEFINE last == core_act.value - 1
               k    == freq_act[last].cur_index
    <3>1. /\ core_act' = step_heuristics(freq_act, core_act).core
          /\ freq_act' = step_heuristics(freq_act, core_act).freqs
      BY <2>3 DEF Decide, Counting
    <3>2. /\ last \in Cores /\ last \in Int
          /\ FreqArray[k] = freq_act[last].set_value /\ k \in DOMAIN FreqArray
      BY <1>1, <2>1, <2>3, Constants, Types DEF Quiet
    <3>3. \/ /\ k - 1 \in DOMAIN FreqArray /\ core_act' = core_act
             /\ freq_act' = [freq_act EXCEPT ![last] = ToIndex(freq_act[last], k - 1)]
          \/ /\ core_act' = [core_act EXCEPT !.set_value = core_act.value + 1]
             /\ \E x : freq_act' = [freq_act EXCEPT ![last + 1] = x]
          \/ freq_act' = freq_act /\ core_act' = core_act
      BY <1>1, <1>4, <1>8, <2>1, <3>1, StepHeuristics
    <3>4. k - 1 \in DOMAIN FreqArray =>
            ToIndex(freq_act[last], k - 1).set_value >= freq_act[last].value
      <4>1. freq_act[last] \in Setting
        BY <1>1, <3>2
      <4>2. k - 1 < k
        <5>1. k \in Int
          BY <3>2, List
        <5> QED  BY <5>1
      <4> HIDE DEF k, last
      <4>3. SUFFICES ASSUME k - 1 \in DOMAIN FreqArray
                     PROVE  FreqArray[k - 1] >= freq_act[last].value
        BY <4>1, Indexed
      <4>4. FreqArray[k - 1] >= FreqArray[k]
        <5>1. FreqArray[k] <= FreqArray[k - 1]
          BY <3>2, <4>2, <4>3 DEF Tuned
        <5>2. FreqArray[k] \in Int /\ FreqArray[k - 1] \in Int
          BY <3>2, <4>3, List
        <5> QED  BY <5>1, <5>2
      <4> QED  BY <2>1, <3>2, <4>4
    <3> HIDE DEF k
    <3>5. ASSUME NEW c \in Cores, c < core_act.value
          PROVE  freq_act[c].value <= freq_act'[c].set_value
      <4>1. freq_act[c].value <= freq_act[c].set_value
        BY <2>1, <2>2
      <4>2. c # last + 1
        BY <2>1, <3>5, Constants
      <4>3. freq_act'[c] = freq_act[c]
              \/ (c = last /\ k - 1 \in DOMAIN FreqArray
                  /\ freq_act'[c] = ToIndex(freq_act[last], k - 1))
        <5> HIDE DEF last
        <5> QED  BY <1>1, <3>3, <4>2
      <4>4. CASE c = last /\ k - 1 \in DOMAIN FreqArray
                 /\ freq_act'[c] = ToIndex(freq_act[last], k - 1)
        <5>1. FreqArray[k - 1] \in Int /\ freq_act[last] \in Setting
          BY <1>1, <3>2, <4>4, List
        <5>2. ToIndex(freq_act[last], k - 1).set_value \in Int
          BY <4>4, <5>1, Indexed
        <5>3. freq_act[last].value \in Int
          BY <2>2, <3>2
        <5> HIDE DEF last
        <5> QED  BY <3>4, <4>4, <5>2, <5>3
      <4> QED  BY <4>1, <4>3, <4>4
    <3>6. core_act'.value <= core_act'.set_value
      BY <1>1, <2>1, <3>3
    <3> QED  BY <1>3, <3>5, <3>6
  <2>4. CASE decision_f # "step_heuristics"
    <3>1. freq_act' = freq_act
      BY <1>3, <2>4
    <3>2. core_act'.value <= core_act'.set_value
      <4>1. CASE decision_f \in Counting
        <5>1. core_act' = core_heuristics(core_act)
          BY <4>1 DEF Decide, Counting
        <5> QED  BY <1>1, <1>4, <1>8, <2>1, <5>1, CoreHeuristics
      <4>2. CASE decision_f = "core_p_controller"
        <5>1. core_act'.set_value = Clip(core_act.value + Push, 1, CoreCount)
          <6>1. core_act' = core_p_controller(core_act)
            BY <4>2 DEF Decide
          <6> QED  BY <1>1, <6>1, CoreController
        <5> DEFINE x == core_act.value
        <5>2. x \in Int /\ 1 <= x /\ x <= CoreCount /\ Push >= 0 /\ Push \in Int
          BY <1>4, <1>8, <2>1
        <5> HIDE DEF x
        <5>3. Clip(x + Push, 1, CoreCount) >= x
          BY <2>1, <5>2 DEF Clip
        <5>4. core_act'.value = x /\ core_act'.set_value >= x
          BY <1>3, <5>1, <5>3 DEF x
        <5>5. core_act'.set_value \in Int
          BY <1>3 DEF Actuator
        <5> QED  BY <5>2, <5>4, <5>5
      <4>3. CASE decision_f \notin Counting /\ decision_f # "core_p_controller"
        <5>1. core_act' = core_act
          BY <2>4, <4>3 DEF Decide, Counting
        <5> QED  BY <2>1, <5>1
      <4> QED  BY <4>1, <4>2, <4>3
    <3>3. \A c \in Cores : freq_act'[c].value <= freq_act'[c].set_value
      BY <2>1, <2>2, <3>1
    <3> QED  BY <3>2, <3>3
  <2> QED  BY <2>3, <2>4
<1>9. ASSUME ~failed, ~Integral, TooFast
      PROVE  /\ core_act'.set_value <= core_act'.value
             /\ \A c \in Cores : c < core_act'.set_value =>
                                   freq_act'[c].set_value <= freq_act'[c].value
  <2>1. /\ core_act.set_value = core_act.value /\ core_act.value \in 1..CoreCount
        /\ \A c \in Cores : freq_act[c].set_value = freq_act[c].value
        /\ core_act.value \in Int /\ CoreCount \in Int
    BY <1>7, <1>9, Constants DEF Still, Same
  <2>2. \A c \in Cores : freq_act[c].value \in Int
    BY <1>1, SettingsAreNat
  <2>3. CASE decision_f = "step_heuristics"
    <3> DEFINE last == core_act.value - 1
               k    == freq_act[last].cur_index
    <3>1. /\ core_act' = step_heuristics(freq_act, core_act).core
          /\ freq_act' = step_heuristics(freq_act, core_act).freqs
      BY <2>3 DEF Decide, Counting
    <3>2. /\ last \in Cores /\ last \in Int
          /\ FreqArray[k] = freq_act[last].set_value /\ k \in DOMAIN FreqArray
      BY <1>1, <2>1, <2>3, Constants, Types DEF Quiet
    <3>3. \/ /\ k + 1 \in DOMAIN FreqArray /\ core_act' = core_act
             /\ freq_act' = [freq_act EXCEPT ![last] = ToIndex(freq_act[last], k + 1)]
          \/ /\ core_act' = [core_act EXCEPT !.set_value = core_act.value - 1]
             /\ freq_act' = freq_act
          \/ freq_act' = freq_act /\ core_act' = core_act
      BY <1>1, <1>4, <1>9, <2>1, <3>1, StepHeuristics
    <3>4. k + 1 \in DOMAIN FreqArray =>
            /\ ToIndex(freq_act[last], k + 1).set_value <= freq_act[last].value
            /\ ToIndex(freq_act[last], k + 1).value = freq_act[last].value
      <4>1. freq_act[last] \in Setting
        BY <1>1, <3>2
      <4>2. k < k + 1
        <5>1. k \in Int
          BY <3>2, List
        <5> QED  BY <5>1
      <4> HIDE DEF k, last
      <4>3. SUFFICES ASSUME k + 1 \in DOMAIN FreqArray
                     PROVE  FreqArray[k + 1] <= freq_act[last].value
        BY <4>1, Indexed
      <4>4. FreqArray[k + 1] <= FreqArray[k]
        BY <3>2, <4>2, <4>3 DEF Tuned
      <4> QED  BY <2>1, <3>2, <4>4
    <3> HIDE DEF k
    <3>5. ASSUME NEW c \in Cores
          PROVE  freq_act'[c].set_value <= freq_act[c].value
      <4>1. freq_act[c].set_value <= freq_act[c].value
        BY <2>1, <2>2
      <4>2. freq_act'[c] = freq_act[c]
              \/ (c = last /\ k + 1 \in DOMAIN FreqArray
                  /\ freq_act'[c] = ToIndex(freq_act[last], k + 1))
        <5> HIDE DEF last
        <5> QED  BY <1>1, <3>3
      <4> HIDE DEF last
      <4> QED  BY <3>4, <4>1, <4>2
    <3>6. core_act'.set_value <= core_act'.value
      BY <1>1, <2>1, <3>3
    <3> QED  BY <1>3, <3>5, <3>6
  <2>4. CASE decision_f # "step_heuristics"
    <3>1. freq_act' = freq_act
      BY <1>3, <2>4
    <3>2. core_act'.set_value <= core_act'.value
      <4>1. CASE decision_f \in Counting
        <5>1. core_act' = core_heuristics(core_act)
          BY <4>1 DEF Decide, Counting
        <5> QED  BY <1>1, <1>4, <1>9, <2>1, <5>1, CoreHeuristics
      <4>2. CASE decision_f = "core_p_controller"
        <5>1. core_act'.set_value = Clip(core_act.value + Push, 1, CoreCount)
          <6>1. core_act' = core_p_controller(core_act)
            BY <4>2 DEF Decide
          <6> QED  BY <1>1, <6>1, CoreController
        <5> DEFINE x == core_act.value
        <5>2. x \in Int /\ 1 <= x /\ x <= CoreCount /\ Push <= 0 /\ Push \in Int
          BY <1>4, <1>9, <2>1
        <5> HIDE DEF x
        <5>3. Clip(x + Push, 1, CoreCount) <= x
          BY <2>1, <5>2 DEF Clip
        <5> QED  BY <1>3, <5>1, <5>3 DEF x
      <4>3. CASE decision_f \notin Counting /\ decision_f # "core_p_controller"
        <5>1. core_act' = core_act
          BY <2>4, <4>3 DEF Decide, Counting
        <5> QED  BY <2>1, <5>1
      <4> QED  BY <4>1, <4>2, <4>3
    <3>3. \A c \in Cores : freq_act'[c].set_value <= freq_act'[c].value
      BY <2>1, <2>2, <3>1
    <3> QED  BY <3>2, <3>3
  <2> QED  BY <2>3, <2>4
\* One frequency for all cores: one step along the list, which is in order.
<1>10. ASSUME ~failed, decision_f \in Global
       PROVE  /\ TooSlow => gfreq_act'.value <= gfreq_act'.set_value
              /\ TooFast => gfreq_act'.set_value <= gfreq_act'.value
  <2> DEFINE k   == gfreq_act.cur_index
             new == freq_heuristics(gfreq_act)
  <2>1. /\ gfreq_act \in Setting /\ k \in DOMAIN FreqArray
        /\ FreqArray[k] = gfreq_act.set_value /\ gfreq_act.set_value = gfreq_act.value
    BY <1>1, <1>10 DEF Shape, Quiet, Settled, Same, Setting
  <2>2. gfreq_act' = new
    BY <1>3, <1>10
  <2>3. \/ /\ TooSlow /\ k - 1 \in DOMAIN FreqArray /\ k - 1 < k
           /\ new = ToIndex(gfreq_act, k - 1)
        \/ /\ TooFast /\ k + 1 \in DOMAIN FreqArray /\ k < k + 1
           /\ new = ToIndex(gfreq_act, k + 1)
        \/ new = gfreq_act
    BY <2>1, FreqHeuristics
  <2> HIDE DEF k, new
  <2>4. \A l \in DOMAIN FreqArray : FreqArray[l] \in Int
    BY List
  <2>5. CASE /\ TooSlow /\ k - 1 \in DOMAIN FreqArray /\ k - 1 < k
             /\ new = ToIndex(gfreq_act, k - 1)
    <3>1. FreqArray[k] <= FreqArray[k - 1]
      BY <2>1, <2>5 DEF Tuned
    <3>2. new.set_value = FreqArray[k - 1] /\ new.value = gfreq_act.value
      BY <2>1, <2>5, Indexed
    <3> QED  BY <1>4, <2>1, <2>2, <2>5, <3>1, <3>2
  <2>6. CASE /\ TooFast /\ k + 1 \in DOMAIN FreqArray /\ k < k + 1
             /\ new = ToIndex(gfreq_act, k + 1)
    <3>1. FreqArray[k + 1] <= FreqArray[k]
      BY <2>1, <2>6 DEF Tuned
    <3>2. new.set_value = FreqArray[k + 1] /\ new.value = gfreq_act.value
      BY <2>1, <2>6, Indexed
    <3> QED  BY <1>4, <2>1, <2>2, <2>6, <3>1, <3>2
  <2>7. CASE new = gfreq_act
    <3>1. gfreq_act.value \in Int
      BY <2>1, <2>4
    <3> QED  BY <2>1, <2>2, <2>7, <3>1
  <2> QED  BY <2>3, <2>5, <2>6, <2>7
<1>11. Planned'
  <2> SUFFICES ASSUME ~failed, ~Integral
               PROVE  /\ TooSlow => PlannedSpeed' >= SpeedNow'
                      /\ TooFast => PlannedSpeed' <= SpeedNow'
    BY <1>2, <1>5 DEF Planned
  <2>1. CASE decision_f \in Global
    <3> DEFINE m == core_act'.value
               n == core_act'.set_value
               x == gfreq_act'.value
               y == gfreq_act'.set_value
    <3>1. PlannedSpeed' = n * y /\ SpeedNow' = m * x
      BY <1>2, <2>1 DEF PlannedSpeed, SpeedNow
    <3>2. m \in Nat /\ n \in Nat
      BY <1>3, <1>7, Constants
    <3>3. x \in Nat /\ y \in Nat
      BY <1>3, List DEF Setting
    <3>4. /\ TooSlow => m <= n /\ x <= y
          /\ TooFast => n <= m /\ y <= x
      BY <1>8, <1>9, <1>10, <2>1
    <3> HIDE DEF m, n, x, y
    <3>5. TooSlow => m * x <= n * y
      BY <3>2, <3>3, <3>4, ProductGrows
    <3>6. TooFast => n * y <= m * x
      BY <3>2, <3>3, <3>4, ProductGrows
    <3>7. m * x \in Nat /\ n * y \in Nat
      BY <3>2, <3>3
    <3> QED  BY <3>1, <3>5, <3>6, <3>7
  <2>2. CASE decision_f \notin Global
    <3>1. /\ SpeedNow' = Sum(core_act'.value, Given(freq_act'))
          /\ PlannedSpeed' = Sum(core_act'.set_value, Wanted(freq_act'))
      BY <1>2, <2>2 DEF get_current_speed, SpeedNow, PlannedSpeed, Sum, Given, Wanted
    <3>2. ASSUME TooSlow
          PROVE  Sum(core_act'.set_value, Wanted(freq_act'))
                   >= Sum(core_act'.value, Given(freq_act'))
      BY <1>3, <1>8, <3>2, PlansMore
    <3>3. ASSUME TooFast
          PROVE  Sum(core_act'.set_value, Wanted(freq_act'))
                   <= Sum(core_act'.value, Given(freq_act'))
      BY <1>3, <1>9, <3>3, PlansLess
    <3> QED  BY <3>1, <3>2, <3>3
  <2> QED  BY <2>1, <2>2
<1> QED
  BY <1>6, <1>11

\* The service starts with nothing planned, and has nothing planned while it waits.
LEMMA RightWaiting ==
    /\ Init => RInv
    /\ Poll \/ After => RInv'
BY DEF Init, Poll, After, RInv, Aimed, Planned

LEMMA RightApplication ==
    ASSUME RInv, Beat \/ Finish \/ UNCHANGED vars
    PROVE  RInv'
<1>1. /\ speed_act' = speed_act /\ core_act' = core_act /\ freq_act' = freq_act
      /\ gfreq_act' = gfreq_act
      /\ decision_f' = decision_f /\ pc' = pc /\ i' = i /\ rate' = rate /\ failed' = failed
  BY DEF Beat, Finish, vars, controls, history, failures
<1>2. OnTable' = OnTable
  BY <1>1 DEF OnTable
<1>3. Aimed'
  BY <1>1, <1>2 DEF RInv, Aimed, TooSlow, TooFast, Integral
<1>4. Planned'
  <2>1. PlannedSpeed' = PlannedSpeed /\ SpeedNow' = SpeedNow
    BY <1>1 DEF PlannedSpeed, SpeedNow, get_current_speed
  <2>2. TooSlow' = TooSlow /\ TooFast' = TooFast /\ Integral' = Integral
    BY <1>1 DEF TooSlow, TooFast, Integral
  <2> QED  BY <1>1, <1>2, <2>1, <2>2 DEF RInv, Planned, Same
<1> QED
  BY <1>3, <1>4 DEF RInv

\* The state that is handed on has the speed of its entry.
LEMMA SpeedHandedOn ==
    ASSUME Shape, ActSpeed, ~Same(speed_act), decision_f \notin Global
    PROVE  PlannedSpeed' = Speeds[Implemented(Speeds, speed_act.set_value)]
<1> DEFINE n == Chosen.on
           S == 0..(n - 1)
           p == Implemented(Speeds, speed_act.set_value)
           g == Chosen.core
           f == Wanted(freq_act')
<1>1. /\ n \in 1..CoreCount /\ n \in Int /\ g \in [S -> Freqs]
      /\ Chosen.speed = SumFunctionOnSet(g, S)
      /\ p \in DOMAIN States
  BY ChosenEntry, Constants
<1>2. Speeds[p] = Chosen.speed
  BY <1>1, Entries DEF Chosen
<1>3. S = {c \in Cores : c < n} /\ IsFiniteSet(S)
  BY <1>1, FirstCores, FS_Interval
<1>4. /\ core_act' = [core_act EXCEPT !.set_value = n]
      /\ freq_act' = [c \in Cores |->
                        IF c < n THEN [freq_act[c] EXCEPT !.set_value = g[c]]
                                 ELSE freq_act[c]]
  BY SpeedActed
<1>5. core_act'.set_value = n
  <2>1. core_act \in [value : Int, set_value : Int]
    BY DEF Shape, Actuator
  <2> QED  BY <1>4, <2>1
<1>6. ASSUME NEW c \in S PROVE g[c] \in Int /\ f[c] = g[c]
  <2>1. c \in Cores /\ c < n
    BY <1>3
  <2>2. freq_act[c] \in [value : Freqs, set_value : Freqs, cur_index : DOMAIN FreqArray]
    BY <2>1, Types DEF Setting
  <2>3. freq_act'[c].set_value = g[c]
    BY <1>4, <2>1, <2>2
  <2>4. g[c] \in Freqs
    BY <1>1
  <2> QED  BY <2>1, <2>3, <2>4, List DEF Wanted
<1>7. PlannedSpeed' = SumFunctionOnSet(f, S)
  <2>1. decision_f' = decision_f
    BY DEF ActSpeed, Turn
  <2> QED  BY <1>3, <1>5, <2>1 DEF PlannedSpeed, Wanted
<1> HIDE DEF f, g, S
<1>8. SumFunctionOnSet(g, S) = SumFunctionOnSet(f, S)
  BY <1>3, <1>6, SumOfEqual
<1> QED
  BY <1>1, <1>2, <1>7, <1>8

\* Rounded to the nearest entry, the plan is still on the right side: the speed
\* there is is an entry too.
LEMMA RightSpeed == ASSUME IInv, RInv, ActSpeed PROVE RInv'
<1>1. Shape /\ Quiet /\ SpeedAtHand /\ Aimed /\ Planned
  BY DEF IInv, RInv
<1>2. /\ speed_act' = speed_act /\ gfreq_act' = gfreq_act /\ failed' = failed
      /\ Same(speed_act) => freq_act' = freq_act /\ core_act' = core_act
      /\ \A c \in Cores : freq_act'[c].value = freq_act[c].value
      /\ core_act'.value = core_act.value
  BY <1>1, SpeedActed
<1>3. pc = "act" /\ pc' = "act" /\ i = 0 /\ i' = 1 /\ decision_f' = decision_f /\ rate' = rate
  <2>1. CoreCount \in Nat \ {0}
    BY Constants
  <2> QED  BY <2>1 DEF ActSpeed, Turn
<1>4. /\ TooSlow' = TooSlow /\ TooFast' = TooFast /\ Integral' = Integral
      /\ OnTable' = OnTable
  BY <1>2, <1>3 DEF TooSlow, TooFast, Integral, OnTable
<1>5. SpeedNow' = SpeedNow
  BY <1>2, <1>3 DEF SpeedNow, get_current_speed
<1>6. Aimed'
  BY <1>3 DEF Aimed
<1>7. CASE Same(speed_act)
  <2>1. PlannedSpeed' = PlannedSpeed
    BY <1>2, <1>3, <1>7 DEF PlannedSpeed
  <2>2. Planned'
    BY <1>1, <1>2, <1>3, <1>4, <1>5, <1>7, <2>1 DEF Planned, Same
  <2> QED  BY <1>6, <2>2 DEF RInv
<1>8. CASE ~Same(speed_act)
  <2> DEFINE v == speed_act.set_value
             n == LastOf(Speeds)
             p == Implemented(Speeds, v)
             x == speed_act.value
  <2>1. v \in Int /\ x \in Int /\ Table(Speeds, n)
    BY <1>1, Types, Entries
  <2>2. p \in 0..n /\ NoneBetween(Speeds, n, v, p)
    BY <2>1, ImplementedRight
  <2>3. decision_f \in MachineControllers /\ decision_f \notin Global
    <3>1. decision_f \in MachineControllers
      BY <1>1, <1>8 DEF Quiet
    <3> QED  BY <3>1 DEF Global, MachineControllers
  <2>4. PlannedSpeed' = Speeds[p]
    BY <1>1, <1>8, <2>3, SpeedHandedOn
  <2>5. DOMAIN Speeds = 0..n /\ \A k \in 0..n : Speeds[k] \in Nat
    BY <2>1 DEF Table
  <2>6. Speeds[p] \in Range(Speeds)
    BY <2>2, <2>5 DEF Range
  <2>7. Planned'
    <3> SUFFICES ASSUME ~failed, ~Integral, OnTable
                 PROVE  /\ TooSlow => Speeds[p] >= SpeedNow
                        /\ TooFast => Speeds[p] <= SpeedNow
      BY <1>2, <1>3, <1>4, <1>5, <2>4, <2>6 DEF Planned
    <3>1. x = SpeedNow
      BY <1>1, <1>3, <2>3 DEF SpeedAtHand, AtHand, SpeedNow
    <3>2. (TooSlow => v >= x) /\ (TooFast => v <= x)
      BY <1>1, <1>3, <2>3 DEF Aimed
    <3>3. x \in Range(Speeds)
      BY <2>3 DEF OnTable
    <3>4. PICK k \in 0..n : x = Speeds[k]
      BY <3>3, TableReaches
    <3>5. /\ ~(Speeds[p] < Speeds[k] /\ Speeds[k] <= v)
          /\ ~(v <= Speeds[k] /\ Speeds[k] < Speeds[p])
      BY <2>2 DEF NoneBetween
    <3>6. Speeds[p] \in Int
      BY <2>2, <2>5
    <3> HIDE DEF v, n, p, x
    <3> QED  BY <2>1, <3>1, <3>2, <3>4, <3>5, <3>6
  <2> QED  BY <1>6, <2>7 DEF RInv
<1> QED
  BY <1>7, <1>8

\* The other actions come when the plan is being carried out.
LEMMA RightActions ==
    ASSUME Shape, (\E c \in Cores : ActFreq(c)) \/ ActGlobal \/ ActCores
    PROVE  RInv'
<1>1. \E k \in 1..(CoreCount + 2) : i' = k + 1
  <2>1. CASE \E c \in Cores : ActFreq(c)
    <3>1. PICK c \in Cores : ActFreq(c)
      BY <2>1
    <3>2. c + 1 \in 1..(CoreCount + 2)
      BY Constants
    <3> QED  BY <3>1, <3>2 DEF ActFreq, Turn
  <2>2. CASE ActGlobal
    <3>1. CoreCount + 1 \in 1..(CoreCount + 2)
      BY Constants
    <3> QED  BY <2>2, <3>1 DEF ActGlobal, Turn
  <2>3. CASE ActCores
    <3>1. CoreCount + 2 \in 1..(CoreCount + 2)
      BY Constants
    <3> QED  BY <2>3, <3>1 DEF ActCores, Turn
  <2> QED  BY <2>1, <2>2, <2>3
<1>2. i' # 0 /\ i' # 1
  BY <1>1, Constants
<1> QED
  BY <1>2 DEF RInv, Aimed, Planned

LEMMA RightInduction ==
    ASSUME Tuned
    PROVE  IInv /\ RInv /\ [Next]_vars => RInv'
<1> SUFFICES ASSUME IInv, RInv, [Next]_vars PROVE RInv'
  OBVIOUS
<1>1. CASE Beat \/ Finish \/ Spin \/ UNCHANGED vars
  BY <1>1, RightApplication DEF Spin
<1>2. CASE Poll \/ After
  BY <1>2, RightWaiting
<1>3. CASE Decide
  BY <1>3, DecisionPlans DEF RInv
<1>4. CASE ActSpeed
  BY <1>4, RightSpeed
<1>5. CASE (\E c \in Cores : ActFreq(c)) \/ ActGlobal \/ ActCores
  BY <1>5, RightActions DEF IInv
<1> QED
  BY <1>1, <1>2, <1>3, <1>4, <1>5 DEF Next, Loop, Act

\* As long as no action has failed, a service whose parameters make sense never plans
\* less speed for an application that is too slow, nor more for one that is too fast,
\* with any decision function: one frequency for all cores (combined.c:418-432), counts
\* of cores, both, steps of the last core, or a speed that is rounded to an entry of
\* the table, if it was one of the table before (combined.c:302-335, 387-661).
THEOREM CombinedRightWay ==
    ASSUME Tuned
    PROVE  Spec => []RightWay
<1>1. RInv => RightWay
  BY DEF RInv, Planned, OnTable, Same, RightWay
<1>2. Init => RInv
  BY RightWaiting
<1>3. IInv /\ RInv /\ [Next]_vars => RInv'
  BY RightInduction
<1> QED
  BY <1>1, <1>2, <1>3, Invariance, PTL DEF Spec
=============================================================================
