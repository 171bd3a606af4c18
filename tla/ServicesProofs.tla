--------------------------- MODULE ServicesProofs ----------------------------
(***************************************************************************)
(* For every machine, list of frequencies, target and window, and for each *)
(* start of the services: the bookkeeping of the core allocator and of the *)
(* three frequency scalers stays true, and what keeps the unchecked writes *)
(* to records inside the array.                                            *)
(*                                                                         *)
(* The invariant of the loop, LoopInv, says why there is no entry without  *)
(* a beat of its own.  IndexKept and BelowAtTop of frequencyscaler2.c are  *)
(* inductive only together: it leaves a core when its index is 0, and that *)
(* the core then runs at the top frequency is what IndexKept says.  The    *)
(* first scaler keeps as much only until it has left wait_for in the       *)
(* past (Waiting), and its frequency is near the one of the index.         *)
(***************************************************************************)
EXTENDS Scalers, Both, WellFoundedInduction, TLAPS
-----------------------------------------------------------------------------
(* The loop of main, shared by all but the first scaler *)

\* The current record: there is no rate before the first beat.
RecordShown == /\ beat \in Int /\ beat >= -1
               /\ rate \in Rates \cup {0}
               /\ beat = -1 => rate = 0

\* The locals of a loop.  current_beat and current_beat_prev differ only inside
\* a turn.
LoopInv(l) == /\ l \in Loops
              /\ l.current_beat_prev = l.current_beat
              /\ l.current_beat = 0 \/ l.current_beat <= beat
              /\ l.pc = "poll" => l.i <= l.current_beat /\ l.current_beat < Max
              /\ l.pc = "decide" => l.i < l.current_beat /\ l.i < Max
              /\ l.i <= Max

\* Before the first turn.
LEMMA LoopStarts == LoopInv(Start)
BY ServiceLoopAssumption DEF LoopInv, Start, Loops

\* A beat of the application, or its end, leaves the record well formed and does
\* not go back.
LEMMA RecordMoves ==
    ASSUME RecordShown, Beat \/ Finish
    PROVE  RecordShown' /\ beat' >= beat
BY DEF RecordShown, Beat, Finish

\* The next turn of the loop starts only before MAX.
LEMMA AgainKeeps ==
    ASSUME NEW l \in Loops, l.current_beat_prev = l.current_beat,
           l.current_beat = 0 \/ l.current_beat <= beat,
           l.i <= l.current_beat, l.i <= Max
    PROVE  LoopInv(Again(l))
BY ServiceLoopAssumption DEF LoopInv, Again, Loops

\* Polling a record: it is only decided on if its beat is a later one.
LEMMA PolledKeeps ==
    ASSUME NEW l, LoopInv(l), RecordShown, l.pc = "poll", rate # 0
    PROVE  LoopInv(Polled(l))
<1> DEFINE new == [l EXCEPT !.current_beat = beat, !.rate = rate]
<1>1. /\ beat \in Nat /\ beat >= l.current_beat
      /\ l \in Loops /\ l.i <= l.current_beat /\ l.i < Max
  BY ServiceLoopAssumption DEF LoopInv, RecordShown, Loops
<1>2. new \in Loops /\ [new EXCEPT !.current_beat_prev = beat] \in Loops
  BY <1>1 DEF RecordShown, Loops
<1> DEFINE seen == [new EXCEPT !.current_beat_prev = beat]
<1>3. CASE beat = l.current_beat_prev
  <2>1. /\ new.current_beat_prev = new.current_beat /\ new.current_beat <= beat
        /\ new.i <= new.current_beat /\ new.i <= Max
    BY <1>1, <1>3, ServiceLoopAssumption DEF LoopInv, Loops
  <2>2. LoopInv(Again(new))
    <3> HIDE DEF new
    <3> QED  BY <1>2, <2>1, AgainKeeps
  <2> QED  BY <2>2, <1>3 DEF Polled
<1>4. CASE beat # l.current_beat_prev /\ beat < l.wait_for
  <2>1. /\ seen.current_beat_prev = seen.current_beat /\ seen.current_beat <= beat
        /\ seen.i <= seen.current_beat /\ seen.i <= Max
    BY <1>1, ServiceLoopAssumption DEF Loops
  <2>2. LoopInv(Again(seen))
    <3> HIDE DEF seen
    <3> QED  BY <1>2, <2>1, AgainKeeps DEF seen
  <2> QED  BY <2>2, <1>4 DEF Polled
<1>5. CASE beat # l.current_beat_prev /\ ~(beat < l.wait_for)
  <2> DEFINE ready == [new EXCEPT !.current_beat_prev = beat, !.pc = "decide"]
  <2>1. beat # l.current_beat
    BY <1>5 DEF LoopInv
  <2>2. ready \in Loops
    BY <1>1 DEF RecordShown, Loops
  <2>3. /\ ready.current_beat_prev = ready.current_beat
        /\ ready.current_beat = beat /\ ready.i = l.i /\ ready.pc = "decide"
    BY <1>1 DEF Loops
  <2>4. LoopInv(ready)
    <3> l.i \in Nat /\ l.current_beat \in Nat
      BY <1>1 DEF Loops
    <3> HIDE DEF ready
    <3> QED  BY <1>1, <2>1, <2>2, <2>3, ServiceLoopAssumption DEF LoopInv
  <2> QED  BY <2>4, <1>5 DEF Polled
<1> QED  BY <1>3, <1>4, <1>5

\* A decision writes one entry to records, and the loop goes on only before MAX.
LEMMA DecidedKeeps ==
    ASSUME NEW l, LoopInv(l), l.pc = "decide"
    PROVE  LoopInv(Decided(l))
<1> DEFINE wait == IF TooSlow(l) \/ TooFast(l) THEN l.current_beat + Window
                   ELSE l.current_beat + 1
           next == [l EXCEPT !.i = @ + 1, !.wait_for = wait]
<1>1. l \in Loops /\ l.i < l.current_beat /\ l.i < Max
  BY DEF LoopInv
<1>2. wait \in Nat
  BY <1>1, ServiceLoopAssumption DEF Loops
<1>3. /\ next \in Loops /\ next.i = l.i + 1
      /\ next.current_beat = l.current_beat /\ next.current_beat_prev = l.current_beat_prev
  <2>1. l.i + 1 \in Nat
    BY <1>1 DEF Loops
  <2> HIDE DEF wait
  <2>2. next = [l EXCEPT !.i = l.i + 1, !.wait_for = wait]
    BY <1>1 DEF Loops
  <2> QED  BY <1>1, <1>2, <2>1, <2>2 DEF Loops
<1>4. next.i <= next.current_beat /\ next.i <= Max
  <2> l.i \in Nat /\ l.current_beat \in Nat
    BY <1>1 DEF Loops
  <2> HIDE DEF next
  <2> QED  BY <1>1, <1>3, ServiceLoopAssumption
<1>5. LoopInv(Again(next))
  <2> HIDE DEF next
  <2> QED  BY <1>1, <1>3, <1>4, AgainKeeps DEF LoopInv
<1> QED  BY <1>5 DEF Decided
-----------------------------------------------------------------------------
(* frequencyscaler2.c *)

Indices == 0..(max_freq + Behind)
Places  == {0} \cup (0..CORES)

\* The frequencies, the current core and its index are of their types.
Shape == /\ hw \in [Cpus -> Range(FreqArray)]
         /\ current_core \in Places
         /\ current_counter \in Indices
         /\ u_next \in {0, 1} /\ go_next \in {0, 1}

\* The loop is in order, or the service was lost in the middle of a turn.
Looping == /\ fs.pc = "lost" \/ LoopInv(fs)
           /\ RecordsFit(fs)

\* The inductive invariant of frequencyscaler2.c.
IInv == RecordShown /\ Shape /\ Looping /\ IndexKept /\ BelowAtTop
-----------------------------------------------------------------------------
\* The indices of the list.
LEMMA ListFacts ==
    /\ DOMAIN FreqArray = 0..(max_freq - 1) /\ max_freq \in Nat \ {0}
    /\ Ncpus \in Nat \ {0} /\ CORES \in Int /\ CORES <= Ncpus /\ Behind \in Nat
    /\ Places \subseteq Nat /\ 0 \in Places
    /\ DOMAIN FreqArray \subseteq Indices /\ 0 \in DOMAIN FreqArray
    /\ \A k \in DOMAIN FreqArray : FreqArray[k] \in Range(FreqArray)
BY FrequencyScalerAssumption DEF Indices, Places, Range

\* cpufreq_set_frequency on the current core, with an index that is in the list
\* when the core exists: the index stands for the new frequency, and no other
\* core changes.
LEMMA SetKeeps ==
    ASSUME NEW core \in Places, NEW k \in Indices, Shape,
           core \in Cpus => k \in DOMAIN FreqArray, Set(core, k)
    PROVE  /\ hw' \in [Cpus -> Range(FreqArray)]
           /\ core \in Cpus => FreqArray[k] = hw'[core]
           /\ \A c \in Cpus : c # core => hw'[c] = hw[c]
BY ListFacts DEF Set, Shape

\* A move to another core looks its index up; if it then takes a step that stays
\* in the list, the index is that of the core's frequency again.
LEMMA MoveKeeps ==
    ASSUME NEW core \in Places, NEW step \in Int, NEW movable, Shape,
           \A k \in movable \cap Indices : k + step \in Indices,
           \A k \in movable \cap DOMAIN FreqArray : k + step \in DOMAIN FreqArray,
           MoveTo(core, step, movable)
    PROVE  /\ current_core' = core /\ current_counter' \in Indices
           /\ hw' \in [Cpus -> Range(FreqArray)]
           /\ core \in Cpus => /\ current_counter' \in DOMAIN FreqArray
                               /\ FreqArray[current_counter'] = hw'[core]
           /\ \A c \in Cpus : c # core => hw'[c] = hw[c]
<1>1. PICK k \in get_init_frequency(core) :
         IF k \in movable THEN current_counter' = k + step /\ Set(core, k + step)
         ELSE current_counter' = k /\ hw' = hw
  BY DEF MoveTo
<1>2. /\ k \in Indices
      /\ core \in Cpus => k \in DOMAIN FreqArray /\ FreqArray[k] = hw[core]
  BY ListFacts DEF get_init_frequency, Indices
<1>3. current_core' = core
  BY DEF MoveTo
<1>4. CASE k \in movable
  <2>1. k + step \in Indices /\ (core \in Cpus => k + step \in DOMAIN FreqArray)
    BY <1>2, <1>4
  <2> QED  BY <1>1, <1>3, <1>4, <2>1, SetKeeps
<1>5. CASE k \notin movable
  BY <1>1, <1>2, <1>3, <1>5 DEF Shape
<1> QED  BY <1>4, <1>5
-----------------------------------------------------------------------------
\* The inductive invariant holds when the service starts.
LEMMA InitIInv == Init => IInv
<1> SUFFICES ASSUME Init PROVE IInv
  OBVIOUS
<1> USE DEF Init
<1>1. RecordShown
  BY DEF Begin, RecordShown
<1>2. 0 \in Cpus
  BY ListFacts DEF Cpus
<1>3. Shape /\ IndexKept
  BY <1>2, ListFacts DEF Shape, IndexKept, get_init_frequency
<1>4. BelowAtTop
  BY ListFacts DEF BelowAtTop, Cpus
<1>5. Looping
  BY LoopStarts DEF Looping, LoopInv, RecordsFit
<1> QED  BY <1>1, <1>3, <1>4, <1>5 DEF IInv

\* What a step that only changes the loop's locals keeps.
LEMMA LoopStep ==
    ASSUME IInv, UNCHANGED <<application, hw, current_core, current_counter>>,
           u_next' \in {0, 1}, go_next' \in {0, 1}, Looping'
    PROVE  IInv'
BY DEF IInv, RecordShown, Shape, IndexKept, BelowAtTop, application

\* The locals after a decision.
LEMMA DecideLoops ==
    ASSUME IInv, Decide
    PROVE  Looping' /\ RecordShown'
<1>1. fs.pc = "decide" /\ fs' = Decided(fs) /\ UNCHANGED application
  BY DEF Decide
<1>2. LoopInv(fs)
  BY <1>1 DEF IInv, Looping
<1>3. LoopInv(Decided(fs))
  BY <1>1, <1>2, DecidedKeeps
<1>4. LoopInv(fs)'
  BY <1>1, <1>3 DEF LoopInv, application
<1> QED  BY <1>1, <1>4 DEF Looping, LoopInv, RecordsFit, IInv, RecordShown, application

\* Polling touches nothing but the locals.
LEMMA PollStep == ASSUME IInv, Poll PROVE IInv'
<1>1. LoopInv(fs) /\ RecordShown
  BY DEF Poll, IInv, Looping
<1>2. LoopInv(Polled(fs))
  BY <1>1, PolledKeeps DEF Poll
<1>3. LoopInv(fs)'
  BY <1>2 DEF LoopInv, Poll, application
<1>4. Looping'
  BY <1>3 DEF Looping, LoopInv, RecordsFit
<1> QED  BY <1>4, LoopStep DEF Poll, IInv, Shape

\* One frequency up: a core below the current one is not touched.
LEMMA RaiseStep == ASSUME IInv, Raise PROVE IInv'
<1>1. Looping' /\ RecordShown'
  BY DecideLoops DEF Raise
<1>2. /\ current_counter > 0 /\ current_counter' = current_counter - 1
      /\ Set(current_core, current_counter - 1)
      /\ u_next' \in {0, 1} /\ go_next' \in {0, 1} /\ current_core' = current_core
  BY DEF Raise, GoNext, IInv, Shape
<1>3. /\ current_counter - 1 \in Indices
      /\ current_core \in Cpus => current_counter - 1 \in DOMAIN FreqArray
  BY <1>2, ListFacts DEF IInv, Shape, IndexKept, Indices
<1>4. /\ hw' \in [Cpus -> Range(FreqArray)]
      /\ current_core \in Cpus => FreqArray[current_counter - 1] = hw'[current_core]
      /\ \A c \in Cpus : c # current_core => hw'[c] = hw[c]
  BY <1>2, <1>3, SetKeeps DEF IInv, Shape
<1>5. Shape'
  BY <1>2, <1>3, <1>4 DEF IInv, Shape
<1>6. IndexKept'
  BY <1>2, <1>3, <1>4 DEF IndexKept
<1>7. BelowAtTop'
  BY <1>2, <1>4 DEF IInv, Shape, BelowAtTop, Cpus
<1> QED  BY <1>1, <1>5, <1>6, <1>7 DEF IInv

\* One frequency down: the same.
LEMMA LowerStep == ASSUME IInv, Lower PROVE IInv'
<1>1. Looping' /\ RecordShown'
  BY DecideLoops DEF Lower
<1>2. /\ current_counter < max_freq - 1 /\ current_counter' = current_counter + 1
      /\ Set(current_core, current_counter + 1)
      /\ UNCHANGED <<current_core, u_next, go_next>>
  BY DEF Lower
<1>3. current_counter + 1 \in Indices /\ current_counter + 1 \in DOMAIN FreqArray
  BY <1>2, ListFacts DEF IInv, Shape, Indices
<1>4. /\ hw' \in [Cpus -> Range(FreqArray)]
      /\ current_core \in Cpus => FreqArray[current_counter + 1] = hw'[current_core]
      /\ \A c \in Cpus : c # current_core => hw'[c] = hw[c]
  BY <1>2, <1>3, SetKeeps DEF IInv, Shape
<1>5. Shape'
  BY <1>2, <1>3, <1>4 DEF IInv, Shape
<1>6. IndexKept'
  BY <1>2, <1>3, <1>4 DEF IndexKept
<1>7. BelowAtTop'
  BY <1>2, <1>4 DEF IInv, Shape, BelowAtTop, Cpus
<1> QED  BY <1>1, <1>5, <1>6, <1>7 DEF IInv

\* The core that is left is at the top frequency: its index is 0.
LEMMA NextCoreStep == ASSUME IInv, Next_core PROVE IInv'
<1>1. Looping' /\ RecordShown'
  BY DecideLoops DEF Next_core
<1>2. /\ current_counter = 0 /\ current_core < CORES /\ u_next' = 0 /\ go_next' = 0
      /\ MoveTo(current_core + 1, -1, 1..(max_freq + Behind))
  BY DEF Next_core
<1>3. current_core \in Cpus => hw[current_core] = Top
  BY <1>2 DEF IInv, IndexKept, Top
<1>4. /\ current_core + 1 \in Places
      /\ \A k \in (1..(max_freq + Behind)) \cap Indices : k + (-1) \in Indices
      /\ \A k \in (1..(max_freq + Behind)) \cap DOMAIN FreqArray : k + (-1) \in DOMAIN FreqArray
  BY <1>2, ListFacts DEF IInv, Shape, Indices, Places
<1>5. /\ current_core' = current_core + 1 /\ current_counter' \in Indices
      /\ hw' \in [Cpus -> Range(FreqArray)]
      /\ current_core + 1 \in Cpus => /\ current_counter' \in DOMAIN FreqArray
                                      /\ FreqArray[current_counter'] = hw'[current_core + 1]
      /\ \A c \in Cpus : c # current_core + 1 => hw'[c] = hw[c]
  <2>1. Shape /\ -1 \in Int
    BY DEF IInv
  <2> DEFINE core == current_core + 1
  <2>2. core \in Places /\ MoveTo(core, -1, 1..(max_freq + Behind))
    BY <1>2, <1>4
  <2> HIDE DEF core
  <2>3. /\ current_core' = core /\ current_counter' \in Indices
        /\ hw' \in [Cpus -> Range(FreqArray)]
        /\ core \in Cpus => /\ current_counter' \in DOMAIN FreqArray
                            /\ FreqArray[current_counter'] = hw'[core]
        /\ \A c \in Cpus : c # core => hw'[c] = hw[c]
    BY <1>4, <2>1, <2>2, MoveKeeps
  <2> QED  BY <2>3 DEF core
<1>6. Shape'
  BY <1>2, <1>4, <1>5 DEF Shape
<1>7. IndexKept'
  BY <1>5 DEF IndexKept
<1>8. BelowAtTop'
  BY <1>3, <1>5, ListFacts DEF IInv, Shape, BelowAtTop, Cpus
<1> QED  BY <1>1, <1>6, <1>7, <1>8 DEF IInv

\* Back to the core below: the cores below that one still are at the top.
LEMMA CoreBelowStep == ASSUME IInv, Core_below PROVE IInv'
<1>1. Looping' /\ RecordShown'
  BY DecideLoops DEF Core_below
<1>2. /\ current_core > 0 /\ UNCHANGED <<u_next, go_next>>
      /\ MoveTo(current_core - 1, 1, 0..(max_freq - 2))
  BY DEF Core_below
<1>4. /\ current_core - 1 \in Places
      /\ \A k \in (0..(max_freq - 2)) \cap Indices : k + 1 \in Indices
      /\ \A k \in (0..(max_freq - 2)) \cap DOMAIN FreqArray : k + 1 \in DOMAIN FreqArray
  BY <1>2, ListFacts DEF IInv, Shape, Indices, Places
<1>5. /\ current_core' = current_core - 1 /\ current_counter' \in Indices
      /\ hw' \in [Cpus -> Range(FreqArray)]
      /\ current_core - 1 \in Cpus => /\ current_counter' \in DOMAIN FreqArray
                                      /\ FreqArray[current_counter'] = hw'[current_core - 1]
      /\ \A c \in Cpus : c # current_core - 1 => hw'[c] = hw[c]
  <2>1. Shape /\ 1 \in Int
    BY DEF IInv
  <2> DEFINE core == current_core - 1
  <2>2. core \in Places /\ MoveTo(core, 1, 0..(max_freq - 2))
    BY <1>2, <1>4
  <2> HIDE DEF core
  <2>3. /\ current_core' = core /\ current_counter' \in Indices
        /\ hw' \in [Cpus -> Range(FreqArray)]
        /\ core \in Cpus => /\ current_counter' \in DOMAIN FreqArray
                            /\ FreqArray[current_counter'] = hw'[core]
        /\ \A c \in Cpus : c # core => hw'[c] = hw[c]
    BY <1>4, <2>1, <2>2, MoveKeeps
  <2> QED  BY <2>3 DEF core
<1>6. Shape'
  BY <1>2, <1>4, <1>5 DEF IInv, Shape
<1>7. IndexKept'
  BY <1>5 DEF IndexKept
<1>8. BelowAtTop'
  BY <1>5, ListFacts DEF IInv, Shape, BelowAtTop, Cpus
<1> QED  BY <1>1, <1>6, <1>7, <1>8 DEF IInv

\* At a limit, or in the target, only the notes for the next move change.
LEMMA KeepStep == ASSUME IInv, Keep PROVE IInv'
<1>1. Looping'
  BY DecideLoops DEF Keep
<1>2. u_next' \in {0, 1} /\ go_next' \in {0, 1}
  BY DEF Keep, GoNext, IInv, Shape
<1> QED  BY <1>1, <1>2, LoopStep DEF Keep, Decide

\* The service dies in the lookup, before it changed anything.
LEMMA LostStep == ASSUME IInv, Lost PROVE IInv'
<1>1. fs \in Loops /\ RecordsFit(fs)
  BY DEF Lost, IInv, Looping, LoopInv
<1>2. fs'.pc = "lost" /\ fs'.i = fs.i
  BY <1>1 DEF Lost, Loops
<1>3. Looping'
  BY <1>1, <1>2 DEF Looping, RecordsFit
<1> QED  BY <1>3, LoopStep DEF Lost, IInv, Shape

\* A beat of the application, or its end.
LEMMA ApplicationStep ==
    ASSUME IInv, Beat \/ Finish, UNCHANGED scaler
    PROVE  IInv'
<1>1. RecordShown' /\ beat' >= beat
  BY RecordMoves DEF IInv
<1>2. UNCHANGED <<hw, current_core, current_counter, u_next, go_next, fs>>
  BY DEF scaler
<1>3. LoopInv(fs) => LoopInv(fs)'
  <2> HAVE LoopInv(fs)
  <2>1. fs.current_beat \in Nat /\ beat \in Int /\ beat' \in Int
    BY <1>1 DEF LoopInv, Loops, IInv, RecordShown
  <2> QED  BY <1>1, <1>2, <2>1 DEF LoopInv
<1>4. Looping'
  BY <1>2, <1>3 DEF IInv, Looping, RecordsFit
<1> QED  BY <1>1, <1>2, <1>4 DEF IInv, Shape, IndexKept, BelowAtTop

\* Every step keeps the inductive invariant.
LEMMA NextIInv == IInv /\ [Next]_vars => IInv'
<1> SUFFICES ASSUME IInv, [Next]_vars PROVE IInv'
  OBVIOUS
<1>1. CASE UNCHANGED vars
  <2>1. UNCHANGED <<application, scaler>>
    BY <1>1 DEF vars
  <2>2. UNCHANGED <<beat, rate, app, hw, current_core, current_counter, u_next, go_next, fs>>
    BY <2>1 DEF application, scaler
  <2>3. Looping'
    BY <2>2 DEF IInv, Looping, LoopInv, RecordsFit
  <2> QED  BY <2>2, <2>3 DEF IInv, RecordShown, Shape, IndexKept, BelowAtTop
<1>2. CASE (Beat \/ Finish) /\ UNCHANGED scaler
  BY <1>2, ApplicationStep
<1>3. CASE Step
  BY <1>3, PollStep, RaiseStep, NextCoreStep, LowerStep, CoreBelowStep, KeepStep, LostStep
     DEF Step
<1>4. CASE Spin \/ Done
  BY <1>1, <1>4 DEF Spin, Done
<1> QED  BY <1>1, <1>2, <1>3, <1>4 DEF Next

\* The inductive invariant.
THEOREM ScalerInvariance == Spec => []IInv
BY InitIInv, NextIInv, PTL DEF Spec

\* The index is that of the frequency the current core runs at.
THEOREM IndexCorrect == Spec => []IndexKept
<1>1. IInv => IndexKept
  BY DEF IInv
<1> QED  BY <1>1, ScalerInvariance, PTL

\* The cores below the current one run at the top frequency.
THEOREM BelowCorrect == Spec => []BelowAtTop
<1>1. IInv => BelowAtTop
  BY DEF IInv
<1> QED  BY <1>1, ScalerInvariance, PTL

\* No write to records is behind its end.
THEOREM RecordsCorrect == Spec => []RecordsInArray
<1>1. IInv => RecordsInArray
  BY DEF IInv, Looping, RecordsInArray
<1> QED  BY <1>1, ScalerInvariance, PTL

\* Type correctness.
THEOREM ScalerTyping == Spec => []TypeOK
<1>1. IInv => TypeOK
  BY DEF IInv, Shape, Indices, Places, Looping, LoopInv, TypeOK
<1> QED  BY <1>1, ScalerInvariance, PTL
-----------------------------------------------------------------------------
(* frequencyscaler.c *)

\* Whichever scaler runs, it is a behaviour of frequencyscaler2.c: while the first
\* runs, the second stands still (module Scalers).
THEOREM EitherScaler == ScalersSpec => Spec
<1>1. ScalersInit => Init
  BY DEF ScalersInit
<1>2. [ScalersNext]_all => [Next]_vars
  <2> SUFFICES ASSUME [ScalersNext]_all PROVE [Next]_vars
    OBVIOUS
  <2>1. CASE UNCHANGED all
    BY <2>1 DEF all
  <2>2. CASE (Beat \/ Finish) /\ UNCHANGED <<scaler, scaler0, program>>
    BY <2>2 DEF Next
  <2>3. CASE Scaler0
    <3>1. UNCHANGED <<application, scaler>>
      BY <2>3 DEF Scaler0, First!Step, First!Poll, First!Raise, First!AtTop, First!Lower,
                  First!InTarget, First!Decide, First!application, application
    <3> QED  BY <3>1 DEF vars
  <2>4. CASE Scaler2
    BY <2>4 DEF Scaler2, Next
  <2>5. CASE (Spin \/ Done) /\ UNCHANGED <<scaler0, program>>
    BY <2>5 DEF Next
  <2> QED  BY <2>1, <2>2, <2>3, <2>4, <2>5 DEF ScalersNext
<1> QED  BY <1>1, <1>2, PTL DEF ScalersSpec, Spec

\* The list has its highest frequencies first, as cpufreq gives it.
Descending == \A k, l \in DOMAIN FreqArray : k < l => FreqArray[l] <= FreqArray[k]

\* Until a decision has left wait_for in the past, each is on a beat of its own.
Waiting ==
    ~unwaited => /\ fs0.pc # "lost"
                 /\ fs0.pc = "decide" => fs0.i < fs0.current_beat /\ fs0.i < Max
                 /\ fs0.pc # "decide" => /\ fs0.i <= fs0.current_beat
                                         /\ fs0.current_beat < fs0.wait_for

\* The locals of the first scaler, whose pc may also be "lost".
Locals == [pc : {"poll", "decide", "done", "lost"}, current_beat : Nat,
           current_beat_prev : Nat, wait_for : Nat, rate : Rates \cup {0}, i : Nat]

\* The variables of the first scaler are of their types.
FirstShape == /\ frequency \in First!Range(FreqArray)
              /\ counter0 \in 0..max_freq
              /\ fs0 \in Locals
              /\ unwaited \in BOOLEAN

\* The inductive invariant of frequencyscaler.c.
FirstInv == /\ RecordShown /\ FirstShape /\ First!IndexFollowed /\ Waiting
            /\ fs0.current_beat = 0 \/ fs0.current_beat <= beat
            /\ fs0.pc = "poll" => fs0.current_beat < Max - 1

\* The list of the first scaler is that of the others.
LEMMA FirstList ==
    /\ First!current = max_freq /\ max_freq \in Nat \ {0}
    /\ DOMAIN FreqArray = 0..(max_freq - 1) /\ 0 \in DOMAIN FreqArray
    /\ \A k \in DOMAIN FreqArray : /\ FreqArray[k] \in Nat
                                   /\ FreqArray[k] \in First!Range(FreqArray)
    /\ First!Range(FreqArray) = {FreqArray[k] : k \in DOMAIN FreqArray}
<1>1. First!current = max_freq
  BY DEF max_freq, First!current, First!Cardinality, Cardinality
<1> QED
  BY <1>1, FrequencyScalerAssumption DEF First!Range

\* The MHz of the command are less than one too low, and ten at most too high.
LEMMA Rounded ==
    ASSUME NEW speed \in Nat
    PROVE  LET asked == 1000 * First!get_speed(speed)
           IN  asked \in Int /\ speed - 1000 < asked /\ asked <= speed + 10000
<1> DEFINE unit == IF speed > 1000000 THEN 10000 ELSE IF speed > 100000 THEN 1000
                   ELSE IF speed > 1000 THEN 100 ELSE 1
           up   == IF 2 * (speed % unit) >= unit THEN unit ELSE 0
<1>1. unit \in Nat /\ unit <= 10000
  BY SMT
<1>2. First!get_speed(speed) = (speed + up) \div 1000
  BY SMT DEF First!get_speed
<1> HIDE DEF unit
<1>0. up \in Nat /\ up <= 10000
  BY <1>1
<1> HIDE DEF up
<1>3. speed + up \in Nat /\ speed <= speed + up /\ speed + up <= speed + 10000
  BY <1>0
<1>4. \A x \in Nat : /\ x \div 1000 \in Int
                     /\ x - 1000 < 1000 * (x \div 1000) /\ 1000 * (x \div 1000) <= x
  OBVIOUS
<1> DEFINE x == speed + up
<1>5. /\ x \div 1000 \in Int
      /\ x - 1000 < 1000 * (x \div 1000) /\ 1000 * (x \div 1000) <= x
  BY <1>3, <1>4
<1> QED
  BY <1>2, <1>3, <1>5

\* The kernel makes of them a frequency near the one that was meant.
LEMMA GrantedNear ==
    ASSUME Descending, NEW k \in DOMAIN FreqArray
    PROVE  LET granted == First!Granted(1000 * First!get_speed(FreqArray[k]))
           IN  /\ granted \in First!Range(FreqArray)
               /\ granted > FreqArray[k] - 1000
               /\ \A freq \in First!Range(FreqArray) :
                    freq >= FreqArray[k] + 10000 => granted <= freq
<1> DEFINE asked  == 1000 * First!get_speed(FreqArray[k])
           enough == {freq \in First!Range(FreqArray) : freq >= asked}
           best   == CHOOSE freq \in enough : \A other \in enough : freq <= other
<1>1. /\ k \in Nat /\ FreqArray[k] \in Nat /\ 0 \in DOMAIN FreqArray
      /\ \A freq \in First!Range(FreqArray) : freq \in Nat
      /\ FreqArray[0] \in First!Range(FreqArray) /\ FreqArray[0] \in Nat
  BY FirstList
<1>2. asked \in Int /\ FreqArray[k] - 1000 < asked /\ asked <= FreqArray[k] + 10000
  BY <1>1, Rounded
<1>3. First!Granted(asked) = IF enough = {} THEN FreqArray[0] ELSE best
  BY DEF First!Granted
<1> HIDE DEF asked
\* More was asked for than there is: the kernel gives what there is.
<1>4. CASE enough = {}
  <2>1. FreqArray[k] <= FreqArray[0]
    BY <1>1 DEF Descending
  <2>2. \A freq \in First!Range(FreqArray) : ~(freq >= FreqArray[k] + 10000)
    BY <1>1, <1>2, <1>4
  <2> QED  BY <1>1, <1>3, <1>4, <2>1, <2>2 DEF asked
<1>5. CASE enough # {}
  <2>1. enough \in SUBSET Nat
    BY <1>1
  <2>2. \E freq \in enough : \A other \in enough : freq <= other
    <3>1. PICK freq \in enough : \A other \in enough : <<other, freq>> \notin OpToRel(<, Nat)
      BY <1>5, <2>1, NatLessThanWellFounded, WFMin
    <3>2. \A other \in enough : ~(other < freq)
      BY <2>1, <3>1 DEF OpToRel
    <3> QED  BY <2>1, <3>2
  <2>3. best \in enough /\ \A other \in enough : best <= other
    BY <2>2
  <2> HIDE DEF best
  <2>4. best \in First!Range(FreqArray) /\ best \in Nat /\ best >= asked
    BY <1>1, <2>3
  <2>5. best > FreqArray[k] - 1000
    BY <1>1, <1>2, <2>4
  <2>6. ASSUME NEW freq \in First!Range(FreqArray), freq >= FreqArray[k] + 10000
        PROVE  best <= freq
    <3>1. freq >= asked
      BY <1>1, <1>2, <2>6
    <3> QED  BY <2>3, <3>1
  <2> QED  BY <1>3, <1>5, <2>4, <2>5, <2>6 DEF asked
<1> QED  BY <1>4, <1>5

\* The locals are those of the loop, but for the pc.
LEMMA FirstTypes == FirstShape => First!TypeOK
<1>1. ASSUME fs0 \in Locals
      PROVE  [fs0 EXCEPT !.pc = "poll"] \in First!Loops
  BY <1>1 DEF Locals, First!Loops
<1> QED  BY <1>1, FirstList DEF FirstShape, First!TypeOK, Locals

\* The loop goes on before MAX - 1.
LEMMA Turned ==
    ASSUME NEW l \in Locals
    PROVE  /\ First!Turn(l) \in Locals
           /\ First!Turn(l).pc \in {"poll", "done"}
           /\ First!Turn(l).pc = "poll" => l.current_beat < Max - 1
           /\ First!Turn(l).current_beat = l.current_beat
           /\ First!Turn(l).wait_for = l.wait_for /\ First!Turn(l).i = l.i
BY DEF First!Turn, Locals

\* A decision: one entry of records, on a beat of its own unless wait_for was left
\* in the past.
LEMMA FirstDecides ==
    ASSUME FirstInv, NEW wait_for \in Nat, First!Decide(wait_for)
    PROVE  /\ fs0' \in Locals /\ unwaited' \in BOOLEAN /\ Waiting' /\ RecordShown'
           /\ fs0'.current_beat = 0 \/ fs0'.current_beat <= beat'
           /\ fs0'.pc = "poll" => fs0'.current_beat < Max - 1
           /\ UNCHANGED <<beat, rate, app>>
<1>1. /\ fs0 \in Locals /\ unwaited \in BOOLEAN /\ fs0.pc = "decide"
      /\ fs0.i \in Nat /\ fs0.current_beat \in Nat
  BY DEF FirstInv, FirstShape, First!Decide, Locals
<1>2. UNCHANGED <<beat, rate, app>>
  BY DEF First!Decide, First!application
<1>3. /\ unwaited' = (unwaited \/ wait_for <= fs0.current_beat)
      /\ unwaited' \in BOOLEAN
  BY <1>1 DEF First!Decide
<1>4. RecordShown'
  BY <1>2 DEF FirstInv, RecordShown
<1>5. CASE fs0.i = Max
  <2>1. fs0' = [fs0 EXCEPT !.pc = "lost"]
    BY <1>5 DEF First!Decide
  <2>2. /\ fs0' \in Locals /\ fs0'.pc = "lost" /\ fs0'.current_beat = fs0.current_beat
    BY <1>1, <2>1 DEF Locals
  <2>3. unwaited
    BY <1>1, <1>5, ServiceLoopAssumption DEF FirstInv, Waiting
  <2> QED  BY <1>2, <1>3, <1>4, <2>2, <2>3 DEF FirstInv, Waiting
<1>6. CASE fs0.i # Max
  <2> DEFINE n == fs0.i + 1
             next == [fs0 EXCEPT !.i = n, !.wait_for = wait_for]
  <2>1. n \in Nat
    BY <1>1
  <2>2. next \in Locals /\ next.i = n /\ next.wait_for = wait_for
        /\ next.current_beat = fs0.current_beat
    BY <1>1, <2>1 DEF Locals
  <2>3. fs0' = First!Turn(next)
    <3>1. [fs0 EXCEPT !.i = @ + 1, !.wait_for = wait_for] = next
      BY <1>1 DEF Locals
    <3> QED  BY <1>6, <3>1 DEF First!Decide
  <2> HIDE DEF next
  <2>4. /\ fs0' \in Locals /\ fs0'.pc \in {"poll", "done"}
        /\ fs0'.pc = "poll" => fs0.current_beat < Max - 1
        /\ fs0'.current_beat = fs0.current_beat
        /\ fs0'.wait_for = wait_for /\ fs0'.i = n
    BY <2>2, <2>3, Turned
  <2>5. Waiting'
    <3> SUFFICES ASSUME ~unwaited'
                 PROVE  n <= fs0.current_beat /\ fs0.current_beat < wait_for
      BY <2>4 DEF Waiting
    <3>1. ~unwaited /\ ~(wait_for <= fs0.current_beat)
      BY <1>3
    <3>2. fs0.i < fs0.current_beat
      BY <1>1, <3>1 DEF FirstInv, Waiting
    <3> QED  BY <1>1, <3>1, <3>2
  <2> QED  BY <1>2, <1>3, <1>4, <2>4, <2>5 DEF FirstInv
<1> QED  BY <1>5, <1>6

\* The frequency that is set is near the one of its index.
LEMMA FirstSets ==
    ASSUME Descending, NEW k \in 0..max_freq, First!Set(k), counter0' = k
    PROVE  frequency' \in First!Range(FreqArray) /\ First!IndexFollowed'
<1>1. CASE k \in DOMAIN FreqArray
  <2>1. frequency' = First!Granted(1000 * First!get_speed(FreqArray[k]))
    BY <1>1 DEF First!Set
  <2>2. /\ frequency' \in First!Range(FreqArray)
        /\ frequency' > FreqArray[k] - 1000
        /\ \A freq \in First!Range(FreqArray) :
             freq >= FreqArray[k] + 10000 => frequency' <= freq
    BY <1>1, <2>1, GrantedNear
  <2> QED  BY <2>2 DEF First!IndexFollowed
<1>2. CASE k \notin DOMAIN FreqArray
  BY <1>2 DEF First!Set, First!IndexFollowed
<1> QED  BY <1>1, <1>2

\* Polling: wait_for passes the record over, or it is decided on.
LEMMA FirstPoll == ASSUME FirstInv, First!Poll PROVE FirstInv'
<1> DEFINE new == [fs0 EXCEPT !.current_beat = beat, !.current_beat_prev = beat,
                              !.rate = rate]
           ready == [new EXCEPT !.pc = "decide"]
<1>1. /\ fs0.pc = "poll" /\ rate # 0
      /\ fs0' = IF beat < fs0.wait_for THEN First!Turn(new) ELSE ready
      /\ UNCHANGED <<beat, rate, app, frequency, counter0, unwaited>>
  BY DEF First!Poll, First!application
<1>2. /\ fs0 \in Locals /\ unwaited \in BOOLEAN /\ beat \in Nat /\ rate \in Rates
      /\ fs0.i \in Nat /\ fs0.current_beat \in Nat /\ fs0.wait_for \in Nat
      /\ fs0.current_beat <= beat /\ fs0.current_beat < Max - 1
  BY <1>1 DEF FirstInv, FirstShape, RecordShown, Locals
<1>3. /\ new \in Locals /\ new.current_beat = beat /\ new.i = fs0.i
      /\ new.wait_for = fs0.wait_for
  BY <1>2 DEF Locals
<1>4. /\ ready \in Locals /\ ready.pc = "decide" /\ ready.current_beat = beat
      /\ ready.i = fs0.i
  BY <1>2 DEF Locals
<1> HIDE DEF new, ready
<1>5. ~unwaited => fs0.i <= fs0.current_beat /\ fs0.current_beat < fs0.wait_for
  BY <1>1 DEF FirstInv, Waiting
<1>6. CASE beat < fs0.wait_for
  <2>1. /\ fs0' \in Locals /\ fs0'.pc \in {"poll", "done"}
        /\ fs0'.pc = "poll" => beat < Max - 1
        /\ fs0'.current_beat = beat /\ fs0'.wait_for = fs0.wait_for /\ fs0'.i = fs0.i
    BY <1>1, <1>3, <1>6, Turned
  <2>2. Waiting'
    BY <1>1, <1>2, <1>5, <1>6, <2>1 DEF Waiting
  <2>3. FirstShape'
    BY <1>1, <2>1 DEF FirstInv, FirstShape
  <2> QED  BY <1>1, <1>2, <2>1, <2>2, <2>3 DEF FirstInv, RecordShown, First!IndexFollowed
<1>7. CASE ~(beat < fs0.wait_for)
  <2>1. /\ fs0' \in Locals /\ fs0'.pc = "decide" /\ fs0'.current_beat = beat
        /\ fs0'.i = fs0.i
    BY <1>1, <1>4, <1>7
  <2>2. Waiting'
    BY <1>1, <1>2, <1>5, <1>7, <2>1, ServiceLoopAssumption DEF Waiting
  <2>3. FirstShape'
    BY <1>1, <2>1 DEF FirstInv, FirstShape
  <2> QED  BY <1>1, <1>2, <2>1, <2>2, <2>3 DEF FirstInv, RecordShown, First!IndexFollowed
<1> QED  BY <1>6, <1>7

\* What a decision does to the frequency and its index.
LEMMA FirstDecision ==
    ASSUME Descending, FirstInv, First!Raise \/ First!AtTop \/ First!Lower \/ First!InTarget
    PROVE  FirstInv'
<1>1. /\ counter0 \in 0..max_freq /\ counter0 \in Int /\ max_freq \in Int
      /\ frequency \in First!Range(FreqArray)
      /\ fs0.current_beat \in Nat /\ fs0.wait_for \in Nat
  BY FirstList DEF FirstInv, FirstShape, Locals
<1>2. \E wait_for \in Nat : First!Decide(wait_for)
  <2>1. /\ fs0.current_beat + Window \in Nat /\ fs0.current_beat + 1 \in Nat
    BY <1>1, ServiceLoopAssumption
  <2> QED
    BY <1>1, <2>1 DEF First!Raise, First!AtTop, First!Lower, First!InTarget
<1>3. /\ fs0' \in Locals /\ unwaited' \in BOOLEAN /\ Waiting' /\ RecordShown'
      /\ fs0'.current_beat = 0 \/ fs0'.current_beat <= beat'
      /\ fs0'.pc = "poll" => fs0'.current_beat < Max - 1
  BY <1>2, FirstDecides
<1>4. \/ UNCHANGED <<frequency, counter0>>
      \/ \E k \in 0..max_freq : First!Set(k) /\ counter0' = k
  <2>1. CASE First!Raise
    <3>1. counter0 - 1 \in 0..max_freq /\ First!Set(counter0 - 1) /\ counter0' = counter0 - 1
      BY <1>1, <2>1 DEF First!Raise
    <3> QED  BY <3>1
  <2>2. CASE First!Lower
    <3>1. CASE counter0 < First!current
      <4>1. counter0 + 1 \in 0..max_freq /\ First!Set(counter0 + 1) /\ counter0' = counter0 + 1
        BY <1>1, <2>2, <3>1, FirstList DEF First!Lower
      <4> QED  BY <4>1
    <3>2. CASE ~(counter0 < First!current)
      BY <2>2, <3>2 DEF First!Lower
    <3> QED  BY <3>1, <3>2
  <2>3. CASE First!AtTop \/ First!InTarget
    BY <2>3 DEF First!AtTop, First!InTarget
  <2> QED  BY <2>1, <2>2, <2>3
<1>5. /\ frequency' \in First!Range(FreqArray) /\ First!IndexFollowed'
      /\ counter0' \in 0..max_freq
  <2>1. CASE UNCHANGED <<frequency, counter0>>
    BY <1>1, <2>1 DEF FirstInv, First!IndexFollowed
  <2>2. CASE \E k \in 0..max_freq : First!Set(k) /\ counter0' = k
    BY <2>2, FirstSets
  <2> QED  BY <1>4, <2>1, <2>2
<1>6. FirstShape'
  BY <1>3, <1>5 DEF FirstShape
<1> QED  BY <1>3, <1>5, <1>6 DEF FirstInv

\* The invariant of the first scaler, and what the other one does to it.
LEMMA FirstInduction ==
    ASSUME Descending
    PROVE  /\ ScalersInit => FirstInv
           /\ FirstInv /\ [ScalersNext]_all => FirstInv'
<1>1. ScalersInit => FirstInv
  <2> SUFFICES ASSUME ScalersInit PROVE FirstInv
    OBVIOUS
  <2>1. First!Init /\ Begin
    BY DEF ScalersInit, Init
  <2>2. RecordShown
    BY <2>1 DEF Begin, RecordShown
  <2> DEFINE l == First!Start
  <2>3. /\ l \in Locals /\ l.current_beat = 0 /\ l.i = 0 /\ l.wait_for = Window
    BY ServiceLoopAssumption DEF First!Start, Locals
  <2>4. fs0 = First!Turn(l) /\ unwaited = FALSE
    BY <2>1 DEF First!Init
  <2> HIDE DEF l
  <2>5. /\ fs0 \in Locals /\ fs0.pc \in {"poll", "done"} /\ fs0.current_beat = 0
        /\ fs0.pc = "poll" => 0 < Max - 1
        /\ fs0.i = 0 /\ fs0.wait_for = Window
    BY <2>3, <2>4, Turned
  <2>6. /\ frequency \in First!Range(FreqArray)
        /\ counter0 \in DOMAIN FreqArray /\ FreqArray[counter0] = frequency
    BY <2>1, FirstList DEF First!Init, First!get_init_frequency
  <2>7. counter0 \in 0..max_freq /\ counter0 \in Nat
    BY <2>6, FirstList
  <2>8. FirstShape
    BY <2>4, <2>5, <2>6, <2>7 DEF FirstShape
  <2>9. First!IndexFollowed
    <3>1. /\ frequency \in Nat
          /\ \A freq \in First!Range(FreqArray) : freq \in Nat
      BY <2>6, FirstList
    <3>2. frequency > frequency - 1000
      BY <3>1
    <3>3. \A freq \in First!Range(FreqArray) : freq >= frequency + 10000 => frequency <= freq
      BY <3>1
    <3> QED  BY <2>6, <3>2, <3>3 DEF First!IndexFollowed
  <2>10. Waiting
    BY <2>5, ServiceLoopAssumption DEF Waiting
  <2> QED  BY <2>2, <2>5, <2>8, <2>9, <2>10 DEF FirstInv
<1>2. ASSUME FirstInv, [ScalersNext]_all PROVE FirstInv'
  <2>1. CASE First!Step
    BY <1>2, <2>1, FirstPoll, FirstDecision DEF First!Step
  <2>2. CASE (Beat \/ Finish) /\ UNCHANGED scaler0
    <3>1. RecordShown' /\ beat' >= beat /\ beat \in Int /\ beat' \in Int
      BY <1>2, <2>2, RecordMoves DEF FirstInv, RecordShown
    <3>2. UNCHANGED <<frequency, counter0, fs0, unwaited>>
      BY <2>2 DEF scaler0
    <3>3. fs0.current_beat \in Nat
      BY <1>2 DEF FirstInv, FirstShape, Locals
    <3>4. fs0'.current_beat = 0 \/ fs0'.current_beat <= beat'
      BY <1>2, <3>1, <3>2, <3>3 DEF FirstInv
    <3> QED
      BY <1>2, <3>1, <3>2, <3>4 DEF FirstInv, FirstShape, First!IndexFollowed, Waiting
  <2>3. CASE UNCHANGED <<application, scaler0>>
    <3>1. UNCHANGED <<beat, rate, app, frequency, counter0, fs0, unwaited>>
      BY <2>3 DEF application, scaler0
    <3> QED
      BY <1>2, <3>1 DEF FirstInv, RecordShown, FirstShape, First!IndexFollowed, Waiting
  <2>4. ASSUME Scaler2 PROVE UNCHANGED <<application, scaler0>>
    BY <2>4 DEF Scaler2, Step, Poll, Raise, Next_core, Lower, Core_below, Keep, Lost, Decide
  <2> QED
    BY <1>2, <2>1, <2>2, <2>3, <2>4
       DEF ScalersNext, Scaler0, Spin, Done, all, vars
<1> QED  BY <1>1, <1>2

\* On every list in order, with steps of any size, the first scaler keeps core 0 at the
\* frequency of its index, as far as the rounding can tell frequencies apart, and
\* leaves its array only from the top frequency (frequencyscaler.c:148-174, 314-420).
THEOREM FirstScalerCorrect ==
    ASSUME Descending
    PROVE  ScalersSpec => []FirstScaler
<1>1. FirstInv => FirstScaler
  <2> SUFFICES ASSUME FirstInv PROVE First!LostAtTop
    BY FirstTypes DEF FirstInv, FirstScaler
  <2>1. fs0.i \in Nat /\ fs0.current_beat \in Nat
    BY DEF FirstInv, FirstShape, Locals
  <2> QED  BY <2>1 DEF FirstInv, Waiting, First!LostAtTop
<1> QED  BY <1>1, FirstInduction, PTL DEF ScalersSpec
-----------------------------------------------------------------------------
(* The two services of both.sh *)

\* The inductive invariant of the two services.
BothInv == /\ RecordShown /\ BothTypeOK
           /\ LoopInv(ca) /\ LoopInv(fs1)
           /\ CountKept /\ BothIndexKept

\* The list is one of frequencies with indices from 0, and both services count the
\* cores alike.
LEMMA BothConstants ==
    /\ Ncpus \in Nat \ {0} /\ Guesses \subseteq 0..32 /\ CORES \in Int
    /\ FS!current \in Nat \ {0} /\ DOMAIN FreqArray = 0..(FS!current - 1)
    /\ \A k \in DOMAIN FreqArray : /\ FreqArray[k] \in Nat \ {0}
                                   /\ FreqArray[k] \in FS!Range(FreqArray)
    /\ CA!Cpus = 0..(Ncpus - 1) /\ FS!Cpus = 0..(Ncpus - 1)
BY BothAssumption DEF CA!Cpus, FS!Cpus, FS!Range
-----------------------------------------------------------------------------
\* It holds when the services start.
LEMMA BothBegins == BothInit => BothInv
<1> SUFFICES ASSUME BothInit PROVE BothInv
  OBVIOUS
<1>1. CA!Init /\ FS!Init
  BY DEF BothInit
<1>2. RecordShown
  BY <1>1 DEF CA!Init, Begin, CA!Begin, RecordShown
<1>3. LoopInv(ca) /\ LoopInv(fs1)
  BY <1>1, LoopStarts DEF CA!Init, FS!Init, Start, CA!Start, FS!Start
<1>4. CA!TypeOK
  BY <1>1, <1>3, BothConstants DEF CA!Init, CA!TypeOK, LoopInv, Loops, CA!Loops
<1>5. 0 \in FS!Cpus
  BY BothConstants
<1>6. FS!get_init_frequency(0) \in DOMAIN FreqArray
  BY <1>1, <1>5, BothConstants DEF FS!Init, FS!get_init_frequency, FS!Range
<1>7. FS!TypeOK
  <2>1. counter1 \in 0..FS!current
    BY <1>1, <1>6, BothConstants DEF FS!Init
  <2>2. fs1 \in FS!Loops
    BY <1>3 DEF LoopInv, Loops, FS!Loops
  <2> QED  BY <1>1, <2>1, <2>2 DEF FS!Init, FS!TypeOK
<1>8. CountKept /\ BothIndexKept
  BY <1>1 DEF CA!Init, FS!Init, CountKept, BothIndexKept, CA!CountKept, FS!IndexKept
<1> QED  BY <1>2, <1>3, <1>4, <1>7, <1>8 DEF BothInv, BothTypeOK

\* A step of the core allocator.
LEMMA AllocatorStep ==
    ASSUME BothInv, CA!Step, UNCHANGED scaler1
    PROVE  BothInv'
<1> USE DEF BothInv, BothTypeOK
<1>1. UNCHANGED <<beat, rate, app, hw1, counter1, fs1, scaled>>
  BY DEF scaler1, CA!Step, CA!Poll, CA!Add, CA!Take, CA!Keep, CA!Decide, CA!application
<1>2. RecordShown'
  BY <1>1 DEF RecordShown
<1>3. FS!TypeOK' /\ BothIndexKept' /\ LoopInv(fs1)'
  BY <1>1 DEF FS!TypeOK, BothIndexKept, FS!IndexKept, LoopInv
<1>4. LoopInv(ca)'
  <2>1. CASE CA!Poll
    <3>1. ca.pc = "poll" /\ rate # 0 /\ ca' = Polled(ca)
      BY <2>1 DEF CA!Poll, CA!Polled, Polled, CA!Again, Again
    <3>2. LoopInv(Polled(ca))
      BY <3>1, PolledKeeps
    <3> QED  BY <1>1, <3>1, <3>2 DEF LoopInv
  <2>2. CASE CA!Decide
    <3>1. ca.pc = "decide" /\ ca' = Decided(ca)
      BY <2>2 DEF CA!Decide, CA!Decided, Decided, CA!Again, Again, CA!TooSlow, TooSlow,
                  CA!TooFast, TooFast
    <3>2. LoopInv(Decided(ca))
      BY <3>1, DecidedKeeps
    <3> QED  BY <1>1, <3>1, <3>2 DEF LoopInv
  <2> QED  BY <2>1, <2>2 DEF CA!Step, CA!Add, CA!Take, CA!Keep
<1>5. ca' \in CA!Loops
  BY <1>4 DEF LoopInv, Loops, CA!Loops
<1>6. /\ mask \in (SUBSET CA!Cpus) \ {{}} /\ nprocs \in (0..32) \cup (0..Ncpus)
      /\ placed \in BOOLEAN
      /\ placed /\ app = "up" => mask = {c \in CA!Cpus : c < nprocs \/ c = 0}
  BY DEF CA!TypeOK, CountKept, CA!CountKept
<1>7. CASE UNCHANGED <<mask, nprocs, placed>>
  BY <1>1, <1>2, <1>3, <1>4, <1>5, <1>6, <1>7 DEF CA!TypeOK, CountKept, CA!CountKept
<1>8. ASSUME NEW n \in (0..32) \cup (0..Ncpus), nprocs' = n, CA!taskset(n),
             n = 0 => nprocs = 1
      PROVE  CA!TypeOK' /\ CountKept'
  <2>1. CASE n > 0 /\ app = "up"
    <3>1. mask' = 0..(n - 1) \cap CA!Cpus /\ placed' = TRUE
      BY <1>8, <2>1 DEF CA!taskset, CA!Cores
    <3>2. mask' = {c \in CA!Cpus : c < n \/ c = 0} /\ 0 \in mask'
      BY <2>1, <3>1, BothConstants
    <3>3. mask' \in (SUBSET CA!Cpus) \ {{}}
      <4>1. mask' \subseteq CA!Cpus /\ mask' # {}
        BY <3>2
      <4> QED  BY <4>1
    <3>4. CA!TypeOK'
      BY <1>5, <1>8, <3>1, <3>3 DEF CA!TypeOK
    <3>5. CountKept'
      BY <1>8, <3>2 DEF CountKept, CA!CountKept
    <3> QED  BY <3>4, <3>5
  <2>2. CASE ~(n > 0 /\ app = "up")
    <3>1. UNCHANGED <<mask, placed>>
      BY <1>8, <2>2 DEF CA!taskset
    <3>2. app = "up" => n = 0 /\ nprocs = 1
      BY <1>8, <2>2
    <3>3. {c \in CA!Cpus : c < 1 \/ c = 0} = {c \in CA!Cpus : c < 0 \/ c = 0}
      BY BothConstants
    <3> QED  BY <1>1, <1>5, <1>6, <1>8, <3>1, <3>2, <3>3 DEF CA!TypeOK, CountKept, CA!CountKept
  <2> QED  BY <2>1, <2>2
<1>9. CASE CA!Add
  <2>1. nprocs + 1 \in (0..32) \cup (0..Ncpus) /\ nprocs' = nprocs + 1
        /\ CA!taskset(nprocs + 1) /\ nprocs + 1 # 0
    BY <1>6, <1>9, BothConstants DEF CA!Add
  <2> QED  BY <1>2, <1>3, <1>4, <1>8, <2>1
<1>10. CASE CA!Take
  <2>1. nprocs - 1 \in (0..32) \cup (0..Ncpus) /\ nprocs' = nprocs - 1
        /\ CA!taskset(nprocs - 1) /\ (nprocs - 1 = 0 => nprocs = 1)
    BY <1>6, <1>10, BothConstants DEF CA!Take
  <2> QED  BY <1>2, <1>3, <1>4, <1>8, <2>1
<1> QED  BY <1>7, <1>9, <1>10 DEF CA!Step, CA!Poll, CA!Keep

\* A step of the frequency scaler.
LEMMA ScalerStep ==
    ASSUME BothInv, FS!Step, UNCHANGED allocator
    PROVE  BothInv'
<1> USE DEF BothInv, BothTypeOK
<1>1. UNCHANGED <<beat, rate, app, mask, nprocs, ca, placed>>
  BY DEF allocator, FS!Step, FS!Poll, FS!Raise, FS!Lower, FS!Keep, FS!Decide, FS!application
<1>2. RecordShown'
  BY <1>1 DEF RecordShown
<1>3. CA!TypeOK' /\ CountKept' /\ LoopInv(ca)'
  BY <1>1 DEF CA!TypeOK, CountKept, CA!CountKept, LoopInv
<1>4. LoopInv(fs1)'
  <2>1. CASE FS!Poll
    <3>1. fs1.pc = "poll" /\ rate # 0 /\ fs1' = Polled(fs1)
      BY <2>1 DEF FS!Poll, FS!Polled, Polled, FS!Again, Again
    <3>2. LoopInv(Polled(fs1))
      BY <3>1, PolledKeeps
    <3> QED  BY <1>1, <3>1, <3>2 DEF LoopInv
  <2>2. CASE FS!Decide
    <3>1. fs1.pc = "decide" /\ fs1' = Decided(fs1)
      BY <2>2 DEF FS!Decide, FS!Decided, Decided, FS!Again, Again, FS!TooSlow, TooSlow,
                  FS!TooFast, TooFast
    <3>2. LoopInv(Decided(fs1))
      BY <3>1, DecidedKeeps
    <3> QED  BY <1>1, <3>1, <3>2 DEF LoopInv
  <2> QED  BY <2>1, <2>2 DEF FS!Step, FS!Raise, FS!Lower, FS!Keep
<1>5. fs1' \in FS!Loops
  BY <1>4 DEF LoopInv, Loops, FS!Loops
<1>6. hw1 \in [FS!Cpus -> FS!Range(FreqArray)] /\ counter1 \in 0..FS!current
      /\ scaled \in BOOLEAN
  BY DEF FS!TypeOK
<1>7. CASE UNCHANGED <<hw1, counter1, scaled>>
  BY <1>1, <1>2, <1>3, <1>4, <1>5, <1>6, <1>7 DEF FS!TypeOK, BothIndexKept, FS!IndexKept
<1>8. ASSUME NEW k \in 0..FS!current, counter1' = k, FS!Set(k), scaled' = TRUE
      PROVE  FS!TypeOK' /\ BothIndexKept'
  <2>1. PICK freq \in IF k \in DOMAIN FreqArray THEN {FreqArray[k]}
                      ELSE FS!Range(FreqArray) \cup {0} :
          hw1' = [c \in FS!Cpus |-> IF c \in FS!Scaled /\ freq # 0 THEN freq ELSE hw1[c]]
    BY <1>8 DEF FS!Set
  <2>2. freq # 0 => freq \in FS!Range(FreqArray)
    BY <2>1, BothConstants
  <2>3. hw1' \in [FS!Cpus -> FS!Range(FreqArray)]
    BY <1>6, <2>1, <2>2
  <2>4. ASSUME k \in DOMAIN FreqArray, NEW c \in FS!Cpus, c <= CORES
        PROVE  hw1'[c] = FreqArray[k]
    BY <2>1, <2>4, BothConstants DEF FS!Scaled
  <2> QED  BY <1>5, <1>8, <2>3, <2>4 DEF FS!TypeOK, BothIndexKept, FS!IndexKept
<1>9. CASE FS!Raise
  <2>1. counter1 - 1 \in 0..FS!current /\ counter1' = counter1 - 1
        /\ FS!Set(counter1 - 1) /\ scaled' = TRUE
    BY <1>6, <1>9, BothConstants DEF FS!Raise
  <2> QED  BY <1>2, <1>3, <1>4, <1>8, <2>1
<1>10. CASE FS!Lower
  <2>1. counter1 + 1 \in 0..FS!current /\ counter1' = counter1 + 1
        /\ FS!Set(counter1 + 1) /\ scaled' = TRUE
    BY <1>6, <1>10, BothConstants DEF FS!Lower
  <2> QED  BY <1>2, <1>3, <1>4, <1>8, <2>1
<1> QED  BY <1>7, <1>9, <1>10 DEF FS!Step, FS!Poll, FS!Keep

\* A beat of the application, or its end.
LEMMA BothApplication ==
    ASSUME BothInv, Beat \/ Finish, UNCHANGED <<allocator, scaler1>>
    PROVE  BothInv'
<1>1. RecordShown' /\ beat' >= beat
  BY RecordMoves DEF BothInv
<1>2. UNCHANGED <<mask, nprocs, ca, placed, hw1, counter1, fs1, scaled>>
  BY DEF allocator, scaler1
<1>3. LoopInv(ca)' /\ LoopInv(fs1)'
  <2>1. /\ ca.current_beat \in Nat /\ fs1.current_beat \in Nat
        /\ beat \in Int /\ beat' \in Int
    BY <1>1 DEF BothInv, LoopInv, Loops, RecordShown
  <2> QED  BY <1>1, <1>2, <2>1 DEF BothInv, LoopInv
<1>4. app' = "up" => app = "up"
  BY DEF Beat, Finish
<1>5. CountKept' /\ BothIndexKept'
  BY <1>2, <1>4 DEF BothInv, CountKept, BothIndexKept, CA!CountKept, FS!IndexKept
<1>6. BothTypeOK'
  BY <1>2 DEF BothInv, BothTypeOK, CA!TypeOK, FS!TypeOK
<1> QED  BY <1>1, <1>3, <1>5, <1>6 DEF BothInv

\* Every step keeps it.
LEMMA BothInduction == BothInv /\ [BothNext]_services => BothInv'
<1> SUFFICES ASSUME BothInv, [BothNext]_services PROVE BothInv'
  OBVIOUS
<1>1. CASE UNCHANGED services
  <2>1. UNCHANGED <<beat, rate, app, mask, nprocs, ca, placed, hw1, counter1, fs1, scaled>>
    BY <1>1 DEF services, application, allocator, scaler1
  <2> QED  BY <2>1 DEF BothInv, RecordShown, BothTypeOK, CA!TypeOK, FS!TypeOK, LoopInv,
                        CountKept, BothIndexKept, CA!CountKept, FS!IndexKept
<1>2. CASE (Beat \/ Finish) /\ UNCHANGED <<allocator, scaler1>>
  BY <1>2, BothApplication
<1>3. CASE CA!Step /\ UNCHANGED scaler1
  BY <1>3, AllocatorStep
<1>4. CASE FS!Step /\ UNCHANGED allocator
  BY <1>4, ScalerStep
<1>5. CASE BothSpin \/ BothDone
  BY <1>1, <1>5 DEF BothSpin, BothDone
<1> QED  BY <1>1, <1>2, <1>3, <1>4, <1>5 DEF BothNext

\* The inductive invariant.
THEOREM BothInvariance == BothSpec => []BothInv
<1>1. BothInit => BothInv
  BY BothBegins
<1> QED  BY <1>1, BothInduction, PTL DEF BothSpec

\* Type correctness.
THEOREM BothTyping == BothSpec => []BothTypeOK
<1>1. BothInv => BothTypeOK
  BY DEF BothInv
<1> QED  BY <1>1, BothInvariance, PTL

\* The application has the cores that the core allocator counts.
THEOREM CountCorrect == BothSpec => []CountKept
<1>1. BothInv => CountKept
  BY DEF BothInv
<1> QED  BY <1>1, BothInvariance, PTL

\* The cores run at the frequency of the frequency scaler's index.
THEOREM BothIndexCorrect == BothSpec => []BothIndexKept
<1>1. BothInv => BothIndexKept
  BY DEF BothInv
<1> QED  BY <1>1, BothInvariance, PTL

\* Neither service writes behind its records.
THEOREM BothRecordsCorrect == BothSpec => []BothRecordsInArray
<1>1. BothInv => BothRecordsInArray
  BY DEF BothInv, LoopInv, BothRecordsInArray, RecordsFit
<1> QED  BY <1>1, BothInvariance, PTL
=============================================================================
