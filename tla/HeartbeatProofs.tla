--------------------------- MODULE HeartbeatProofs ---------------------------
(***************************************************************************)
(* Proofs about Heartbeat for every number of threads and readers, every   *)
(* set of fields and every BufferDepth >= 2.                               *)
(*                                                                         *)
(* RingOrder, QuiescentRead and UntornRead follow from the inductive       *)
(* invariant IInv, which says where the holder of the mutex is             *)
(* (Stages), what each slot holds, field by field, while it stores (Ring), *)
(* and what a monitor inside its call may rely on (Reading).  FieldRead    *)
(* needs LocalReading too, the same for readers inside the application.    *)
(***************************************************************************)
EXTENDS Heartbeat, TLAPS

\* Only the holder of the mutex is inside heartbeat().
Exclusion == \A t \in Threads : pc[t] # "idle" <=> mutex = t

\* Where the holder of the mutex is; "idle" when there is none.
Stage == IF mutex \in Threads THEN pc[mutex] ELSE "idle"

\* The slot before b, around the ring.
Before(b) == IF b = 0 THEN BufferDepth - 1 ELSE b - 1

\* Before the first heartbeat is visible.
Fresh ==
    /\ first_timestamp = "none" => /\ mutex = NoThread
                                   /\ counter = 0
    /\ read_index = 0
    /\ counter = buffer_index
    /\ counter = IF Stage = "publish" THEN 1 ELSE 0
    /\ mutex = NoThread => first_timestamp = "none"
    /\ \A t \in Threads : mutex = t => /\ branch[t] = "first"
                                       /\ pc[t] \in {"store", "count", "publish"}
                                       /\ pc[t] \in {"store", "count"} => index[t] = 0

\* From then on: how far buffer_index and read_index are, stage by stage.
Underway ==
    /\ first_timestamp = "set"
    /\ counter >= 1
    /\ Stage \notin {"publish", "flush"} => buffer_index \in Slots
    /\ Stage \in {"publish", "flush"} => buffer_index \in 1..BufferDepth
    /\ LapStart = 0 \/ LapStart >= BufferDepth
    /\ LapStart = 0 /\ Stage \in {"publish", "flush", "wrap"} => buffer_index >= 2
    /\ read_index = CASE Stage = "publish" -> Before(buffer_index - 1)
                      [] Stage \in {"flush", "wrap"} ->
                            IF buffer_index = 1 THEN BufferDepth ELSE Before(buffer_index)
                      [] OTHER -> Before(buffer_index)
    /\ \A t \in Threads : mutex = t =>
          /\ branch[t] = "first" => pc[t] = "unlock"
          /\ pc[t] \in {"store", "count"} => index[t] = buffer_index

Stages == IF valid = 0 THEN Fresh ELSE Underway

\* The slot a thread is storing, and the fields it has stored.
Stored(i, f) == \E t \in Threads : /\ pc[t] \in {"store", "count"}
                                   /\ index[t] = i /\ f \notin todo[t]

Ring == /\ \A i \in Slots, f \in Fields :
              log[i][f] = IF Stored(i, f) THEN counter ELSE SlotBeat(i)
        /\ \A t \in Threads : pc[t] = "count" => todo[t] = {}

\* The number of the beat the segment shows.
Shown == IF valid = 0 THEN NoBeat
         ELSE IF Stage = "publish" THEN counter - 2 ELSE counter - 1

\* What monitor m may rely on inside its call.
ReadingOf(m) ==
    /\ \A f \in Fields : got[m][f] <= Shown
    /\ rpc[m] \in {"idle", "index"} => seen[m] = NoBeat
    /\ rpc[m] = "index" => valid = 1 /\ left[m] = Fields
    /\ rpc[m] = "copy" => seen[m] # NoBeat
    /\ seen[m] # NoBeat =>
          /\ seen[m] \in 0..Shown
          /\ rpc[m] = "return" => left[m] = {}
          /\ \A f \in Fields : got[m][f] <= seen[m]
          /\ Undisturbed(m) => \A f \in Fields :
                /\ log[idx[m]][f] = seen[m]
                /\ f \notin left[m] => copy[m][f] = seen[m]

Reading == \A m \in Monitors : ReadingOf(m)

IInv == TypeOK /\ Exclusion /\ Stages /\ Ring /\ Reading
-----------------------------------------------------------------------------
(* Lemmas about the operators *)

LEMMA Modulo == \A i \in 0..BufferDepth :
                   i % BufferDepth = IF i = BufferDepth THEN 0 ELSE i
  BY HeartbeatAssumption, SMT

LEMMA WrapValue == \A i \in 0..BufferDepth :
                      Wrap(i) = IF i = BufferDepth THEN 0 ELSE i
  BY Modulo, HeartbeatAssumption DEF Wrap
-----------------------------------------------------------------------------
(* Type correctness *)

LEMMA InitTypeOK == Init => TypeOK
<1> SUFFICES ASSUME Init PROVE TypeOK
  OBVIOUS
<1> USE HeartbeatAssumption DEF Init, Slots, Readers, Record, NoBeat, OutOfLog
<1>1. log \in [0..BufferDepth -> [Fields -> Int]]
  OBVIOUS
<1>2. text_file \in Seq([Fields -> Int])
  OBVIOUS
<1> QED
  BY <1>1, <1>2 DEF TypeOK
-----------------------------------------------------------------------------
(* The steps of heartbeat() preserve IInv *)

\* What every step of heartbeat() starts from.
LEMMA Holder == ASSUME IInv, NEW t \in Threads, pc[t] # "idle"
                PROVE mutex = t /\ Stage = pc[t]
  BY DEF IInv, Exclusion, Stage

\* A thread that stores fills the slot at buffer_index, which is in the log.
LEMMA Filling == ASSUME IInv, NEW t \in Threads, pc[t] \in {"store", "count"}
                 PROVE /\ index[t] = buffer_index /\ buffer_index \in Slots
                       /\ counter \in Nat /\ buffer_index \in Nat
                       /\ BufferDepth \in Nat /\ BufferDepth >= 2
<1> USE HeartbeatAssumption
<1>1. mutex = t /\ Stage = pc[t]
  BY Holder
<1>2. CASE valid = 0
  BY <1>1, <1>2 DEF IInv, Stages, Fresh, Slots
<1>3. CASE valid # 0
  <2>1. Underway
    BY <1>3 DEF IInv, Stages
  <2> QED
    BY <1>1, <2>1 DEF IInv, TypeOK, Underway
<1> QED
  BY <1>2, <1>3 DEF IInv, TypeOK

LEMMA LockStep == ASSUME IInv, NEW t \in Threads, Lock(t) PROVE IInv'
<1> USE HeartbeatAssumption DEF IInv, Lock, MutexFree, FillSlot, segment, reading
<1>a. Stage = "idle" /\ Stage' = "store" /\ mutex' = t
  BY DEF Stage, TypeOK, Exclusion
<1>b. FillSlot \in Slots
  BY <1>a DEF TypeOK, Stages, Fresh, Underway, Slots
<1>1. TypeOK'
  BY <1>b DEF TypeOK
<1>2. Exclusion'
  BY DEF Exclusion, TypeOK
<1>3. Stages'
  BY <1>a DEF TypeOK, Stages, Fresh, Underway, LapStart, Slots
<1>4. Ring'
  <2>1. ASSUME NEW i \in Slots, NEW f \in Fields
        PROVE ~Stored(i, f) /\ ~Stored(i, f)' /\ SlotBeat(i)' = SlotBeat(i)
    BY DEF TypeOK, Exclusion, Stored, SlotBeat, LapStart
  <2> QED
    BY <2>1 DEF TypeOK, Exclusion, Ring
<1>5. Reading'
  BY <1>a DEF TypeOK, Reading, ReadingOf, Shown, Undisturbed
<1> QED
  BY <1>1, <1>2, <1>3, <1>4, <1>5

\* A thread does not store where an undisturbed reader reads: the slot it fills
\* shows the beat of one lap before, or none.
LEMMA StoreMisses ==
  ASSUME IInv, NEW t \in Threads, NEW f \in Fields, StoreField(t, f), NEW r \in Readers,
         seen[r] \in 0..Shown, Undisturbed(r), log[idx[r]][f] = seen[r]
  PROVE  log'[idx[r]] = log[idx[r]]
<1> USE HeartbeatAssumption DEF StoreField
<1>1. /\ index[t] = buffer_index /\ buffer_index \in Slots
      /\ counter \in Nat /\ buffer_index \in Nat /\ BufferDepth \in Nat
  BY Filling
<1>2. idx[r] # index[t]
  <2> SUFFICES ASSUME idx[r] = index[t] PROVE FALSE
    OBVIOUS
  <2>1. ~Stored(buffer_index, f)
    <3>1. pc[t] = "store" /\ f \in todo[t] /\ Exclusion
      BY DEF IInv
    <3> HIDE DEF StoreField
    <3> QED
      BY <3>1 DEF Stored, Exclusion
  <2>2. seen[r] = SlotBeat(buffer_index)
    BY <1>1, <2>1 DEF IInv, Ring
  <2>3. seen[r] \in Int /\ seen[r] >= 0 /\ counter < seen[r] + BufferDepth
    BY DEF IInv, TypeOK, Undisturbed
  <2> QED
    BY <1>1, <2>2, <2>3 DEF SlotBeat, LapStart, NoBeat
<1> QED
  BY <1>2 DEF IInv, TypeOK, Slots

LEMMA StoreStep ==
  ASSUME IInv, NEW t \in Threads, NEW f \in Fields, StoreField(t, f) PROVE IInv'
<1> USE HeartbeatAssumption DEF IInv, StoreField, reading
<1>a. mutex = t /\ Stage = "store" /\ Stage' \in {"store", "count"}
  BY Holder DEF Stage, TypeOK
<1>b. index[t] = buffer_index /\ buffer_index \in Slots
  BY Filling
<1>c. \A i \in 0..BufferDepth, g \in Fields :
         log'[i][g] = IF i = index[t] /\ g = f THEN counter ELSE log[i][g]
  <2>0. index[t] \in 0..BufferDepth
    BY <1>b DEF Slots
  <2>1. log \in [0..BufferDepth -> [Fields -> Int]] /\ log[index[t]] \in [Fields -> Int]
    BY <2>0 DEF TypeOK
  <2>2. log' = [log EXCEPT ![index[t]] = [log[index[t]] EXCEPT ![f] = counter]]
    OBVIOUS
  <2> HIDE DEF IInv, StoreField
  <2> QED
    BY <2>0, <2>1, <2>2
<1>1. TypeOK'
  <2>1. log' \in [0..BufferDepth -> [Fields -> Int]]
    <3>1. index[t] \in 0..BufferDepth /\ counter \in Int
      BY <1>b DEF Slots, TypeOK
    <3>2. log[index[t]] \in [Fields -> Int]
      BY <3>1 DEF TypeOK
    <3>3. [log[index[t]] EXCEPT ![f] = counter] \in [Fields -> Int]
      BY <3>1, <3>2
    <3> QED
      BY <3>3 DEF TypeOK
  <2> QED
    BY <2>1 DEF TypeOK
<1>2. Exclusion'
  BY DEF Exclusion, TypeOK
<1>3. Stages'
  BY <1>a DEF TypeOK, Stages, Fresh, Underway, LapStart
<1>4. Ring'
  <2>1. ASSUME NEW i \in Slots, NEW g \in Fields
        PROVE /\ Stored(i, g)' <=> Stored(i, g) \/ (i = index[t] /\ g = f)
              /\ SlotBeat(i)' = SlotBeat(i)
    BY <1>a DEF TypeOK, Exclusion, Stored, SlotBeat, LapStart
  <2>2. ASSUME NEW i \in Slots, NEW g \in Fields
        PROVE log'[i][g] = IF Stored(i, g)' THEN counter' ELSE SlotBeat(i)'
    BY <1>c, <2>1 DEF Ring, Slots
  <2>3. \A u \in Threads : pc'[u] = "count" => todo'[u] = {}
    BY <1>a DEF TypeOK, Exclusion, Ring
  <2> QED
    BY <2>2, <2>3 DEF Ring
<1>5. Reading'
  <2>1. Shown' = Shown
    BY <1>a DEF Shown
  <2>2. ASSUME NEW m \in Monitors, seen[m] # NoBeat, Undisturbed(m)'
        PROVE  log'[idx[m]] = log[idx[m]]
    <3>1. seen[m] \in 0..Shown /\ Undisturbed(m) /\ log[idx[m]][f] = seen[m]
      BY <2>2 DEF Reading, ReadingOf, Undisturbed
    <3> QED
      BY <3>1, StoreMisses DEF Readers
  <2> QED
    BY <2>1, <2>2 DEF Reading, ReadingOf, Undisturbed
<1> QED
  BY <1>1, <1>2, <1>3, <1>4, <1>5

LEMMA CountStep == ASSUME IInv, NEW t \in Threads, Count(t) PROVE IInv'
<1> USE HeartbeatAssumption DEF IInv, Count, reading
<1>a. mutex = t /\ Stage = "count" /\ Stage' = "publish"
  BY Holder DEF Stage, TypeOK
<1>b. index[t] = buffer_index /\ buffer_index \in Slots
  BY Filling
<1>1. TypeOK'
  <2>1. counter' \in Nat /\ buffer_index' \in 0..BufferDepth
    BY <1>b, Filling DEF Slots
  <2>2. pc' \in [Threads -> {"idle", "store", "count", "publish", "flush", "wrap", "unlock"}]
    BY DEF TypeOK
  <2> QED
    BY <2>1, <2>2 DEF TypeOK
<1>2. Exclusion'
  BY DEF Exclusion, TypeOK
<1>3. Stages'
  <2>1. CASE valid = 0
    BY <2>1, <1>a, <1>b DEF TypeOK, Stages, Fresh
  <2>2. CASE valid = 1
    <3>1. Underway
      BY <2>2 DEF Stages
    <3>2. LapStart' = LapStart /\ counter' >= 1
      <4>1. counter \in Nat /\ buffer_index \in Int
        BY DEF TypeOK
      <4> HIDE DEF IInv
      <4> QED
        BY <4>1 DEF LapStart
    <3>3. buffer_index' \in 1..BufferDepth /\ (LapStart' = 0 => buffer_index' >= 2)
      BY <1>a, <1>b, <3>1 DEF TypeOK, Underway, LapStart, Slots
    <3>4. read_index' = Before(buffer_index' - 1)
      BY <1>a, <1>b, <3>1 DEF TypeOK, Underway, Slots
    <3>5. \A u \in Threads : mutex' = u => u = t /\ branch'[u] # "first" /\ pc'[u] = "publish"
      BY <1>a, <3>1 DEF TypeOK, Underway
    <3> QED
      BY <1>a, <2>2, <3>1, <3>2, <3>3, <3>4, <3>5 DEF Stages, Underway
  <2> QED
    BY <2>1, <2>2 DEF TypeOK
<1>4. Ring'
  <2>1. ASSUME NEW i \in Slots, NEW g \in Fields
        PROVE /\ ~Stored(i, g)'
              /\ Stored(i, g) <=> i = buffer_index
              /\ i # buffer_index => SlotBeat(i)' = SlotBeat(i)
              /\ i = buffer_index => SlotBeat(i)' = counter
    <3>1. ~Stored(i, g)'
      BY <1>a DEF TypeOK, Exclusion, Stored
    <3>2. Stored(i, g) <=> i = buffer_index
      BY <1>a, <1>b DEF Exclusion, Ring, Stored
    <3>3. /\ counter' = counter + 1 /\ buffer_index' = buffer_index + 1
          /\ counter \in Nat /\ buffer_index \in Nat /\ i \in Nat
      BY Filling DEF Slots
    <3> HIDE DEF IInv, Count
    <3>4. LapStart' = LapStart
      BY <3>3 DEF LapStart
    <3>5. i # buffer_index => SlotBeat(i)' = SlotBeat(i)
      BY <3>3, <3>4 DEF SlotBeat
    <3>6. i = buffer_index => SlotBeat(i)' = counter
      BY <3>3 DEF SlotBeat, LapStart
    <3> QED
      BY <3>1, <3>2, <3>5, <3>6
  <2>2. ASSUME NEW i \in Slots, NEW g \in Fields
        PROVE log'[i][g] = IF Stored(i, g)' THEN counter' ELSE SlotBeat(i)'
    BY <2>1 DEF Ring
  <2>3. \A u \in Threads : pc'[u] = "count" => todo'[u] = {}
    BY <1>a DEF TypeOK, Exclusion
  <2> QED
    BY <2>2, <2>3 DEF Ring
<1>5. Reading'
  <2>1. Shown' = Shown
    BY <1>a DEF Shown, TypeOK
  <2>2. \A m \in Monitors : Undisturbed(m)' => Undisturbed(m)
    BY DEF TypeOK, Undisturbed, Readers
  <2> QED
    BY <2>1, <2>2 DEF Reading, ReadingOf
<1> QED
  BY <1>1, <1>2, <1>3, <1>4, <1>5

LEMMA PublishFirstStep == ASSUME IInv, NEW t \in Threads, PublishFirst(t) PROVE IInv'
<1> USE HeartbeatAssumption DEF IInv, PublishFirst, reading
<1>a. mutex = t /\ Stage = "publish" /\ Stage' = "unlock"
  BY Holder DEF Stage, TypeOK
<1>b. valid = 0
  BY <1>a DEF TypeOK, Stages, Underway
<1>1. TypeOK'
  BY DEF TypeOK
<1>2. Exclusion'
  BY DEF Exclusion, TypeOK
<1>3. Stages'
  BY <1>a, <1>b DEF TypeOK, Stages, Fresh, Underway, LapStart, Slots, Before
<1>4. Ring'
  BY <1>a DEF TypeOK, Exclusion, Ring, Stored, SlotBeat, LapStart
<1>5. Reading'
  BY <1>a, <1>b DEF TypeOK, Reading, ReadingOf, Shown, Undisturbed, NoBeat, Stages, Fresh
<1> QED
  BY <1>1, <1>2, <1>3, <1>4, <1>5

LEMMA PublishStep == ASSUME IInv, NEW t \in Threads, Publish(t) PROVE IInv'
<1> USE HeartbeatAssumption DEF IInv, Publish, reading
<1>a. mutex = t /\ Stage = "publish" /\ Stage' = "flush"
  BY Holder DEF Stage, TypeOK
<1>b. valid = 1
  BY <1>a DEF TypeOK, Stages, Fresh
<1>c. Underway /\ buffer_index \in 1..BufferDepth /\ read_index = Before(buffer_index - 1)
      /\ read_index \in Nat
  BY <1>a, <1>b DEF TypeOK, Stages, Underway
<1>d. /\ read_index' = IF buffer_index = 1 THEN BufferDepth ELSE Before(buffer_index)
      /\ read_index' \in 0..BufferDepth
  <2>1. read_index' = read_index + 1
    OBVIOUS
  <2> HIDE DEF IInv, Publish
  <2> QED
    BY <1>c, <2>1 DEF Before
<1>1. TypeOK'
  BY <1>d DEF TypeOK
<1>2. Exclusion'
  BY DEF Exclusion, TypeOK
<1>3. Stages'
  <2>1. \A u \in Threads : mutex' = u => u = t /\ branch'[u] # "first" /\ pc'[u] = "flush"
    BY <1>a DEF TypeOK
  <2>2. /\ counter' = counter /\ buffer_index' = buffer_index /\ valid' = valid
        /\ first_timestamp' = first_timestamp /\ LapStart' = LapStart
    BY DEF LapStart
  <2>3. Underway'
    BY <1>a, <1>c, <1>d, <2>1, <2>2 DEF Underway
  <2> QED
    BY <1>b, <2>2, <2>3 DEF Stages
<1>4. Ring'
  BY <1>a DEF TypeOK, Exclusion, Ring, Stored, SlotBeat, LapStart
<1>5. Reading'
  BY <1>a, <1>b DEF TypeOK, Reading, ReadingOf, Shown, Undisturbed
<1> QED
  BY <1>1, <1>2, <1>3, <1>4, <1>5

LEMMA FlushRecordStep == ASSUME IInv, NEW t \in Threads, FlushRecord(t) PROVE IInv'
<1> USE HeartbeatAssumption DEF IInv, FlushRecord, segment, reading
<1>1. TypeOK'
  <2>1. line[t] \in 0..(BufferDepth - 1) /\ line[t] \in 0..BufferDepth
    BY DEF TypeOK, nrecords
  <2>2. log[line[t]] \in [Fields -> Int] /\ line[t] + 1 \in 0..BufferDepth
    BY <2>1 DEF TypeOK
  <2>3. text_file' \in Seq([Fields -> Int]) /\ line' \in [Threads -> 0..BufferDepth]
    BY <2>2 DEF TypeOK
  <2> QED
    BY <2>3 DEF TypeOK
<1>2. Exclusion'
  BY DEF Exclusion
<1>3. Stages'
  BY DEF Stages, Fresh, Underway, Stage, LapStart
<1>4. Ring'
  BY DEF Ring, Stored, SlotBeat, LapStart
<1>5. Reading'
  BY DEF Reading, ReadingOf, Shown, Stage, Undisturbed
<1> QED
  BY <1>1, <1>2, <1>3, <1>4, <1>5

LEMMA WrapBufferStep == ASSUME IInv, NEW t \in Threads, WrapBuffer(t) PROVE IInv'
<1> USE HeartbeatAssumption DEF IInv, WrapBuffer, reading
<1>a. mutex = t /\ Stage = "flush" /\ Stage' = "wrap"
  BY Holder DEF Stage, TypeOK
<1>b. valid = 1 /\ Underway /\ buffer_index \in 1..BufferDepth
  BY <1>a DEF TypeOK, Stages, Fresh, Underway
<1>c. \/ buffer_index = BufferDepth /\ buffer_index' = 0
      \/ buffer_index # BufferDepth /\ UNCHANGED buffer_index
  <2>1. /\ Wrap(buffer_index) = IF buffer_index = BufferDepth THEN 0 ELSE buffer_index
        /\ Full <=> buffer_index = BufferDepth
    BY <1>b, Modulo, WrapValue DEF Full
  <2> HIDE DEF IInv
  <2>2. CASE buffer_index = BufferDepth
    BY <2>1, <2>2
  <2>3. CASE buffer_index # BufferDepth
    BY <2>1, <2>3
  <2> QED
    BY <2>2, <2>3
<1>1. TypeOK'
  BY <1>b, <1>c DEF TypeOK
<1>2. Exclusion'
  BY DEF Exclusion, TypeOK
<1>3. Stages'
  <2>1. \A u \in Threads : mutex' = u => u = t /\ branch'[u] # "first" /\ pc'[u] = "wrap"
    BY <1>a, <1>b DEF TypeOK, Underway
  <2>2. /\ counter' = counter /\ counter \in Nat /\ read_index' = read_index
        /\ valid' = valid /\ first_timestamp' = first_timestamp
        /\ BufferDepth \in Nat /\ BufferDepth >= 2
    BY DEF TypeOK
  <2>3. read_index = IF buffer_index = 1 THEN BufferDepth ELSE Before(buffer_index)
    BY <1>a, <1>b DEF Underway
  <2>4. /\ buffer_index' \in Slots
        /\ read_index = IF buffer_index' = 1 THEN BufferDepth ELSE Before(buffer_index')
    BY <1>b, <1>c, <2>2, <2>3 DEF Before, Slots
  <2>5. /\ LapStart' = 0 \/ LapStart' >= BufferDepth
        /\ LapStart' = 0 => buffer_index' >= 2
    <3>1. /\ LapStart = 0 \/ LapStart >= BufferDepth
          /\ LapStart = 0 => buffer_index >= 2
      BY <1>a, <1>b DEF Underway
    <3> HIDE DEF IInv, WrapBuffer
    <3> QED
      BY <1>b, <1>c, <2>2, <3>1 DEF LapStart
  <2>6. Underway'
    BY <1>a, <1>b, <2>1, <2>2, <2>4, <2>5 DEF Underway
  <2> QED
    BY <1>b, <2>2, <2>6 DEF Stages
<1>4. Ring'
  <2>1. ASSUME NEW i \in Slots, NEW g \in Fields
        PROVE ~Stored(i, g) /\ ~Stored(i, g)' /\ SlotBeat(i)' = SlotBeat(i)
    <3>1. ~Stored(i, g) /\ ~Stored(i, g)'
      BY <1>a DEF TypeOK, Exclusion, Stored
    <3>0. /\ counter' = counter /\ counter \in Nat /\ i \in 0..(BufferDepth - 1)
          /\ BufferDepth \in Nat
          /\ LapStart = 0 \/ LapStart >= BufferDepth
      BY <1>b DEF TypeOK, Underway, Slots
    <3> HIDE DEF IInv, WrapBuffer
    <3>2. CASE buffer_index = BufferDepth /\ buffer_index' = 0
      BY <3>0, <3>1, <3>2 DEF SlotBeat, LapStart
    <3>3. CASE UNCHANGED buffer_index
      BY <3>0, <3>1, <3>3 DEF SlotBeat, LapStart
    <3> QED
      BY <1>c, <3>1, <3>2, <3>3
  <2>2. log' = log /\ todo' = todo /\ \A u \in Threads : pc'[u] = "count" => pc[u] = "count"
    BY DEF TypeOK
  <2>3. Ring
    BY DEF IInv
  <2> HIDE DEF IInv, WrapBuffer
  <2>4. ASSUME NEW i \in Slots, NEW g \in Fields
        PROVE  log'[i][g] = SlotBeat(i)' /\ ~Stored(i, g)'
    BY <2>1, <2>2, <2>3 DEF Ring
  <2>5. \A u \in Threads : pc'[u] = "count" => todo'[u] = {}
    BY <2>2, <2>3 DEF Ring
  <2>6. Slots' = Slots
    BY DEF Slots
  <2> QED
    BY <2>4, <2>5, <2>6 DEF Ring
<1>5. Reading'
  BY <1>a DEF TypeOK, Reading, ReadingOf, Shown, Undisturbed
<1> QED
  BY <1>1, <1>2, <1>3, <1>4, <1>5

LEMMA WrapStep == ASSUME IInv, NEW t \in Threads, WrapRead(t) PROVE IInv'
<1> USE HeartbeatAssumption DEF IInv, WrapRead, reading
<1>a. mutex = t /\ Stage = "wrap" /\ Stage' = "unlock"
  BY Holder DEF Stage, TypeOK
<1>b. valid = 1 /\ Underway
  BY <1>a DEF TypeOK, Stages, Fresh
<1>c. read_index' = IF read_index = BufferDepth THEN 0 ELSE read_index
  BY WrapValue DEF TypeOK
<1>1. TypeOK'
  BY <1>c DEF TypeOK
<1>2. Exclusion'
  BY DEF Exclusion, TypeOK
<1>3. Stages'
  BY <1>a, <1>b, <1>c DEF TypeOK, Stages, Underway, LapStart, Slots, Before
<1>4. Ring'
  <2>1. ASSUME NEW i \in Slots, NEW g \in Fields
        PROVE ~Stored(i, g) /\ ~Stored(i, g)' /\ SlotBeat(i)' = SlotBeat(i)
    BY <1>a DEF TypeOK, Exclusion, Stored, SlotBeat, LapStart
  <2>2. \A u \in Threads : pc'[u] # "count"
    BY <1>a DEF TypeOK, Exclusion
  <2>3. \A i \in Slots, g \in Fields : log[i][g] = SlotBeat(i)
    BY <2>1 DEF Ring
  <2> QED
    BY <2>1, <2>2, <2>3 DEF Ring
<1>5. Reading'
  BY <1>a DEF TypeOK, Reading, ReadingOf, Shown, Undisturbed
<1> QED
  BY <1>1, <1>2, <1>3, <1>4, <1>5

LEMMA UnlockStep == ASSUME IInv, NEW t \in Threads, Unlock(t) PROVE IInv'
<1> USE HeartbeatAssumption DEF IInv, Unlock, segment, reading
<1>a. mutex = t /\ Stage = "unlock" /\ Stage' = "idle"
  BY Holder DEF Stage, TypeOK
<1>b. valid = 1 /\ Underway
  BY <1>a DEF TypeOK, Stages, Fresh
<1>1. TypeOK'
  BY DEF TypeOK, Slots
<1>2. Exclusion'
  BY <1>a DEF Exclusion, TypeOK
<1>3. Stages'
  BY <1>a, <1>b DEF TypeOK, Stages, Underway, LapStart, Slots, Before
<1>4. Ring'
  <2>1. ASSUME NEW i \in Slots, NEW g \in Fields
        PROVE ~Stored(i, g) /\ ~Stored(i, g)' /\ SlotBeat(i)' = SlotBeat(i)
    BY <1>a DEF TypeOK, Exclusion, Stored, SlotBeat, LapStart
  <2> QED
    BY <1>a, <2>1 DEF TypeOK, Exclusion, Ring
<1>5. Reading'
  BY <1>a DEF TypeOK, Reading, ReadingOf, Shown, Undisturbed
<1> QED
  BY <1>1, <1>2, <1>3, <1>4, <1>5

\* The death of the application, and a stuttering step, leave IInv alone.
LEMMA CrashStep == ASSUME IInv, Crash \/ UNCHANGED vars PROVE IInv'
<1> USE DEF IInv, Crash, vars, segment, private, reading
<1>1. Stages'
  BY DEF Stages, Fresh, Underway, Stage, LapStart
<1>2. Ring' /\ Exclusion'
  BY DEF Ring, Stored, SlotBeat, LapStart, Exclusion
<1>3. Reading'
  BY DEF Reading, ReadingOf, Shown, Stage, Undisturbed
<1>4. TypeOK'
  BY DEF TypeOK
<1> QED
  BY <1>1, <1>2, <1>3, <1>4
-----------------------------------------------------------------------------
(* The record the segment shows *)

\* Whatever thread is where, the current record is whole, and its number lags
\* the counter by one, or by two between the two increments.
LEMMA CurrentRecord == IInv => Current = Record(Shown) /\ CurrentBeat = Shown
<1> SUFFICES ASSUME IInv PROVE Current = Record(Shown)
  BY HeartbeatAssumption DEF CurrentBeat, Record
<1> USE HeartbeatAssumption DEF IInv
<1>1. CASE valid = 0
  BY <1>1 DEF Current, Shown
<1>2. CASE valid # 0
  <2> DEFINE s == read_index % BufferDepth
  <2>a. valid = 1 /\ Underway
    BY <1>2 DEF TypeOK, Stages
  <2>b. /\ counter \in Nat /\ buffer_index \in 0..BufferDepth
        /\ BufferDepth \in Nat /\ BufferDepth >= 2
    BY DEF TypeOK
  <2>1. s = IF Stage = "publish" THEN Before(buffer_index - 1) ELSE Before(buffer_index)
    <3>1. s = IF read_index = BufferDepth THEN 0 ELSE read_index
      BY Modulo DEF TypeOK
    <3>2. Stage \in {"publish", "flush"} => buffer_index \in 1..BufferDepth
      BY <2>a DEF Underway
    <3>3. Stage \notin {"publish", "flush"} => buffer_index \in 0..(BufferDepth - 1)
      BY <2>a DEF Underway, Slots
    <3>4. CASE Stage = "publish"
      BY <2>a, <2>b, <3>1, <3>2, <3>4 DEF Underway, Before
    <3>5. CASE Stage \in {"flush", "wrap"}
      BY <2>a, <2>b, <3>1, <3>2, <3>3, <3>5 DEF Underway, Before
    <3>6. CASE Stage \notin {"publish", "flush", "wrap"}
      BY <2>a, <2>b, <3>1, <3>3, <3>6 DEF Underway, Before
    <3> QED
      BY <3>4, <3>5, <3>6
  <2>2. s \in Slots /\ SlotBeat(s) = Shown
    <3>1. CASE Stage = "publish"
      <4>1. buffer_index \in 1..BufferDepth /\ (LapStart = 0 => buffer_index >= 2)
        BY <3>1, <2>a DEF Underway
      <4> HIDE DEF IInv
      <4> QED
        BY <1>2, <2>b, <2>1, <3>1, <4>1 DEF SlotBeat, LapStart, Before, Slots, Shown
    <3>2. CASE Stage # "publish"
      <4>1. counter >= 1
        BY <2>a DEF Underway
      <4> HIDE DEF IInv
      <4> QED
        BY <1>2, <2>b, <2>1, <3>2, <4>1 DEF SlotBeat, LapStart, Before, Slots, Shown
    <3> QED
      BY <3>1, <3>2
  <2>3. \A f \in Fields : ~Stored(s, f)
    <3> SUFFICES ASSUME NEW t \in Threads, pc[t] \in {"store", "count"}, index[t] = s
                 PROVE FALSE
      BY DEF Stored
    <3>1. mutex = t /\ Stage = pc[t]
      BY Holder
    <3>2. s = buffer_index /\ Stage # "publish"
      BY <3>1, <2>a DEF Underway
    <3> HIDE DEF IInv, s
    <3> QED
      BY <3>2, <2>1, <2>b DEF Before
  <2>4. \A f \in Fields : log[s][f] = Shown
    BY <2>2, <2>3 DEF Ring
  <2>5. log[s] \in [Fields -> Int]
    BY <2>2 DEF TypeOK, Slots
  <2> QED
    BY <2>a, <2>4, <2>5 DEF Current, Record
<1> QED
  BY <1>1, <1>2

LEMMA ShownType == IInv => Shown \in Int /\ Shown >= -1 /\ (valid = 1 => Shown >= 0)
<1> SUFFICES ASSUME IInv PROVE Shown \in Int /\ Shown >= -1 /\ (valid = 1 => Shown >= 0)
  OBVIOUS
<1>1. CASE Stage = "publish" /\ valid = 1
  BY <1>1, HeartbeatAssumption
     DEF IInv, TypeOK, Shown, NoBeat, Stages, Underway, LapStart
<1>2. CASE Stage # "publish" \/ valid = 0
  BY <1>2 DEF IInv, TypeOK, Shown, NoBeat, Stages, Underway
<1> QED
  BY <1>1, <1>2 DEF IInv, TypeOK
-----------------------------------------------------------------------------
(* The steps of the readers preserve IInv *)

ReadersTyped ==
    /\ rpc \in [Readers -> {"idle", "index", "copy", "return"}]
    /\ idx \in [Readers -> 0..BufferDepth]
    /\ left \in [Readers -> SUBSET Fields]
    /\ copy \in [Readers -> [Fields -> Int]]
    /\ rc \in [Monitors -> {0, 1}]
    /\ seen \in [Readers -> Int]
    /\ got \in [Monitors -> [Fields -> Int]]

\* A reader leaves the segment and the threads alone.
LEMMA ReaderFrame ==
  ASSUME IInv, UNCHANGED <<segment, private, app>>
  PROVE /\ Exclusion' /\ Stages' /\ Ring' /\ Shown' = Shown
        /\ UNCHANGED <<counter, log, valid, read_index>>
        /\ ReadersTyped' => TypeOK'
<1> USE DEF IInv, segment, private
<1>1. Stages' /\ Shown' = Shown
  BY DEF Stages, Fresh, Underway, Stage, LapStart, Shown
<1>2. Ring' /\ Exclusion'
  BY DEF Ring, Stored, SlotBeat, LapStart, Exclusion
<1>3. ReadersTyped' => TypeOK'
  BY DEF TypeOK, ReadersTyped
<1> QED
  BY <1>1, <1>2, <1>3

\* A monitor is not affected by the steps of the other readers.
LEMMA OtherReaders ==
  ASSUME IInv, UNCHANGED <<segment, private, app>>, NEW m \in Monitors,
         rpc'[m] = rpc[m], idx'[m] = idx[m], left'[m] = left[m],
         copy'[m] = copy[m], seen'[m] = seen[m], got'[m] = got[m]
  PROVE  ReadingOf(m)'
<1>1. Shown' = Shown /\ UNCHANGED <<counter, log, valid>>
  BY ReaderFrame
<1>2. ReadingOf(m)
  BY DEF IInv, Reading
<1> QED
  BY <1>1, <1>2 DEF ReadingOf, Undisturbed

LEMMA CallStep == ASSUME IInv, NEW r \in Readers, CheckValid(r) \/ CallLocal(r)
                  PROVE IInv'
<1>0. UNCHANGED <<segment, private, app>> /\ UNCHANGED <<idx, copy, rc, seen, got>>
  BY DEF CheckValid, CallLocal
<1>1. /\ Exclusion' /\ Stages' /\ Ring' /\ Shown' = Shown
      /\ UNCHANGED <<counter, log, valid>>
  BY <1>0, ReaderFrame
<1>2. ReadersTyped
  BY DEF IInv, TypeOK, ReadersTyped
<1>3. /\ rpc[r] = "idle"
      /\ \E p \in {"index", "return"} : rpc' = [rpc EXCEPT ![r] = p]
      /\ left' \in {left, [left EXCEPT ![r] = Fields]}
      /\ r \in Monitors /\ rpc'[r] = "index" => valid = 1 /\ left'[r] = Fields
  BY <1>2, HeartbeatAssumption DEF CheckValid, CallLocal, ReadersTyped
<1>4. TypeOK'
  BY <1>0, <1>2, <1>3, ReaderFrame DEF ReadersTyped
<1>5. ASSUME NEW m \in Monitors PROVE ReadingOf(m)'
  <2>1. CASE m # r
    <3>1. rpc'[m] = rpc[m] /\ left'[m] = left[m]
      <4>1. m \in Readers /\ rpc \in [Readers -> {"idle", "index", "copy", "return"}]
            /\ left \in [Readers -> SUBSET Fields]
        BY <1>2 DEF ReadersTyped, Readers
      <4>2. rpc'[m] = rpc[m]
        BY <1>3, <2>1, <4>1
      <4>3. left' = left \/ left' = [left EXCEPT ![r] = Fields]
        BY <1>3
      <4> QED
        BY <2>1, <4>1, <4>2, <4>3
    <3> QED
      BY <1>0, <3>1, OtherReaders
  <2>2. CASE m = r
    <3>1. ReadingOf(r)
      BY <2>2 DEF IInv, Reading
    <3>2. rpc'[r] \in {"index", "return"}
      BY <1>2, <1>3 DEF ReadersTyped
    <3> QED
      BY <1>0, <1>1, <1>3, <2>2, <3>1, <3>2 DEF ReadingOf, Undisturbed
  <2> QED
    BY <2>1, <2>2
<1> QED
  BY <1>1, <1>4, <1>5 DEF IInv, Reading

LEMMA LoadStep == ASSUME IInv, NEW r \in Readers, LoadIndex(r) PROVE IInv'
<1> USE DEF LoadIndex, ReadSlot
<1>1. /\ Exclusion' /\ Stages' /\ Ring' /\ Shown' = Shown
      /\ UNCHANGED <<counter, log, valid>>
  BY ReaderFrame
<1>2. CurrentBeat = Shown /\ Current = Record(Shown)
      /\ Shown \in Int /\ (valid = 1 => Shown >= 0)
  BY CurrentRecord, ShownType
<1>3. ReadersTyped /\ read_index \in 0..BufferDepth
  BY DEF IInv, TypeOK, ReadersTyped
<1>4. TypeOK'
  BY <1>2, <1>3, ReaderFrame DEF ReadersTyped
<1>5. ASSUME NEW m \in Monitors PROVE ReadingOf(m)'
  <2>1. CASE m # r
    BY <1>3, <2>1, OtherReaders DEF ReadersTyped
  <2>2. CASE m = r
    <3>1. ReadingOf(r)
      BY <2>2 DEF IInv, Reading
    <3>2. rpc'[r] = "copy" /\ seen'[r] = Shown /\ idx'[r] = read_index
      BY <1>2, <1>3 DEF ReadersTyped
    <3>3. valid = 1
      BY <3>1 DEF ReadingOf
    <3>4. left'[r] = Fields /\ got'[r] = got[r]
      BY <3>1 DEF ReadingOf
    <3>5. Undisturbed(r)' => log'[idx'[r]] = Record(Shown)
      BY <1>1, <1>2, <1>3, <3>2, <3>3, Modulo DEF Undisturbed, Current
    <3> QED
      BY <1>1, <1>2, <2>2, <3>1, <3>2, <3>3, <3>4, <3>5 DEF ReadingOf, Record, NoBeat
  <2> QED
    BY <2>1, <2>2
<1> QED
  BY <1>1, <1>4, <1>5 DEF IInv, Reading

LEMMA CopyStep ==
  ASSUME IInv, NEW r \in Readers, NEW f \in Fields, CopyField(r, f) PROVE IInv'
<1> USE DEF CopyField, CopySlot
<1>1. /\ Exclusion' /\ Stages' /\ Ring' /\ Shown' = Shown
      /\ UNCHANGED <<counter, log, valid>>
  BY ReaderFrame
<1>2. ReadersTyped /\ log \in [0..BufferDepth -> [Fields -> Int]]
  BY DEF IInv, TypeOK, ReadersTyped
<1>3. /\ copy' = [copy EXCEPT ![r] = [copy[r] EXCEPT ![f] = log[idx[r]][f]]]
      /\ left' = [left EXCEPT ![r] = left[r] \ {f}]
  OBVIOUS
<1>4. copy[r] \in [Fields -> Int] /\ log[idx[r]][f] \in Int
  BY <1>2 DEF ReadersTyped
<1>5. TypeOK'
  <2>1. [copy[r] EXCEPT ![f] = log[idx[r]][f]] \in [Fields -> Int]
    BY <1>4
  <2>2. copy' \in [Readers -> [Fields -> Int]]
    BY <1>2, <1>3, <2>1 DEF ReadersTyped
  <2> QED
    BY <1>2, <2>2, ReaderFrame DEF ReadersTyped
<1>6. ASSUME NEW m \in Monitors PROVE ReadingOf(m)'
  <2>1. CASE m # r
    <3>1. rpc'[m] = rpc[m] /\ left'[m] = left[m] /\ copy'[m] = copy[m]
      BY <1>2, <2>1 DEF ReadersTyped
    <3> QED
      BY <3>1, OtherReaders
  <2>2. CASE m = r
    <3>1. ReadingOf(r)
      BY <2>2 DEF IInv, Reading
    <3>2. /\ rpc'[r] \in {"copy", "return"} /\ rpc[r] = "copy"
          /\ left'[r] = left[r] \ {f}
          /\ rpc'[r] = "return" => left'[r] = {}
          /\ \A g \in Fields :
                copy'[r][g] = IF g = f THEN log[idx[r]][f] ELSE copy[r][g]
      BY <1>2, <1>3, <1>4, <2>2 DEF ReadersTyped
    <3> QED
      BY <1>1, <2>2, <3>1, <3>2 DEF ReadingOf, Undisturbed
  <2> QED
    BY <2>1, <2>2
<1> QED
  BY <1>1, <1>5, <1>6 DEF IInv, Reading

LEMMA ReturnStep == ASSUME IInv, NEW r \in Readers, Return(r) PROVE IInv'
<1> USE DEF Return
<1>1. /\ Exclusion' /\ Stages' /\ Ring' /\ Shown' = Shown
      /\ UNCHANGED <<counter, log, valid>>
  BY ReaderFrame
<1>2. ReadersTyped
  BY DEF IInv, TypeOK, ReadersTyped
<1>3. got' \in [Monitors -> [Fields -> Int]] /\ rc' \in [Monitors -> {0, 1}]
  BY <1>2 DEF ReadersTyped
<1>4. TypeOK'
  BY <1>2, <1>3, HeartbeatAssumption, ReaderFrame DEF ReadersTyped, NoBeat
<1>5. ASSUME NEW m \in Monitors PROVE ReadingOf(m)'
  <2>1. CASE m # r
    <3>1. /\ rpc'[m] = rpc[m] /\ idx'[m] = idx[m] /\ seen'[m] = seen[m]
          /\ got'[m] = got[m]
      BY <1>2, <2>1 DEF ReadersTyped, Readers
    <3> QED
      BY <3>1, OtherReaders
  <2>2. CASE m = r
    <3>1. ReadingOf(r) /\ Shown \in Int
      BY <2>2, ShownType DEF IInv, Reading
    <3>2. rpc'[r] = "idle" /\ seen'[r] = NoBeat
      BY <1>2 DEF ReadersTyped
    <3>3. got'[r] = IF Undisturbed(r) THEN copy[r] ELSE got[r]
      BY <1>2, <2>2 DEF ReadersTyped
    <3>4. Undisturbed(r) => \A f \in Fields : copy[r][f] = seen[r] /\ seen[r] <= Shown
      BY <3>1 DEF ReadingOf, Undisturbed
    <3>5. \A f \in Fields : got'[r][f] <= Shown
      BY <3>1, <3>3, <3>4 DEF ReadingOf
    <3> QED
      BY <1>1, <2>2, <3>2, <3>5 DEF ReadingOf
  <2> QED
    BY <2>1, <2>2
<1> QED
  BY <1>1, <1>4, <1>5 DEF IInv, Reading
-----------------------------------------------------------------------------
(* The inductive invariant *)

LEMMA InitInvariant == Init => IInv
<1> SUFFICES ASSUME Init PROVE IInv
  OBVIOUS
<1> USE HeartbeatAssumption DEF Init, NoBeat
<1>1. TypeOK
  BY InitTypeOK
<1>2. Exclusion /\ Stages
  BY DEF Exclusion, Stages, Fresh, Stage
<1>3. Ring
  BY DEF Ring, Stored, SlotBeat, LapStart, Record, Slots
<1>4. Reading
  BY DEF Reading, ReadingOf, Shown, Record, Readers
<1> QED
  BY <1>1, <1>2, <1>3, <1>4 DEF IInv

LEMMA Induction == IInv /\ [Next]_vars => IInv'
<1> SUFFICES ASSUME IInv, [Next]_vars PROVE IInv'
  OBVIOUS
<1>1. CASE \E t \in Threads : Lock(t) \/ Beat(t)
  BY <1>1, LockStep, StoreStep, CountStep, PublishFirstStep, PublishStep,
     FlushRecordStep, WrapBufferStep, WrapStep, UnlockStep DEF Beat
<1>2. CASE \E r \in Readers : Read(r)
  BY <1>2, CallStep, LoadStep, CopyStep, ReturnStep DEF Read, ReadOn
<1>3. CASE Crash \/ UNCHANGED vars
  BY <1>3, CrashStep
<1> QED
  BY <1>1, <1>2, <1>3 DEF Next

\* IInv holds in every reachable state.
THEOREM Invariance == Spec => []IInv
  BY InitInvariant, Induction, PTL DEF Spec

\* The state is always of its type: no index leaves the log, in particular none
\* a thread stores through.
THEOREM Typing == Spec => []TypeOK
<1>1. IInv => TypeOK
  BY DEF IInv
<1> QED
  BY <1>1, Invariance, PTL

\* The log holds the last BufferDepth beats, each whole, whatever the threads do.
THEOREM RingCorrect == Spec => []RingOrder
<1>1. IInv => RingOrder
  <2> SUFFICES ASSUME IInv, NEW i \in Slots, ~Storing(i)
               PROVE  log[i] = Record(SlotBeat(i))
    BY DEF RingOrder
  <2>1. \A f \in Fields : log[i][f] = SlotBeat(i)
    BY DEF IInv, Ring, Stored, Storing
  <2>2. i \in 0..BufferDepth
    BY HeartbeatAssumption DEF Slots
  <2>3. log[i] \in [Fields -> Int]
    BY <2>2 DEF IInv, TypeOK
  <2> QED
    BY <2>1, <2>3 DEF Record
<1> QED
  BY <1>1, Invariance, PTL

\* Between heartbeats read_index shows the newest record, all its fields.
THEOREM QuiescentReadCorrect == Spec => []QuiescentRead
<1>1. IInv => QuiescentRead
  <2> SUFFICES ASSUME IInv, Quiescent, valid = 1
               PROVE  read_index \in Slots /\ log[read_index] = Record(counter - 1)
    BY DEF QuiescentRead
  <2>1. Stage = "idle" /\ Underway
    BY HeartbeatAssumption DEF IInv, Stage, Stages, Quiescent
  <2>2. read_index \in Slots
    BY <2>1, HeartbeatAssumption DEF IInv, TypeOK, Underway, Before, Slots
  <2>3. read_index % BufferDepth = read_index
    BY <2>2, Modulo, HeartbeatAssumption DEF Slots
  <2> QED
    BY <2>1, <2>2, <2>3, CurrentRecord DEF Current, Shown
<1> QED
  BY <1>1, Invariance, PTL

\* A monitor whose slot was not reached again returns one whole record, the one
\* that was current when it loaded the index, although it takes no lock.
THEOREM UntornReadCorrect == Spec => []UntornRead
<1>1. IInv => UntornRead
  <2> SUFFICES ASSUME IInv, NEW m \in Monitors, rpc[m] = "return", Undisturbed(m)
               PROVE  copy[m] = Record(seen[m])
    BY DEF UntornRead
  <2>1. \A f \in Fields : copy[m][f] = seen[m]
    BY DEF IInv, Reading, ReadingOf, Undisturbed
  <2>2. copy[m] \in [Fields -> Int]
    BY DEF IInv, TypeOK, Readers
  <2> QED
    BY <2>1, <2>2 DEF Record
<1> QED
  BY <1>1, Invariance, PTL
-----------------------------------------------------------------------------
(* The text log *)

\* A thread is in the loop of hb_flush_buffer only with a full buffer.
Flushing == \A t \in Threads :
               line[t] # 0 => pc[t] = "flush" /\ buffer_index = BufferDepth

\* The text log, and the beats it is to hold, stay as they are.
TextKept == /\ UNCHANGED text_file /\ Flushing'
            /\ HasTextFile => LapStart' + InFlush' = LapStart + InFlush

\* The flushed lap becomes a completed one.
LEMMA WrapKeeps ==
  ASSUME IInv, Flushing, NEW t \in Threads, WrapBuffer(t) PROVE TextKept
<1> USE HeartbeatAssumption
<1>1. mutex = t /\ Stage = "flush" /\ pc[t] = "flush"
  BY Holder DEF WrapBuffer
<1>2. Underway /\ buffer_index \in 1..BufferDepth /\ counter \in Nat
  BY <1>1 DEF IInv, TypeOK, Stages, Fresh, Underway
<1>3. /\ \A u \in Threads : line'[u] = IF u = t THEN 0 ELSE line[u]
      /\ \A u \in Threads : pc[u] = "flush" => u = t
      /\ UNCHANGED <<text_file, mutex, counter>>
  BY <1>1 DEF WrapBuffer, IInv, TypeOK, Exclusion
<1>4. \A u \in Threads : line'[u] = 0
  BY <1>3 DEF Flushing
<1>5. Flushing' /\ InFlush' = 0 /\ InFlush = line[t]
  BY <1>1, <1>3, <1>4 DEF Flushing, InFlush
<1>6. CASE buffer_index = BufferDepth
  <2>1. Wrap(buffer_index) = 0 /\ Full
    BY <1>6, WrapValue, Modulo DEF Full
  <2>2. buffer_index' = 0 /\ (HasTextFile => line[t] = BufferDepth)
    BY <2>1 DEF WrapBuffer, nrecords
  <2> QED
    BY <1>2, <1>3, <1>5, <1>6, <2>2 DEF TextKept, LapStart
<1>7. CASE buffer_index # BufferDepth
  <2>1. ~Full /\ line[t] = 0
    BY <1>2, <1>7, Modulo DEF Full, Flushing
  <2>2. UNCHANGED buffer_index
    BY <2>1 DEF WrapBuffer
  <2> QED
    BY <1>3, <1>5, <2>1, <2>2 DEF TextKept, LapStart
<1> QED
  BY <1>6, <1>7

\* Nothing is in the loop.
LEMMA FlushQuiet ==
  ASSUME IInv, Flushing, UNCHANGED <<text_file, line>>, LapStart' = LapStart,
         \A t \in Threads : line[t] = 0
  PROVE  TextKept
<1>1. InFlush = 0 /\ InFlush' = 0
  BY DEF InFlush
<1> QED
  BY <1>1 DEF TextKept, Flushing

\* No thread is in the loop while another is anywhere else in heartbeat().
LEMMA OutsideLoop ==
  ASSUME IInv, Flushing, \/ mutex \notin Threads
                         \/ \E t \in Threads : pc[t] \notin {"idle", "flush"}
                         \/ buffer_index # BufferDepth
  PROVE  \A t \in Threads : line[t] = 0
BY DEF IInv, Exclusion, Flushing

\* Every step but those of the loop leaves the text log alone, and the beats it is
\* to hold.
LEMMA LapSteps ==
  ASSUME IInv, Flushing, [Next]_vars
  PROVE  TextKept \/ \E t \in Threads : FlushRecord(t)
<1> USE DEF segment, private
<1>1. ASSUME NEW t \in Threads,
             Lock(t) \/ (\E f \in Fields : StoreField(t, f)) \/ PublishFirst(t)
             \/ Publish(t) \/ WrapRead(t) \/ Unlock(t)
      PROVE TextKept
  <2>1. UNCHANGED <<text_file, line>> /\ LapStart' = LapStart
    BY <1>1 DEF Lock, StoreField, PublishFirst, Publish, WrapRead, Unlock, LapStart
  <2>2. mutex \notin Threads \/ pc[t] \notin {"idle", "flush"}
    BY <1>1, HeartbeatAssumption
    DEF Lock, MutexFree, StoreField, PublishFirst, Publish, WrapRead, Unlock
  <2> QED
    BY <2>1, <2>2, OutsideLoop, FlushQuiet
<1>2. ASSUME NEW t \in Threads, Count(t) PROVE TextKept
  <2>1. counter \in Nat /\ buffer_index \in Nat
    BY <1>2, Filling DEF Count
  <2>2. UNCHANGED <<text_file, line>> /\ LapStart' = LapStart
    BY <1>2, <2>1 DEF Count, LapStart
  <2>3. pc[t] \notin {"idle", "flush"}
    BY <1>2 DEF Count
  <2> QED
    BY <2>2, <2>3, OutsideLoop, FlushQuiet
<1>3. ASSUME NEW t \in Threads, WrapBuffer(t) PROVE TextKept
  BY <1>3, WrapKeeps
<1>4. ASSUME NEW r \in Readers, Read(r) PROVE TextKept
  <2>1. UNCHANGED <<text_file, line, mutex, pc, counter, buffer_index>>
    BY <1>4 DEF Read, ReadOn, CheckValid, CallLocal, LoadIndex, CopyField, Return
  <2> QED
    BY <2>1 DEF TextKept, Flushing, InFlush, LapStart
<1>5. ASSUME Crash \/ UNCHANGED vars PROVE TextKept
  BY <1>5 DEF Crash, vars, TextKept, Flushing, InFlush, LapStart
<1> QED
  BY <1>1, <1>2, <1>3, <1>4, <1>5 DEF Next, Beat

\* The loop appends the next beat of its lap.
LEMMA FlushLap ==
  ASSUME IInv, Flushing, TextLog, NEW t \in Threads, FlushRecord(t)
  PROVE  TextLog' /\ Flushing'
<1> USE HeartbeatAssumption
<1>1. mutex = t /\ Stage = "flush" /\ pc[t] = "flush"
  BY Holder DEF FlushRecord
<1>2. buffer_index = BufferDepth
  <2>1. Underway
    BY <1>1 DEF IInv, Stages, Fresh
  <2>2. buffer_index \in 1..BufferDepth
    BY <1>1, <2>1 DEF Underway
  <2> QED
    BY <2>2, Modulo DEF FlushRecord, Full
<1>3. /\ counter \in Nat /\ BufferDepth \in Nat /\ LapStart \in Nat /\ LapStart' = LapStart
      /\ line[t] \in 0..(BufferDepth - 1) /\ line \in [Threads -> 0..BufferDepth]
  <2>1. Underway /\ counter \in Nat
    BY <1>1 DEF IInv, TypeOK, Stages, Fresh
  <2>2. LapStart \in Int /\ (LapStart = 0 \/ LapStart >= BufferDepth)
    BY <1>2, <2>1 DEF Underway, LapStart
  <2> QED
    BY <2>1, <2>2 DEF FlushRecord, segment, LapStart, IInv, TypeOK, nrecords
<1>4. /\ line' = [line EXCEPT ![t] = line[t] + 1] /\ text_file' = Append(text_file, log[line[t]])
      /\ UNCHANGED <<pc, mutex, buffer_index>> /\ HasTextFile
  BY DEF FlushRecord, segment
<1>5. Flushing'
  BY <1>1, <1>2, <1>3, <1>4 DEF Flushing
<1>6. InFlush = line[t] /\ InFlush' = line[t] + 1
  BY <1>1, <1>3, <1>4 DEF InFlush
<1>7. log[line[t]] = Record(LapStart + line[t])
  <2>1. line[t] \in Slots /\ line[t] \in 0..BufferDepth
    BY <1>3 DEF Slots
  <2>2. \A f \in Fields : ~Stored(line[t], f)
    BY <1>1 DEF Stored, Stage, IInv, Exclusion
  <2>3. SlotBeat(line[t]) = LapStart + line[t]
    BY <1>2, <1>3 DEF SlotBeat
  <2>4. \A f \in Fields : log[line[t]][f] = LapStart + line[t]
    BY <2>1, <2>2, <2>3 DEF IInv, Ring
  <2>5. log[line[t]] \in [Fields -> Int]
    BY <2>1 DEF IInv, TypeOK
  <2> QED
    BY <2>4, <2>5 DEF Record
<1>8. text_file' = [i \in 1..(LapStart + line[t] + 1) |-> Record(i - 1)]
  <2> DEFINE n == LapStart + line[t]
  <2>1. n \in Nat /\ text_file = [i \in 1..n |-> Record(i - 1)] /\ log[line[t]] = Record(n)
    BY <1>3, <1>4, <1>6, <1>7 DEF TextLog
  <2>2. text_file \in Seq([Fields -> Int])
    BY DEF IInv, TypeOK
  <2>3. Len(text_file) = n
    BY <2>1, <2>2
  <2> HIDE DEF n
  <2>4. Append(text_file, Record(n)) = [i \in 1..(n + 1) |-> Record(i - 1)]
    BY <2>1, <2>2, <2>3
  <2>5. text_file' = [i \in 1..(n + 1) |-> Record(i - 1)]
    BY <1>4, <2>1, <2>4
  <2> QED
    BY <2>5 DEF n
<1>9. LapStart' + InFlush' = LapStart + line[t] + 1
  BY <1>3, <1>6
<1> QED
  BY <1>5, <1>8, <1>9 DEF TextLog

\* The text log is every beat of the completed laps, and of the lap being flushed
\* those up to the loop's index, once and in order.
THEOREM TextLogCorrect == Spec => []TextLog
<1>1. Init => TextLog /\ Flushing
  <2> SUFFICES ASSUME Init PROVE TextLog /\ Flushing
    OBVIOUS
  <2>1. LapStart + InFlush = 0 /\ text_file = << >>
    BY HeartbeatAssumption DEF Init, LapStart, InFlush
  <2> QED
    BY <2>1 DEF Init, TextLog, Flushing
<1>2. IInv /\ TextLog /\ Flushing /\ [Next]_vars => TextLog' /\ Flushing'
  <2> SUFFICES ASSUME IInv, TextLog, Flushing, [Next]_vars PROVE TextLog' /\ Flushing'
    OBVIOUS
  <2>1. CASE TextKept
    BY <2>1 DEF TextLog, TextKept
  <2>2. CASE \E t \in Threads : FlushRecord(t)
    BY <2>2, FlushLap
  <2> QED
    BY <2>1, <2>2, LapSteps
<1> QED
  BY <1>1, <1>2, Invariance, PTL DEF Spec
-----------------------------------------------------------------------------
(* Heartbeat implements BeatRegister *)

LEMMA InitRefines == Init => Register!Init
  BY DEF Init, Register!Init, Register!NoRecord, Register!Record, Current, Record, NoBeat

\* The steps that change what the segment shows, and how.
LEMMA ShownSteps ==
  ASSUME IInv, IInv', [Next]_vars
  PROVE  \/ Shown' = Shown
         \/ Shown' = Shown + 1 /\ UNCHANGED got
<1> USE HeartbeatAssumption
<1>0. counter \in Nat /\ pc \in [Threads -> {"idle", "store", "count", "publish", "flush", "wrap", "unlock"}]
  BY DEF IInv, TypeOK
<1>1. ASSUME NEW t \in Threads, Lock(t) PROVE Shown' = Shown
  BY <1>0, <1>1 DEF Lock, MutexFree, segment, Shown, Stage
<1>2. ASSUME NEW t \in Threads, pc[t] # "idle" PROVE mutex = t /\ Stage = pc[t]
  BY <1>2, Holder
<1>3. ASSUME NEW t \in Threads, NEW f \in Fields, StoreField(t, f) PROVE Shown' = Shown
  BY <1>0, <1>2, <1>3 DEF StoreField, Shown, Stage
<1>4. ASSUME NEW t \in Threads, Count(t) PROVE Shown' = Shown
  BY <1>0, <1>2, <1>4 DEF Count, Shown, Stage
<1>5. ASSUME NEW t \in Threads, PublishFirst(t) PROVE Shown' = Shown + 1 /\ UNCHANGED got
  <2>1. mutex = t /\ Stage = "publish" /\ branch[t] = "first" /\ pc[t] = "publish"
    BY <1>2, <1>5 DEF PublishFirst
  <2>2. valid = 0
    BY <2>1 DEF IInv, TypeOK, Stages, Underway
  <2>3. counter = 1
    BY <2>1, <2>2 DEF IInv, Stages, Fresh
  <2> QED
    BY <1>0, <1>5, <2>1, <2>2, <2>3 DEF PublishFirst, Shown, Stage, NoBeat, reading
<1>6. ASSUME NEW t \in Threads, Publish(t) PROVE Shown' = Shown + 1 /\ UNCHANGED got
  <2>1. mutex = t /\ Stage = "publish" /\ branch[t] = "later"
    BY <1>2, <1>6 DEF Publish
  <2>2. valid = 1
    BY <2>1 DEF IInv, TypeOK, Stages, Fresh
  <2> QED
    BY <1>0, <1>6, <2>1, <2>2 DEF Publish, Shown, Stage, reading
<1>7. ASSUME NEW t \in Threads, FlushRecord(t) \/ WrapBuffer(t) \/ WrapRead(t) \/ Unlock(t)
      PROVE Shown' = Shown
  BY <1>0, <1>2, <1>7 DEF FlushRecord, WrapBuffer, WrapRead, Unlock, Shown, Stage, segment
<1>8. ASSUME NEW r \in Readers, Read(r) PROVE Shown' = Shown
  BY <1>8, ReaderFrame DEF Read, ReadOn, CheckValid, CallLocal, LoadIndex, CopyField, Return
<1>9. ASSUME Crash \/ UNCHANGED vars PROVE Shown' = Shown
  BY <1>9 DEF Crash, vars, segment, private, Shown, Stage
<1> QED
  BY <1>1, <1>3, <1>4, <1>5, <1>6, <1>7, <1>8, <1>9 DEF Next, Beat

\* The steps that change what a monitor was given, and how.
LEMMA GotSteps ==
  ASSUME IInv, [Next]_vars
  PROVE  \/ UNCHANGED got
         \/ \E m \in Monitors : /\ got' = [got EXCEPT ![m] = Record(seen[m])]
                                /\ seen[m] \in 0..Shown
                                /\ \A f \in Fields : got[m][f] <= seen[m]
<1>1. ASSUME NEW r \in Readers, Return(r), got' # got
      PROVE  /\ r \in Monitors /\ got' = [got EXCEPT ![r] = Record(seen[r])]
             /\ seen[r] \in 0..Shown
             /\ \A f \in Fields : got[r][f] <= seen[r]
  <2>1. r \in Monitors /\ Undisturbed(r) /\ rpc[r] = "return"
        /\ got' = [got EXCEPT ![r] = copy[r]]
    BY <1>1 DEF Return
  <2>2. ReadingOf(r)
    BY <2>1 DEF IInv, Reading
  <2>3. \A f \in Fields : copy[r][f] = seen[r]
    BY <2>1, <2>2 DEF ReadingOf, Undisturbed
  <2>4. copy[r] = Record(seen[r])
    BY <2>3 DEF IInv, TypeOK, Record
  <2> QED
    BY <2>1, <2>2, <2>4 DEF ReadingOf, Undisturbed
<1>2. ASSUME NEW t \in Threads, Lock(t) \/ Beat(t) PROVE UNCHANGED got
  BY <1>2 DEF Lock, Beat, StoreField, Count, PublishFirst, Publish, FlushRecord, WrapBuffer,
              WrapRead, Unlock, reading
<1>3. ASSUME NEW r \in Readers, CheckValid(r) \/ CallLocal(r) \/ LoadIndex(r)
                                 \/ \E f \in Fields : CopyField(r, f)
      PROVE UNCHANGED got
  BY <1>3 DEF CheckValid, CallLocal, LoadIndex, CopyField
<1>4. ASSUME Crash \/ UNCHANGED vars PROVE UNCHANGED got
  BY <1>4 DEF Crash, vars, reading
<1> QED
  BY <1>1, <1>2, <1>3, <1>4 DEF Next, Read, ReadOn

LEMMA StepRefines == IInv /\ IInv' /\ [Next]_vars => [Register!Next]_Register!vars
<1> SUFFICES ASSUME IInv, IInv', [Next]_vars PROVE [Register!Next]_Register!vars
  OBVIOUS
<1>1. /\ Current = Record(Shown) /\ Current' = Record(Shown')
      /\ Shown \in Int /\ Shown' \in Int
  <2>1. Current = Record(Shown) /\ Shown \in Int
    BY CurrentRecord, ShownType
  <2>2. (IInv => Current = Record(Shown) /\ Shown \in Int)'
    BY CurrentRecord, ShownType, PTL
  <2> QED
    BY <2>1, <2>2
<1>2. CASE Shown' = Shown + 1 /\ UNCHANGED got
  BY <1>1, <1>2 DEF Register!Next, Register!Publish, Record
<1>3. CASE Shown' = Shown /\ UNCHANGED got
  BY <1>1, <1>3 DEF Register!vars
<1>4. ASSUME Shown' = Shown, NEW m \in Monitors,
             got' = [got EXCEPT ![m] = Record(seen[m])], seen[m] \in 0..Shown,
             \A f \in Fields : got[m][f] <= seen[m]
      PROVE Register!Next
  <2>1. PICK f \in Fields : TRUE
    BY HeartbeatAssumption
  <2>2. Current[f] = Shown /\ \A g \in Fields : Current[g] = Shown
    BY <1>1 DEF Record
  <2>3. Record(seen[m]) = Register!Record(seen[m])
    BY DEF Record, Register!Record
  <2>4. Register!Read(m)
    <3>1. seen[m] \in 0..Current[f]
      BY <1>4, <2>2
    <3>2. \A g \in Fields : got[m][g] <= seen[m] /\ seen[m] <= Current[g]
      BY <1>1, <1>4, <2>2
    <3>3. got' = [got EXCEPT ![m] = Register!Record(seen[m])] /\ Current' = Current
      BY <1>1, <1>4, <2>3
    <3> QED
      BY <3>1, <3>2, <3>3 DEF Register!Read
  <2> QED
    BY <2>4 DEF Register!Next
<1> QED
  BY <1>2, <1>3, <1>4, ShownSteps, GotSteps

\* The segment implements the register of BeatRegister: one whole record that
\* moves one beat at a time, and monitors that never go back.
THEOREM Refinement == Spec => RegisterSpec
  BY InitRefines, StepRefines, Invariance, PTL DEF Spec, RegisterSpec, Register!Spec
-----------------------------------------------------------------------------
(* A field read inside the application *)

\* What a reader inside the application may rely on between the two loads of
\* one field: that of read_index and that of the field.
LoadedBeat(r) ==
    rpc[r] = "copy" /\ seen[r] # NoBeat =>
        /\ seen[r] \in 0..Shown
        /\ Undisturbed(r) => \A f \in Fields : log[idx[r]][f] = seen[r]

LocalReading == \A r \in Locals : LoadedBeat(r)

\* A step of a thread moves the counter and the record shown forwards only, and
\* stores nothing into a slot that an undisturbed reader has loaded.
LEMMA ThreadKeepsLoaded ==
  ASSUME IInv, IInv', NEW t \in Threads, Lock(t) \/ Beat(t),
         NEW r \in Locals, LoadedBeat(r)
  PROVE  LoadedBeat(r)'
<1> SUFFICES ASSUME rpc'[r] = "copy", seen'[r] # NoBeat
             PROVE  /\ seen'[r] \in 0..Shown'
                    /\ Undisturbed(r)' => \A f \in Fields : log'[idx'[r]][f] = seen'[r]
  BY DEF LoadedBeat
<1>1. UNCHANGED <<rpc, idx, seen>> /\ counter' \in {counter, counter + 1}
  BY DEF Lock, Beat, StoreField, Count, PublishFirst, Publish, FlushRecord, WrapBuffer,
         WrapRead, Unlock, segment, reading
<1>2. /\ seen[r] \in 0..Shown
      /\ Undisturbed(r) => \A f \in Fields : log[idx[r]][f] = seen[r]
  BY <1>1 DEF LoadedBeat
<1>3. Shown' \in {Shown, Shown + 1} /\ Shown \in Int
  BY ShownSteps, ShownType DEF Next
<1>4. counter \in Nat /\ seen[r] \in Int /\ BufferDepth \in Nat
  BY HeartbeatAssumption DEF IInv, TypeOK, Readers
<1>5. Undisturbed(r)' => Undisturbed(r)
  BY <1>1, <1>4 DEF Undisturbed
<1>6. Undisturbed(r) => log'[idx[r]] = log[idx[r]]
  <2>1. CASE \E f \in Fields : StoreField(t, f)
    BY <1>2, <2>1, StoreMisses DEF Readers
  <2>2. CASE ~\E f \in Fields : StoreField(t, f)
    BY <2>2 DEF Lock, Beat, Count, PublishFirst, Publish, FlushRecord, WrapBuffer, WrapRead,
                Unlock, segment
  <2> QED
    BY <2>1, <2>2
<1>7. seen'[r] \in 0..Shown'
  BY <1>1, <1>2, <1>3
<1> QED
  BY <1>1, <1>2, <1>5, <1>6, <1>7

\* A local that loads read_index will find the record shown in the slot, unless
\* the index is the transient one or nothing is valid yet.
LEMMA LoadLoads ==
  ASSUME IInv, NEW r \in Locals, LoadIndex(r) PROVE LoadedBeat(r)'
<1>1. Shown' = Shown /\ UNCHANGED <<counter, log, valid>>
  BY ReaderFrame DEF LoadIndex
<1>2. /\ CurrentBeat = Shown /\ Current = Record(Shown)
      /\ Shown \in Int /\ valid \in {0, 1} /\ (valid = 1 => Shown >= 0)
  BY CurrentRecord, ShownType DEF IInv, TypeOK
<1>3. seen'[r] = Shown /\ idx'[r] = read_index /\ read_index \in 0..BufferDepth
  BY <1>2 DEF LoadIndex, ReadSlot, IInv, TypeOK, Readers
<1>4. valid = 0 => Shown = NoBeat
  BY DEF Shown
<1>5. valid = 1 /\ Undisturbed(r)' => log'[idx'[r]] = Record(Shown)
  BY <1>1, <1>2, <1>3, Modulo DEF Undisturbed, Current
<1> QED
  BY <1>1, <1>2, <1>3, <1>4, <1>5 DEF LoadedBeat, Record

LEMMA LocalInduction == IInv /\ IInv' /\ LocalReading /\ [Next]_vars => LocalReading'
<1> SUFFICES ASSUME IInv, IInv', LocalReading, [Next]_vars, NEW r \in Locals
             PROVE  LoadedBeat(r)'
  BY DEF LocalReading
<1>1. LoadedBeat(r) /\ r \in Readers /\ r \notin Monitors
  BY HeartbeatAssumption DEF LocalReading, Readers
<1>2. CASE \E t \in Threads : Lock(t) \/ Beat(t)
  BY <1>1, <1>2, ThreadKeepsLoaded
<1>3. ASSUME NEW q \in Readers, Read(q) PROVE LoadedBeat(r)'
  <2>1. Shown' = Shown /\ UNCHANGED <<counter, log>>
    BY <1>3, ReaderFrame DEF Read, ReadOn, CheckValid, CallLocal, LoadIndex, CopyField, Return
  <2>2. ReadersTyped
    BY DEF IInv, TypeOK, ReadersTyped
  <2>3. CASE q = r
    <3>1. CASE LoadIndex(r)
      BY <3>1, LoadLoads
    <3>2. CASE CheckValid(r) \/ CallLocal(r) \/ Return(r)
               \/ \E f \in Fields : CopyField(r, f)
      <4>1. rpc'[r] # "copy"
        BY <1>1, <2>2, <3>2
           DEF CheckValid, CallLocal, CopyField, Return, ReadersTyped
      <4> QED
        BY <4>1 DEF LoadedBeat
    <3> QED
      BY <1>3, <2>3, <3>1, <3>2 DEF Read, ReadOn
  <2>4. CASE q # r
    <3>1. rpc'[r] = rpc[r] /\ idx'[r] = idx[r] /\ seen'[r] = seen[r]
      BY <1>1, <1>3, <2>2, <2>4
         DEF Read, ReadOn, CheckValid, CallLocal, LoadIndex, CopyField, Return, ReadersTyped
    <3> QED
      BY <1>1, <2>1, <3>1 DEF LoadedBeat, Undisturbed
  <2> QED
    BY <2>3, <2>4
<1>4. CASE Crash \/ UNCHANGED vars
  BY <1>1, <1>4 DEF Crash, vars, segment, private, reading, LoadedBeat, Undisturbed,
                    Shown, Stage
<1> QED
  BY <1>2, <1>3, <1>4 DEF Next

\* Only CopyField takes a field of a local off its list.
LEMMA FieldStep ==
  ASSUME IInv, LocalReading, [Next]_vars, NEW r \in Locals, NEW f \in left[r],
         f \notin left'[r], Undisturbed(r)
  PROVE  copy'[r][f] = seen[r]
<1>1. ReadersTyped /\ r \in Readers /\ f \in Fields
  BY DEF IInv, TypeOK, ReadersTyped, Readers
<1>2. ~\E t \in Threads : Lock(t) \/ Beat(t)
  BY DEF Lock, Beat, StoreField, Count, PublishFirst, Publish, FlushRecord, WrapBuffer,
         WrapRead, Unlock, reading
<1>3. ~(Crash \/ UNCHANGED vars)
  BY DEF Crash, vars, reading
<1>4. PICK q \in Readers : Read(q)
  BY <1>2, <1>3 DEF Next
<1>5. ~(CheckValid(q) \/ CallLocal(q) \/ LoadIndex(q) \/ Return(q))
  BY <1>1 DEF CheckValid, CallLocal, LoadIndex, Return, ReadersTyped
<1>6. PICK g \in Fields : CopyField(q, g)
  BY <1>4, <1>5 DEF Read, ReadOn
<1>7. q = r /\ g = f
  BY <1>1, <1>6 DEF CopyField, ReadersTyped
<1>8. rpc[r] = "copy" /\ copy' = [copy EXCEPT ![r] = [copy[r] EXCEPT ![f] = log[idx[r]][f]]]
  BY <1>6, <1>7 DEF CopyField, CopySlot
<1>9. copy'[r][f] = log[idx[r]][f]
  BY <1>1, <1>8 DEF ReadersTyped
<1> QED
  BY <1>1, <1>8, <1>9 DEF LocalReading, LoadedBeat, Undisturbed

\* A field that a reader inside the application copies, without the lock and
\* with an index of its own, is that of the beat current when the index was
\* loaded, unless the threads came back to the slot.
THEOREM FieldReadCorrect == Spec => FieldRead
<1>1. Init => LocalReading
  BY DEF Init, LocalReading, LoadedBeat, Readers
<1>2. IInv /\ LocalReading /\ [Next]_vars =>
        [\A r \in Locals : \A f \in left[r] :
            f \notin left'[r] /\ Undisturbed(r) => copy'[r][f] = seen[r]]_vars
  BY FieldStep
<1> QED
  BY <1>1, <1>2, LocalInduction, Invariance, PTL DEF Spec, FieldRead
=============================================================================
