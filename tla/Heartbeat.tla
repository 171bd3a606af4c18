----------------------------- MODULE Heartbeat ------------------------------
(***************************************************************************)
(* The shared-memory heartbeat segment (heartbeat-shared.c) and the ways   *)
(* it is read: by monitors in other processes (heart_rate_monitor-shared.c *)
(* hrm_get_current) and inside the application (hb_get_current).           *)
(*                                                                         *)
(* heartbeat() runs under hb->mutex, but no reader takes it: each store to *)
(* the segment that a reader can tell from the next is an action.  A       *)
(* record is a function from its fields to the number of the beat they     *)
(* belong to, so that a whole record is told from one mixed of two beats.  *)
(* The fields are stored and read in any order: the source's and those a   *)
(* compiler gives plain stores.  counter and buffer_index move in one      *)
(* step, because none of the readers below loads both.                     *)
(***************************************************************************)
EXTENDS Integers, Sequences

CONSTANTS Threads,      \* threads of the application that call heartbeat()
          Monitors,     \* processes that call hrm_get_current()
          Locals,       \* threads of the application that call hb_get_current()
          Fields,       \* the fields of a heartbeat_record_t
          BufferDepth,  \* hb->state->buffer_depth
          HasTextFile,  \* hb->text_file != NULL
          MaxBeats,     \* bound: heartbeats in a behaviour
          NoThread      \* the mutex is free

Readers == Monitors \cup Locals

ASSUME HeartbeatAssumption ==
    /\ BufferDepth \in Nat /\ BufferDepth >= 2
    /\ MaxBeats \in Nat
    /\ HasTextFile \in BOOLEAN
    /\ Fields # {}
    /\ NoThread \notin Threads
    /\ Monitors \cap Locals = {}

NoBeat   == -1          \* a field nothing was ever stored to
OutOfLog == -2          \* what lies in memory behind the last record

VARIABLES
    counter, buffer_index, read_index, valid,   \* HB_global_state_t
    log,                \* the records; slot BufferDepth is the memory behind them
    text_file,          \* the records handed to fprintf for the text log
    first_timestamp,    \* "none" is -1, "set" any clock value
    mutex,              \* hb->mutex: its holder
    pc, index, branch, todo,    \* each thread inside heartbeat(), its locals
    line,               \* each thread inside hb_flush_buffer: its i
    app,                \* "up", or "down" once the application died
    rpc, idx, left,     \* each reader inside its call, its locals
    copy,               \* the caller's record that the reader fills
    rc,                 \* what hrm_get_current returned last
    seen,               \* history: the current beat when idx was loaded
    got                 \* history: the last record returned without interference

segment == <<counter, buffer_index, read_index, valid, log>>
private == <<text_file, line, first_timestamp, mutex, pc, index, branch, todo>>
reading == <<rpc, idx, left, copy, rc, seen, got>>
vars    == <<segment, private, app, reading>>

Slots       == 0..(BufferDepth - 1)
Record(b)   == [f \in Fields |-> b]
Quiescent   == mutex = NoThread
\* The record the segment shows as current once the transient value
\* BufferDepth of read_index is wrapped.
Current     == IF valid = 1 THEN log[read_index % BufferDepth] ELSE Record(NoBeat)
\* The number of the current beat, -1 before the first one is visible.
CurrentBeat == Current[CHOOSE f \in Fields : TRUE]

\* heartbeat_init: counters at zero, nothing valid, nothing in the log.
Init ==
    /\ counter = 0 /\ buffer_index = 0 /\ read_index = 0 /\ valid = 0
    /\ log = [i \in 0..BufferDepth |-> Record(IF i \in Slots THEN NoBeat ELSE OutOfLog)]
    /\ text_file = << >>
    /\ line = [t \in Threads |-> 0]
    /\ first_timestamp = "none"
    /\ mutex = NoThread
    /\ pc = [t \in Threads |-> "idle"]
    /\ index = [t \in Threads |-> 0]
    /\ branch = [t \in Threads |-> "later"]
    /\ todo = [t \in Threads |-> {}]
    /\ app = "up"
    /\ rpc = [r \in Readers |-> "idle"]
    /\ idx = [r \in Readers |-> 0]
    /\ left = [r \in Readers |-> {}]
    /\ copy = [r \in Readers |-> Record(NoBeat)]
    /\ rc = [m \in Monitors |-> 1]
    /\ seen = [r \in Readers |-> NoBeat]
    /\ got = [m \in Monitors |-> Record(NoBeat)]
-----------------------------------------------------------------------------
(* heartbeat(), called by thread t.  Each Fault_x is a faulty variant of the  *)
(* definition that follows them: the properties below tell them from the code. *)

\* pthread_mutex_lock goes ahead.
Fault_NoLock == TRUE
MutexFree == mutex = NoThread

\* The first heartbeat fills slot 0, any other the slot at buffer_index.
Fault_FillCurrent == IF first_timestamp = "none" THEN 0 ELSE read_index
FillSlot == IF first_timestamp = "none" THEN 0 ELSE buffer_index

\* An index that has reached the end of the log starts over.
Fault_NoWrap(i) == i
Wrap(i) == IF i % BufferDepth = 0 THEN 0 ELSE i

\* pthread_mutex_lock and the choice of the branch.
Lock(t) ==
    /\ app = "up" /\ pc[t] = "idle" /\ MutexFree
    /\ counter < MaxBeats
    /\ mutex' = t
    /\ pc' = [pc EXCEPT ![t] = "store"]
    /\ branch' = [branch EXCEPT ![t] = IF first_timestamp = "none" THEN "first" ELSE "later"]
    /\ index' = [index EXCEPT ![t] = FillSlot]
    /\ todo' = [todo EXCEPT ![t] = Fields]
    /\ first_timestamp' = "set"
    /\ UNCHANGED <<segment, text_file, line, app, reading>>

\* One field of the record is stored.
StoreField(t, f) ==
    /\ app = "up" /\ pc[t] = "store" /\ f \in todo[t]
    /\ log' = [log EXCEPT ![index[t]] = [@ EXCEPT ![f] = counter]]
    /\ todo' = [todo EXCEPT ![t] = @ \ {f}]
    /\ pc' = [pc EXCEPT ![t] = IF todo[t] = {f} THEN "count" ELSE "store"]
    /\ UNCHANGED <<counter, buffer_index, read_index, valid, text_file, line,
                   first_timestamp, mutex, index, branch, app, reading>>

\* counter++ and buffer_index++.
Count(t) ==
    /\ app = "up" /\ pc[t] = "count"
    /\ counter' = counter + 1
    /\ buffer_index' = buffer_index + 1
    /\ pc' = [pc EXCEPT ![t] = "publish"]
    /\ UNCHANGED <<read_index, valid, log, text_file, line, first_timestamp, mutex,
                   index, branch, todo, app, reading>>

\* valid = 1: only the first branch does it, which then leaves.
Fault_NotValid(t) ==
    /\ app = "up" /\ pc[t] = "publish" /\ branch[t] = "first"
    /\ pc' = [pc EXCEPT ![t] = "unlock"]
    /\ UNCHANGED <<segment, text_file, line, first_timestamp, mutex, index, branch,
                   todo, app, reading>>
Fault_FirstMovesRead(t) ==
    /\ app = "up" /\ pc[t] = "publish" /\ branch[t] = "first"
    /\ valid' = 1 /\ read_index' = read_index + 1
    /\ pc' = [pc EXCEPT ![t] = "unlock"]
    /\ UNCHANGED <<counter, buffer_index, log, text_file, line, first_timestamp,
                   mutex, index, branch, todo, app, reading>>
Fault_FirstKeepsLock(t) ==
    /\ app = "up" /\ pc[t] = "publish" /\ branch[t] = "first"
    /\ valid' = 1
    /\ pc' = [pc EXCEPT ![t] = "idle"]
    /\ UNCHANGED <<counter, buffer_index, read_index, log, text_file, line,
                   first_timestamp, mutex, index, branch, todo, app, reading>>
PublishFirst(t) ==
    /\ app = "up" /\ pc[t] = "publish" /\ branch[t] = "first"
    /\ valid' = 1
    /\ pc' = [pc EXCEPT ![t] = "unlock"]
    /\ UNCHANGED <<counter, buffer_index, read_index, log, text_file, line,
                   first_timestamp, mutex, index, branch, todo, app, reading>>

\* read_index++: it may now be BufferDepth.
Publish(t) ==
    /\ app = "up" /\ pc[t] = "publish" /\ branch[t] = "later"
    /\ read_index' = read_index + 1
    /\ pc' = [pc EXCEPT ![t] = "flush"]
    /\ UNCHANGED <<counter, buffer_index, valid, log, text_file, line,
                   first_timestamp, mutex, index, branch, todo, app, reading>>

\* The buffer is full: hb_flush_buffer, and buffer_index starts over.
Full == buffer_index % BufferDepth = 0

Fault_nrecords == BufferDepth - 1
nrecords == BufferDepth

\* hb_flush_buffer: the next record, in slot order, to the text file.
FlushRecord(t) ==
    /\ app = "up" /\ pc[t] = "flush" /\ Full /\ HasTextFile
    /\ line[t] < nrecords
    /\ text_file' = Append(text_file, log[line[t]])
    /\ line' = [line EXCEPT ![t] = @ + 1]
    /\ UNCHANGED <<segment, first_timestamp, mutex, pc, index, branch, todo, app, reading>>

\* A full buffer that is flushed starts over.
WrapBuffer(t) ==
    /\ app = "up" /\ pc[t] = "flush"
    /\ Full /\ HasTextFile => line[t] = nrecords
    /\ buffer_index' = IF Full THEN Wrap(buffer_index) ELSE buffer_index
    /\ line' = [line EXCEPT ![t] = 0]
    /\ pc' = [pc EXCEPT ![t] = "wrap"]
    /\ UNCHANGED <<counter, read_index, valid, log, text_file, first_timestamp, mutex,
                   index, branch, todo, app, reading>>

\* read_index starts over, after readers could load the value BufferDepth.
WrapRead(t) ==
    /\ app = "up" /\ pc[t] = "wrap"
    /\ read_index' = Wrap(read_index)
    /\ pc' = [pc EXCEPT ![t] = "unlock"]
    /\ UNCHANGED <<counter, buffer_index, valid, log, text_file, line,
                   first_timestamp, mutex, index, branch, todo, app, reading>>

\* pthread_mutex_unlock and return: the locals go out of scope.
Unlock(t) ==
    /\ app = "up" /\ pc[t] = "unlock"
    /\ mutex' = NoThread
    /\ pc' = [pc EXCEPT ![t] = "idle"]
    /\ index' = [index EXCEPT ![t] = 0]
    /\ branch' = [branch EXCEPT ![t] = "later"]
    /\ UNCHANGED <<segment, text_file, line, first_timestamp, todo, app, reading>>

\* The application dies; the segment stays as the last store left it.
Crash ==
    /\ app = "up"
    /\ app' = "down"
    /\ UNCHANGED <<segment, private, reading>>
-----------------------------------------------------------------------------
(* hrm_get_current(), called by a monitor, and hb_get_current(), by a local *)

\* if(hb->state->valid): nothing is copied when the test fails.
CheckValid(r) ==
    /\ r \in Monitors /\ rpc[r] = "idle"
    /\ IF valid = 1
         THEN rpc' = [rpc EXCEPT ![r] = "index"] /\ left' = [left EXCEPT ![r] = Fields]
         ELSE rpc' = [rpc EXCEPT ![r] = "return"] /\ UNCHANGED left
    /\ UNCHANGED <<segment, private, app, idx, copy, rc, seen, got>>

\* hb_get_current does not test valid.
CallLocal(r) ==
    /\ r \in Locals /\ rpc[r] = "idle" /\ app = "up"
    /\ rpc' = [rpc EXCEPT ![r] = "index"]
    /\ left' = [left EXCEPT ![r] = Fields]
    /\ UNCHANGED <<segment, private, app, idx, copy, rc, seen, got>>

Running(r) == r \in Monitors \/ app = "up"

\* hb->state->read_index, the record to read.
Fault_ReadFillSlot == buffer_index
ReadSlot == read_index

LoadIndex(r) ==
    /\ Running(r) /\ rpc[r] = "index"
    /\ idx' = [idx EXCEPT ![r] = ReadSlot]
    /\ seen' = [seen EXCEPT ![r] = CurrentBeat]
    /\ rpc' = [rpc EXCEPT ![r] = "copy"]
    /\ UNCHANGED <<segment, private, app, left, copy, rc, got>>

\* Where the field is copied from.
Fault_LoadAgain(r) == read_index
CopySlot(r) == idx[r]

\* One field is copied.  A monitor keeps the index for the whole memcpy, a
\* local loads it again for the next field.
CopyField(r, f) ==
    /\ Running(r) /\ rpc[r] = "copy" /\ f \in left[r]
    /\ copy' = [copy EXCEPT ![r] = [@ EXCEPT ![f] = log[CopySlot(r)][f]]]
    /\ left' = [left EXCEPT ![r] = @ \ {f}]
    /\ rpc' = [rpc EXCEPT ![r] = IF left[r] = {f} THEN "return"
                                 ELSE IF r \in Monitors THEN "copy" ELSE "index"]
    /\ UNCHANGED <<segment, private, app, idx, rc, seen, got>>

\* The read went through a slot of the log that the writers have not reached
\* again: fewer than BufferDepth - 1 more beats were counted meanwhile.
Undisturbed(r) == /\ seen[r] # NoBeat
                  /\ idx[r] # BufferDepth
                  /\ counter < seen[r] + BufferDepth

\* return !hb->state->valid: valid is loaded a second time.
Fault_AwaitValid(r) ==
    /\ Running(r) /\ rpc[r] = "return" /\ valid = 1
    /\ rc' = IF r \in Monitors THEN [rc EXCEPT ![r] = 0] ELSE rc
    /\ got' = IF r \in Monitors /\ Undisturbed(r)
                THEN [got EXCEPT ![r] = copy[r]] ELSE got
    /\ rpc' = [rpc EXCEPT ![r] = "idle"]
    /\ idx' = [idx EXCEPT ![r] = 0]
    /\ seen' = [seen EXCEPT ![r] = NoBeat]
    /\ UNCHANGED <<segment, private, app, left, copy>>
Return(r) ==
    /\ Running(r) /\ rpc[r] = "return"
    /\ rc' = IF r \in Monitors
               THEN [rc EXCEPT ![r] = IF valid = 1 THEN 0 ELSE 1] ELSE rc
    /\ got' = IF r \in Monitors /\ Undisturbed(r)
                THEN [got EXCEPT ![r] = copy[r]] ELSE got
    /\ rpc' = [rpc EXCEPT ![r] = "idle"]
    /\ idx' = [idx EXCEPT ![r] = 0]
    /\ seen' = [seen EXCEPT ![r] = NoBeat]
    /\ UNCHANGED <<segment, private, app, left, copy>>
-----------------------------------------------------------------------------
Beat(t) == \/ \E f \in Fields : StoreField(t, f)
           \/ Count(t)  \/ PublishFirst(t) \/ Publish(t)
           \/ FlushRecord(t) \/ WrapBuffer(t) \/ WrapRead(t) \/ Unlock(t)
ReadOn(r) == LoadIndex(r) \/ (\E f \in Fields : CopyField(r, f)) \/ Return(r)
Read(r) == CheckValid(r) \/ CallLocal(r) \/ ReadOn(r)

Next == \/ \E t \in Threads : Lock(t) \/ Beat(t)
        \/ \E r \in Readers : Read(r)
        \/ Crash

Spec == Init /\ [][Next]_vars

\* A thread inside heartbeat() and a reader inside its call keep running: both
\* are code without a wait.  Nobody has to call them, and no lock is owed.
FairSpec == /\ Spec
            /\ \A t \in Threads : WF_vars(Beat(t))
            /\ \A r \in Readers : WF_vars(ReadOn(r))
-----------------------------------------------------------------------------
(* Safety *)

\* The type invariant.
TypeOK ==
    /\ counter \in Nat /\ valid \in {0, 1}
    /\ buffer_index \in 0..BufferDepth /\ read_index \in 0..BufferDepth
    /\ log \in [0..BufferDepth -> [Fields -> Int]]
    /\ text_file \in Seq([Fields -> Int])
    /\ line \in [Threads -> 0..BufferDepth]
    /\ first_timestamp \in {"none", "set"}
    /\ mutex \in Threads \cup {NoThread}
    /\ pc \in [Threads -> {"idle", "store", "count", "publish", "flush", "wrap", "unlock"}]
    /\ index \in [Threads -> Slots]
    /\ branch \in [Threads -> {"first", "later"}]
    /\ todo \in [Threads -> SUBSET Fields]
    /\ app \in {"up", "down"}
    /\ rpc \in [Readers -> {"idle", "index", "copy", "return"}]
    /\ idx \in [Readers -> 0..BufferDepth]
    /\ left \in [Readers -> SUBSET Fields]
    /\ copy \in [Readers -> [Fields -> Int]]
    /\ rc \in [Monitors -> {0, 1}]
    /\ seen \in [Readers -> Int]
    /\ got \in [Monitors -> [Fields -> Int]]

LapStart == counter - buffer_index

SlotBeat(i) == IF i < buffer_index THEN LapStart + i
               ELSE IF LapStart = 0 THEN NoBeat ELSE LapStart - BufferDepth + i

Storing(i) == \E t \in Threads : pc[t] \in {"store", "count"} /\ index[t] = i

\* Whatever the threads do, the log holds the last BufferDepth beats: those of
\* this lap up to buffer_index, those of the lap before from there on, each
\* record whole.  Only the slot being stored is exempt.
RingOrder == \A i \in Slots : ~Storing(i) => log[i] = Record(SlotBeat(i))

\* The records of the lap being flushed that are in the text log already.
InFlush == IF mutex \in Threads THEN line[mutex] ELSE 0

\* The text log is every beat of the completed laps, and of the lap being flushed
\* those up to where the loop is, once and in order, with nothing lost, repeated or
\* torn by the wrap of the buffer: a death in mid-flush leaves a prefix.
TextLog == HasTextFile => text_file = [i \in 1..(LapStart + InFlush) |-> Record(i - 1)]

\* When no thread is inside heartbeat(), read_index shows the newest record,
\* although it starts, moves and wraps apart from buffer_index.
QuiescentRead == Quiescent /\ valid = 1 =>
                    read_index \in Slots /\ log[read_index] = Record(counter - 1)

\* A monitor that read a slot the threads have not come back to holds exactly
\* the record that was current when it loaded the index, not a mixture, although
\* it takes no lock.
UntornRead == \A m \in Monitors :
                 rpc[m] = "return" /\ Undisturbed(m) => copy[m] = Record(seen[m])

\* The same for one field of a reader in the application, which loads the index
\* for each: the field (hb_get_global_rate returns just one) is that of the beat
\* current when its index was loaded.
FieldRead ==
    [][\A r \in Locals : \A f \in left[r] :
          f \notin left'[r] /\ Undisturbed(r) => copy'[r][f] = seen[r]]_vars

\* The segment implements the register of BeatRegister: the current record moves
\* one whole beat at a time, and no undisturbed reader goes back in time.
Register == INSTANCE BeatRegister WITH current <- Current
RegisterSpec == Register!Spec
-----------------------------------------------------------------------------
(* Liveness, under FairSpec *)

\* A beat that was begun completes, unless the application dies: the thread that
\* took the mutex gives it back, and the beat it counted becomes visible.
BeatCompletes ==
    /\ \A t \in Threads : mutex = t ~> (mutex # t \/ app = "down")
    /\ \A n \in 0..MaxBeats : counter > n ~> (CurrentBeat >= n \/ app = "down")

\* A monitor's call returns whatever the application does, its death included.
ReadCompletes == \A m \in Monitors : rpc[m] # "idle" ~> rpc[m] = "idle"
-----------------------------------------------------------------------------
(* What the documentation says and the code does not do *)

\* A monitor told that the record is valid (rc 0) was given one.
SuccessMeansCopied == \A m \in Monitors, f \in Fields :
                         rpc[m] = "idle" /\ rc[m] = 0 => copy[m][f] # NoBeat
=============================================================================
