---------------------------- MODULE LatencyProofs ----------------------------
(***************************************************************************)
(* The two processes of lat.c beat in turns, and a wait ends with the beat *)
(* waited for: for every number of iterations, every depth of the log from *)
(* 2 on, and whatever was in memory.                                       *)
(***************************************************************************)
EXTENDS Latency, FiniteSetTheorems, TLAPS

\* The exchanges a process has behind it, and the tag of the beat of exchange n.
Turns(p) == IF p = "app" THEN Start - i[p] ELSE IF i[p] = Start THEN 0 ELSE i[p] + 1
TagOf(p, n) == IF p = "app" THEN (IF n = 0 THEN -2 ELSE Start - n) ELSE n - 1

\* A process has beaten in the exchange it is in.
Beaten(p) == pc[p] \in IF p = "app" THEN {"wrap", "check", "copy", "return"} ELSE {"wrap"}
Counted(p) ==
    /\ count[p] = Turns(p) + (IF Beaten(p) THEN 1 ELSE 0)
    /\ pc[p] \in {"init", "find", "attach"} => Turns(p) = 0
    /\ pc[p] \in {"finish", "done"} <=> Turns(p) = Iters + 1

\* The segment of a process, once heartbeat_init has reset it, shows its last beat,
\* or the page behind the log: which is never so before the third beat.
Segment(p) ==
    /\ pc[p] # "init" => valid[p] = IF count[p] > 0 THEN 1 ELSE 0
    /\ count[p] > 0 /\ pc[p] # "wrap" => shown[p] = TagOf(p, count[p] - 1)
    /\ pc[p] = "wrap" => count[p] >= 3 /\ shown[p] = BehindLog

\* Nobody monitors a segment that is not yet reset.
Reset(p) == /\ p \in files => pc[p] # "init"
            /\ pc[p] \notin {"init", "find"} => pc[Other(p)] # "init"

\* What is copied comes from a beat, and an answer from the beat waited for.
Heard(p) ==
    /\ pc[p] = "copy" => count[Other(p)] > 0
    /\ pc[p] = "return" /\ count[Other(p)] > 0 /\ record[p] = TagOf(Other(p), Turns(p))
       => count[Other(p)] = Turns(p) + 1 /\ pc[Other(p)] # "wrap"

\* Who is about to beat knows that the other has beaten, and is not in the middle of it.
Ready == /\ pc["app"] \in {"beat", "finish", "done"} =>
              count["app"] = count["sys"] /\ pc["sys"] # "wrap"
         /\ pc["sys"] = "beat" => count["app"] = count["sys"] + 1 /\ pc["app"] # "wrap"

IInv == /\ TypeOK /\ InTurns /\ Ready
        /\ \A p \in Procs : Counted(p) /\ Segment(p) /\ Reset(p) /\ Heard(p)
-----------------------------------------------------------------------------
\* Tags are those of the exchanges, and two beats in turn, or a beat from the third
\* on and the page behind the log, are told apart.
LEMMA Tags ==
    ASSUME TypeOK, NEW p \in Procs
    PROVE  /\ Turns(p) \in 0..Start
           /\ Tag(p) = TagOf(p, Turns(p)) /\ Awaited(p) = TagOf(Other(p), Turns(p))
BY LatencyAssumption DEF TypeOK, Procs, Turns, TagOf, Start, Tag, Awaited, Other

LEMMA TagsDiffer ==
    ASSUME NEW p \in Procs, NEW n \in 0..Iters
    PROVE  /\ TagOf(p, n) \in Int
           /\ n >= 1 => TagOf(p, n) # TagOf(p, n - 1)
           /\ n >= 2 => TagOf(p, n) # BehindLog
BY LatencyAssumption DEF Procs, TagOf, Start, BehindLog

\* The end of a turn is the start of the next one, or the end.
LEMMA TurnsOver ==
    ASSUME TypeOK, NEW p \in Procs, Turns(p) # Start, TurnOver(p)
    PROVE  /\ i' \in [Procs -> 0..Start] /\ Turns(p)' = Turns(p) + 1
           /\ pc'[p] = IF Turns(p) + 1 = Start THEN "finish" ELSE First(p)
<1>1. i[p] \in 0..Start /\ Iters \in Nat /\ p \in DOMAIN i /\ p \in DOMAIN pc
  BY LatencyAssumption DEF TypeOK
<1>2. i'[p] = NextI(p) /\ pc'[p] = IF Ended(p) THEN "finish" ELSE First(p)
  BY <1>1 DEF TurnOver
<1>3. /\ NextI(p) \in 0..Start /\ Turns(p)' = Turns(p) + 1
      /\ Ended(p) <=> Turns(p) + 1 = Start
  BY <1>1, <1>2 DEF NextI, Ended, Turns, Start, Procs
<1> QED  BY <1>2, <1>3 DEF TurnOver, TypeOK

\* What a process that waits may find.
LEMMA Waiting ==
    ASSUME IInv, NEW p \in Procs, pc[p] \in {"check", "copy", "return"}
    PROVE  /\ Turns(p) \in 0..Iters
           /\ count[Other(p)] \in {Turns(p), Turns(p) + 1}
<1>1. Turns(p) \in 0..Iters /\ count["app"] \in Nat /\ count["sys"] \in Nat
  BY Tags, LatencyAssumption DEF IInv, Counted, TypeOK, Procs, Start
<1>2. count[p] = Turns(p) + (IF p = "app" THEN 1 ELSE 0)
  BY DEF IInv, Counted, Beaten, Procs
<1> QED  BY <1>1, <1>2 DEF IInv, InTurns, Procs, Other

\* A step of one process leaves the other its own variables, and what is known of them.
LEMMA StepOfOne ==
    ASSUME IInv, NEW p \in Procs, Run(p)
    PROVE  LET q == Other(p)
           IN  /\ pc'[q] = pc[q] /\ record'[q] = record[q] /\ (q \in files' <=> q \in files)
               /\ valid'[q] = valid[q] /\ shown'[q] = shown[q] /\ count'[q] = count[q]
               /\ Turns(q)' = Turns(q)
               /\ Counted(q)' /\ Segment(q)'
<1> DEFINE q == Other(p)
<1>1. q \in Procs /\ q # p
  BY DEF Procs, Other
<1>2. /\ pc'[q] = pc[q] /\ i'[q] = i[q] /\ record'[q] = record[q]
      /\ (q \in files' <=> q \in files)
      /\ valid'[q] = valid[q] /\ shown'[q] = shown[q] /\ count'[q] = count[q]
  BY <1>1 DEF IInv, TypeOK, Run, heartbeat_init, get_heartbeat_apps, heart_rate_monitor_init,
              heartbeat, Wrap, Check, Copy, Return, heartbeat_finish, AfterBeat, TurnOver
<1>3. Turns(q)' = Turns(q)
  BY <1>2 DEF Turns
<1>4. Counted(q)' /\ Segment(q)'
  BY <1>1, <1>2, <1>3 DEF IInv, Counted, Segment, Beaten
<1> HIDE DEF q
<1> QED  BY <1>2, <1>3, <1>4 DEF q
-----------------------------------------------------------------------------
\* A step that beats not and ends no turn.
LEMMA QuietSteps ==
    ASSUME IInv, NEW p \in Procs,
           \/ heartbeat_init(p) \/ get_heartbeat_apps(p) \/ heart_rate_monitor_init(p)
           \/ Check(p) \/ Copy(p) \/ heartbeat_finish(p)
    PROVE  IInv'
<1> DEFINE q == Other(p)
<1> USE DEF IInv
<1>1. q \in Procs /\ q # p /\ Other(q) = p /\ Procs = {p, q}
  BY DEF Procs, Other
<1>2. /\ pc'[q] = pc[q] /\ record'[q] = record[q] /\ (q \in files' <=> q \in files)
      /\ valid'[q] = valid[q] /\ shown'[q] = shown[q] /\ count'[q] = count[q]
      /\ Turns(q)' = Turns(q)
      /\ Counted(q)' /\ Segment(q)'
  BY StepOfOne DEF Run
<1>3. i' = i /\ count' = count /\ shown' = shown /\ Turns(p)' = Turns(p)
  BY DEF Turns, heartbeat_init, get_heartbeat_apps, heart_rate_monitor_init, Check, Copy,
         heartbeat_finish
<1>4. First(p) \in {"beat", "check"} /\ First("app") = "beat" /\ First("sys") = "check"
  BY DEF First
<1>5. TypeOK'
  BY <1>1, <1>3, <1>4 DEF TypeOK, heartbeat_init, get_heartbeat_apps,
     heart_rate_monitor_init, Check, Copy, heartbeat_finish
<1>6. InTurns'
  BY <1>3 DEF InTurns
<1>7. \/ pc[p] = "init" /\ pc'[p] = "find" /\ valid'[p] = 0
      \/ pc[p] = "find" /\ pc'[p] = "attach" /\ valid' = valid /\ files = Procs
      \/ pc[p] = "attach" /\ pc'[p] = First(p) /\ valid' = valid
      \/ pc[p] = "check" /\ valid[q] = 1 /\ pc'[p] = "copy" /\ valid' = valid
      \/ pc[p] = "check" /\ valid[q] # 1 /\ pc'[p] = "return" /\ valid' = valid
      \/ pc[p] = "copy" /\ pc'[p] = "return" /\ valid' = valid /\ record'[p] = shown[q]
      \/ pc[p] = "finish" /\ pc'[p] = "done" /\ valid' = valid
  <2>1. CASE get_heartbeat_apps(p)
    <3>1. files \in {{}, {"app"}, {"sys"}, Procs}
      BY DEF TypeOK, Procs
    <3>2. files = Procs
      <4>1. Cardinality({}) = 0 /\ Cardinality({"app"}) = 1 /\ Cardinality({"sys"}) = 1
        BY FS_EmptySet, FS_Singleton
      <4> QED  BY <2>1, <3>1, <4>1 DEF get_heartbeat_apps
    <3> QED  BY <2>1, <3>2 DEF get_heartbeat_apps, TypeOK
  <2>2. CASE heartbeat_init(p)
    BY <2>2 DEF heartbeat_init, TypeOK
  <2>3. CASE heart_rate_monitor_init(p)
    BY <2>3 DEF heart_rate_monitor_init, TypeOK
  <2>4. CASE Check(p)
    BY <2>4 DEF Check, TypeOK
  <2>5. CASE Copy(p)
    BY <2>5 DEF Copy, TypeOK
  <2>6. CASE heartbeat_finish(p)
    BY <2>6 DEF heartbeat_finish, TypeOK
  <2> QED  BY <2>1, <2>2, <2>3, <2>4, <2>5, <2>6
<1>8. Counted(p)'
  BY <1>3, <1>4, <1>7 DEF Counted, Beaten, Procs, First
<1>9. Segment(p)'
  <2>1. count[p] = 0 \/ pc[p] # "init"
    BY DEF Counted, Beaten
  <2> QED  BY <1>3, <1>4, <1>7, <2>1 DEF Segment
<1>10. Reset(p)' /\ Reset(q)'
  BY <1>1, <1>2, <1>4, <1>7 DEF Reset
<1>11. Heard(p)'
  <2>1. CASE pc'[p] = "copy"
    BY <1>1, <1>3, <1>4, <1>7, <2>1 DEF Heard, Segment, Reset
  <2>2. CASE pc'[p] = "return" /\ pc[p] = "check"
    BY <1>1, <1>3, <1>4, <1>7, <2>2 DEF Heard, Segment, Reset, TypeOK
  <2>3. CASE pc'[p] = "return" /\ pc[p] = "copy"
    <3>1. Turns(p) \in 0..Iters /\ count[q] \in {Turns(p), Turns(p) + 1}
      BY <2>3, Waiting
    <3>2. count[q] > 0 /\ record'[p] = shown[q]
      BY <1>4, <1>7, <2>3 DEF Heard
    <3>3. CASE pc[q] = "wrap"
      <4>1. shown[q] = BehindLog /\ Turns(p) >= 2
        BY <1>1, <3>1, <3>3, LatencyAssumption DEF Segment
      <4>2. record'[p] # TagOf(q, Turns(p))
        BY <1>1, <3>1, <3>2, <4>1, TagsDiffer
      <4> QED  BY <1>3, <2>3, <4>2 DEF Heard
    <3>4. CASE pc[q] # "wrap"
      <4>1. shown[q] = TagOf(q, count[q] - 1)
        BY <1>1, <3>2, <3>4 DEF Segment
      <4>2. count[q] # Turns(p) + 1 => record'[p] # TagOf(q, Turns(p))
        BY <1>1, <3>1, <3>2, <4>1, TagsDiffer, LatencyAssumption
      <4> QED  BY <1>2, <1>3, <2>3, <3>4, <4>2 DEF Heard
    <3> QED  BY <3>3, <3>4
  <2> QED  BY <1>4, <1>7, <2>1, <2>2, <2>3 DEF Heard
<1>12. Heard(q)'
  BY <1>1, <1>2, <1>3, <1>4, <1>7 DEF Heard
<1>13. Ready'
  <2>1. CASE p = "app"
    <3>1. pc[p] = "attach" => count["app"] = 0 /\ count["sys"] = 0 /\ pc["sys"] # "wrap"
      BY <1>1, <2>1 DEF Counted, Beaten, InTurns, TypeOK, Segment, Procs
    <3> QED  BY <1>1, <1>2, <1>3, <1>4, <1>7, <2>1, <3>1 DEF Ready, Other
  <2>2. CASE p = "sys"
    BY <1>1, <1>2, <1>3, <1>4, <1>7, <2>2 DEF Ready, Other, First
  <2> QED  BY <2>1, <2>2 DEF Procs
<1> HIDE DEF q
<1> QED  BY <1>1, <1>2, <1>5, <1>6, <1>8, <1>9, <1>10, <1>11, <1>12, <1>13
-----------------------------------------------------------------------------
\* read_index wraps for the first time in the third beat, or later.
LEMMA FirstWrap ==
    ASSUME NEW n \in Nat, n > 1, n % BufferDepth = 1
    PROVE  n >= 3
<1>1. BufferDepth = 2 => 2 % BufferDepth = 0
  OBVIOUS
<1>2. BufferDepth > 2 => 2 % BufferDepth = 2
  BY LatencyAssumption
<1> QED  BY <1>1, <1>2, LatencyAssumption

\* The last of a beat: app goes on with the wait, sys with the next exchange.
LEMMA BeatShown ==
    ASSUME TypeOK, NEW p \in Procs, Turns(p) # Start, AfterBeat(p)
    PROVE  /\ i' \in [Procs -> 0..Start]
           /\ IF p = "app" THEN Turns(p)' = Turns(p) /\ pc'[p] = "check"
              ELSE /\ Turns(p)' = Turns(p) + 1
                   /\ pc'[p] = IF Turns(p) + 1 = Start THEN "finish" ELSE "check"
<1>1. CASE p = "app"
  BY <1>1 DEF AfterBeat, TypeOK, Turns
<1>2. CASE p # "app"
  BY <1>2, TurnsOver DEF AfterBeat, First
<1> QED  BY <1>1, <1>2

LEMMA BeatSteps ==
    ASSUME IInv, NEW p \in Procs, heartbeat(p) \/ Wrap(p)
    PROVE  IInv'
<1> DEFINE q == Other(p)
<1> USE DEF IInv
<1>1. q \in Procs /\ q # p /\ Other(q) = p /\ Procs = {p, q}
  BY DEF Procs, Other
<1>2. /\ pc'[q] = pc[q] /\ record'[q] = record[q] /\ (q \in files' <=> q \in files)
      /\ valid'[q] = valid[q] /\ shown'[q] = shown[q] /\ count'[q] = count[q]
      /\ Turns(q)' = Turns(q)
      /\ Counted(q)' /\ Segment(q)'
  BY StepOfOne DEF Run
<1>3. /\ Iters \in Nat /\ Start = Iters + 1 /\ Turns(p) \in 0..Iters
      /\ count[p] \in Nat /\ count[q] \in Nat /\ Turns(q) \in 0..Start
  BY <1>1, Tags, LatencyAssumption DEF Start, Counted, TypeOK, heartbeat, Wrap
<1>4. /\ count'[p] = Turns(p) + 1 /\ valid'[p] = 1 /\ pc[p] \in {"beat", "wrap"}
      /\ pc[p] = "beat" => count[p] = Turns(p)
      /\ pc[p] = "wrap" => count[p] = Turns(p) + 1
  <2>1. CASE heartbeat(p)
    BY <1>3, <2>1 DEF heartbeat, Counted, Beaten, TypeOK, Procs
  <2>2. CASE Wrap(p)
    BY <1>3, <2>2 DEF Wrap, Counted, Beaten, Segment
  <2> QED  BY <2>1, <2>2
<1>5. \/ /\ pc[p] = "beat" /\ pc'[p] = "wrap" /\ count'[p] >= 3 /\ Turns(p)' = Turns(p)
         /\ shown'[p] = BehindLog /\ i' \in [Procs -> 0..Start]
      \/ /\ shown'[p] = TagOf(p, Turns(p)) /\ i' \in [Procs -> 0..Start]
         /\ IF p = "app" THEN Turns(p)' = Turns(p) /\ pc'[p] = "check"
            ELSE /\ Turns(p)' = Turns(p) + 1
                 /\ pc'[p] = IF Turns(p) + 1 = Start THEN "finish" ELSE "check"
  <2>1. CASE pc'[p] = "wrap" /\ heartbeat(p) /\ i' = i /\ count'[p] > 1
             /\ count'[p] % BufferDepth = 1 /\ shown' = [shown EXCEPT ![p] = BehindLog]
    <3>1. count'[p] >= 3
      BY <1>3, <1>4, <2>1, FirstWrap
    <3> QED  BY <2>1, <3>1 DEF heartbeat, Turns, TypeOK
  <2>2. CASE AfterBeat(p) /\ shown' = [shown EXCEPT ![p] = Tag(p)]
    <3>1. shown'[p] = TagOf(p, Turns(p)) /\ Turns(p) # Start
      BY <1>3, <2>2, Tags DEF TypeOK
    <3> QED  BY <2>2, <3>1, BeatShown
  <2>3. CASE heartbeat(p)
    BY <2>1, <2>2, <2>3 DEF heartbeat, TypeOK
  <2>4. CASE Wrap(p)
    BY <2>2, <2>4 DEF Wrap
  <2> QED  BY <2>3, <2>4
<1>6. TypeOK'
  <2>1. /\ record' = record /\ files' = files /\ valid' \in [Procs -> {0, 1}]
        /\ count' \in [Procs -> 0..(Iters + 1)]
    BY <1>3, <1>4 DEF TypeOK, heartbeat, Wrap
  <2>2. shown' \in [Procs -> Int]
    BY <1>3, Tags, TagsDiffer DEF TypeOK, heartbeat, Wrap, BehindLog
  <2>3. pc' = [pc EXCEPT ![p] = pc'[p]]
    BY DEF TypeOK, heartbeat, Wrap, AfterBeat, TurnOver
  <2> QED  BY <1>5, <2>1, <2>2, <2>3 DEF TypeOK
<1>7. InTurns'
  BY <1>1, <1>2, <1>3, <1>4 DEF InTurns, Ready, Procs, Other
<1>8. Counted(p)'
  BY <1>3, <1>4, <1>5 DEF Counted, Beaten, Procs
<1>9. Segment(p)'
  BY <1>3, <1>4, <1>5 DEF Segment
<1>10. Reset(p)' /\ Reset(q)'
  <2>1. files' = files
    BY DEF heartbeat, Wrap
  <2> QED  BY <1>1, <1>2, <1>4, <1>5, <2>1 DEF Reset
<1>11. Heard(p)'
  BY <1>5 DEF Heard
<1>12. Heard(q)'
  <2>1. CASE pc[q] \notin {"check", "copy", "return"}
    BY <1>1, <1>2, <2>1 DEF Heard
  <2>2. CASE pc[q] \in {"check", "copy", "return"} /\ count[p] > 0
    BY <1>1, <1>2, <1>3, <1>4, <1>5, <2>2 DEF Heard, Ready, Counted, Beaten, Procs, Other
  <2>3. CASE pc[q] \in {"check", "copy", "return"} /\ count[p] = 0
    <3>1. Turns(q) = 0
      BY <1>1, <1>3, <2>3, Waiting
    <3> QED  BY <1>1, <1>2, <1>3, <1>4, <1>5, <2>3, <3>1 DEF Heard
  <2> QED  BY <1>3, <2>1, <2>2, <2>3
<1>13. Ready'
  BY <1>1, <1>2, <1>3, <1>4, <1>5 DEF Ready, Procs, Other, InTurns, Counted, Beaten
<1> HIDE DEF q
<1> QED  BY <1>1, <1>2, <1>6, <1>7, <1>8, <1>9, <1>10, <1>11, <1>12, <1>13
-----------------------------------------------------------------------------
\* What ends a wait is a beat, the one waited for, and it is over.
LEMMA Answer ==
    ASSUME IInv, NEW p \in Procs, pc[p] = "return", Answered(p)
    PROVE  LET q == Other(p)
           IN  count[q] = Turns(p) + 1 /\ count[q] > 0 /\ pc[q] # "wrap"
               /\ shown[q] = Awaited(p)
<1> DEFINE q == Other(p)
<1> USE DEF IInv
<1>1. q \in Procs /\ Other(q) = p /\ count[q] \in Nat
  BY LatencyAssumption DEF Procs, Other, TypeOK
<1>2. record[p] = TagOf(q, Turns(p)) /\ Awaited(p) = TagOf(q, Turns(p)) /\ valid[q] = 1
  BY Tags DEF Answered
<1>3. count[q] > 0
  BY <1>1, <1>2 DEF Reset, Segment
<1>4. count[q] = Turns(p) + 1 /\ pc[q] # "wrap"
  BY <1>2, <1>3 DEF Heard
<1>5. Turns(p) \in Nat
  BY Tags, LatencyAssumption DEF Start
<1>6. shown[q] = Awaited(p)
  BY <1>1, <1>2, <1>3, <1>4, <1>5 DEF Segment
<1> QED  BY <1>3, <1>4, <1>6

LEMMA ReturnStep ==
    ASSUME IInv, NEW p \in Procs, Return(p)
    PROVE  IInv'
<1> DEFINE q == Other(p)
<1> USE DEF IInv
<1>1. q \in Procs /\ q # p /\ Other(q) = p /\ Procs = {p, q}
  BY DEF Procs, Other
<1>2. /\ pc'[q] = pc[q] /\ record' = record /\ files' = files
      /\ valid' = valid /\ shown' = shown /\ count' = count
      /\ Turns(q)' = Turns(q)
      /\ Counted(q)' /\ Segment(q)'
  BY StepOfOne DEF Run, Return
<1>3. /\ Iters \in Nat /\ Start = Iters + 1 /\ Turns(p) \in 0..Iters
      /\ count[p] \in Nat /\ count[q] \in Nat /\ Turns(q) \in 0..Start
  BY <1>1, Tags, Waiting, LatencyAssumption DEF Start, TypeOK, Return
<1>4. /\ pc[p] = "return" /\ i' \in [Procs -> 0..Start]
      /\ \/ pc'[p] = "check" /\ Turns(p)' = Turns(p)
         \/ /\ count[q] = Turns(p) + 1 /\ pc[q] # "wrap"
            /\ IF p = "app" THEN /\ Turns(p)' = Turns(p) + 1
                                 /\ pc'[p] = IF Turns(p) + 1 = Start THEN "finish" ELSE "beat"
               ELSE pc'[p] = "beat" /\ Turns(p)' = Turns(p)
  <2>1. CASE ~Answered(p)
    BY <2>1 DEF Return, TypeOK, Turns
  <2>2. CASE Answered(p) /\ p = "app"
    <3>1. count[q] = Turns(p) + 1 /\ pc[q] # "wrap"
      BY <2>2, Answer DEF Return
    <3>2. TurnOver(p) /\ Turns(p) # Start
      BY <1>3, <2>2 DEF Return
    <3> QED  BY <2>2, <3>1, <3>2, TurnsOver DEF Return, First
  <2>3. CASE Answered(p) /\ p # "app"
    <3>1. count[q] = Turns(p) + 1 /\ pc[q] # "wrap"
      BY <2>3, Answer DEF Return
    <3> QED  BY <2>3, <3>1 DEF Return, TypeOK, Turns
  <2> QED  BY <2>1, <2>2, <2>3
<1>5. TypeOK'
  <2>1. pc' = [pc EXCEPT ![p] = pc'[p]]
    BY DEF TypeOK, Return, TurnOver
  <2> QED  BY <1>2, <1>4, <2>1 DEF TypeOK
<1>6. InTurns'
  BY <1>2 DEF InTurns
<1>7. Counted(p)'
  BY <1>2, <1>3, <1>4 DEF Counted, Beaten, Procs
<1>8. Segment(p)' /\ Reset(p)' /\ Reset(q)'
  BY <1>1, <1>2, <1>4 DEF Segment, Reset
<1>9. Heard(p)' /\ Heard(q)'
  BY <1>1, <1>2, <1>4 DEF Heard
<1>10. Ready'
  BY <1>1, <1>2, <1>3, <1>4 DEF Ready, Procs, Other, InTurns, Counted, Beaten
<1> HIDE DEF q
<1> QED  BY <1>1, <1>2, <1>5, <1>6, <1>7, <1>8, <1>9, <1>10
-----------------------------------------------------------------------------
LEMMA InitIInv == Init => IInv
<1> SUFFICES ASSUME Init PROVE IInv
  OBVIOUS
<1>1. Iters \in Nat /\ Start = Iters + 1 /\ Garbage \subseteq Int
  BY LatencyAssumption DEF Start
<1>2. TypeOK
  <2>1. shown \in [Procs -> Int] /\ record \in [Procs -> Int]
    <3>1. {NoTag, -1, -2, Iters} \subseteq Int
      BY <1>1 DEF NoTag
    <3>2. \A S, T : S \subseteq T => [Procs -> S] \subseteq [Procs -> T]
      OBVIOUS
    <3> QED  BY <1>1, <3>1, <3>2 DEF Init
  <2>2. Start \in 0..Start /\ 0 \in 0..(Iters + 1)
    BY <1>1
  <2> QED  BY <2>1, <2>2 DEF Init, TypeOK
<1>3. \A p \in Procs : pc[p] = "init" /\ count[p] = 0 /\ Turns(p) = 0 /\ Other(p) \in Procs
  BY <1>1 DEF Init, Turns, Other, Procs
<1>4. InTurns /\ Ready
  BY <1>3 DEF InTurns, Ready, Procs
<1>5. \A p \in Procs : Counted(p) /\ Segment(p) /\ Reset(p) /\ Heard(p)
  BY <1>1, <1>3 DEF Counted, Beaten, Segment, Reset, Heard, Init, Procs
<1> QED  BY <1>2, <1>4, <1>5 DEF IInv

LEMMA NextIInv == IInv /\ [Next]_vars => IInv'
<1> SUFFICES ASSUME IInv, [Next]_vars PROVE IInv'
  OBVIOUS
<1>1. ASSUME NEW p \in Procs, Run(p)
      PROVE  IInv'
  BY <1>1, QuietSteps, BeatSteps, ReturnStep DEF Run
<1>2. CASE UNCHANGED vars
  BY <1>2 DEF IInv, vars, TypeOK, InTurns, Ready, Counted, Segment, Reset, Heard, Turns, Beaten
<1> QED  BY <1>1, <1>2 DEF Next, Done

THEOREM Invariance == Spec => []IInv
BY InitIInv, NextIInv, PTL DEF Spec

\* The two processes beat in turns, app first, whatever was in memory; and neither
\* beats more than Iters + 1 times.
THEOREM LatencyBeatsInTurns == Spec => []BeatsInTurns
<1>1. IInv => BeatsInTurns
  BY DEF IInv, BeatsInTurns
<1> QED  BY <1>1, Invariance, PTL

\* What ends a wait is the beat waited for, for every depth of the log: the page
\* behind it shows a 0, which is awaited once, before read_index first wraps.
THEOREM LatencyRealAnswer == Spec => []RealAnswer
<1>1. IInv => RealAnswer
  BY Answer DEF RealAnswer
<1> QED  BY <1>1, Invariance, PTL
=============================================================================
