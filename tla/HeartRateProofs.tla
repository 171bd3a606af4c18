--------------------------- MODULE HeartRateProofs ---------------------------
(***************************************************************************)
(* The windowed rate of heartbeat(), for any number of threads, window and *)
(* length of the run.                                                      *)
(*                                                                         *)
(* A thread's interval starts at a timestamp some record had when the      *)
(* thread looked, and the latest of the records' timestamps never falls.   *)
(* So the interval in a slot covers what the latest timestamp rose by with *)
(* the slot's record, and something more: its Slack.  The sum that is kept *)
(* up to date, never summed again, is at every step the sum of the slots,  *)
(* which is what the latest timestamp rose by over the window and the sum  *)
(* of the slack.  No slack is negative; without overlap there is none.     *)
(***************************************************************************)
EXTENDS HeartRate, SpeedTableProofs
-----------------------------------------------------------------------------
(* The latest of the first timestamps *)

Top(s, n) == Max({s[k] : k \in 1..n})

\* It is one of them, and none is later.
LEMMA TopFacts ==
    ASSUME NEW m \in Nat, NEW s \in Seq(0..m), NEW n \in 1..Len(s)
    PROVE  /\ Top(s, n) \in 0..m
           /\ \A k \in 1..n : s[k] <= Top(s, n)
           /\ \E k \in 1..n : Top(s, n) = s[k]
<1> DEFINE S == {s[k] : k \in 1..n}
           D == {m - x : x \in S}
<1>1. 1 \in 1..n /\ \A k \in 1..n : s[k] \in 0..m
  <2>1. n \in Nat /\ n <= Len(s) /\ Len(s) \in Nat /\ 1 <= n
    OBVIOUS
  <2> QED  BY <2>1
<1>2. S # {} /\ S \subseteq 0..m
  BY <1>1
<1> HIDE DEF S
<1>3. D \in SUBSET Nat /\ D # {}
  <2>1. \A x \in S : m - x \in Nat
    BY <1>2
  <2> QED  BY <1>2, <2>1
<1>4. PICK d \in D : \A e \in D : d <= e
  BY <1>3, Least
<1>5. PICK x \in S : d = m - x
  OBVIOUS
<1>6. \A y \in S : x >= y
  <2> SUFFICES ASSUME NEW y \in S PROVE x >= y
    OBVIOUS
  <2>1. m - x <= m - y
    BY <1>4, <1>5
  <2> QED  BY <1>2, <2>1
<1>7. Max(S) \in S /\ \A y \in S : Max(S) >= y
  BY <1>5, <1>6 DEF Max
<1>8. Top(s, n) = Max(S)
  BY DEF Top, S
<1>9. /\ Top(s, n) \in 0..m /\ \A k \in 1..n : Top(s, n) >= s[k]
      /\ \E k \in 1..n : Top(s, n) = s[k]
  BY <1>2, <1>7, <1>8 DEF S
<1>10. \A k \in 1..n : s[k] <= Top(s, n)
  BY <1>1, <1>9
<1> QED  BY <1>9, <1>10

\* The latest of more timestamps is no earlier.
LEMMA TopMonotone ==
    ASSUME NEW m \in Nat, NEW s \in Seq(0..m), NEW n \in 1..Len(s), NEW k \in 1..n
    PROVE  /\ k \in 1..Len(s) /\ Top(s, k) \in 0..m /\ Top(s, n) \in 0..m
           /\ Top(s, k) <= Top(s, n)
<1>1. k \in 1..Len(s)
  OBVIOUS
<1>2. Top(s, k) \in 0..m /\ Top(s, n) \in 0..m
  BY <1>1, TopFacts
<1>3. PICK l \in 1..k : Top(s, k) = s[l]
  BY <1>1, TopFacts
<1>4. l \in 1..n
  OBVIOUS
<1> QED  BY <1>1, <1>2, <1>3, <1>4, TopFacts

\* One more timestamp.
LEMMA TopOfAppend ==
    ASSUME NEW m \in Nat, NEW s \in Seq(0..m), NEW x \in 0..m
    PROVE  /\ \A n \in 1..Len(s) : Top(Append(s, x), n) = Top(s, n)
           /\ Len(s) > 0 => LET z == Top(Append(s, x), Len(s) + 1)
                            IN  z \in 0..m /\ z >= Top(s, Len(s)) /\ z \in {x, Top(s, Len(s))}
<1> DEFINE r == Append(s, x)
           n == Len(s)
<1>1. /\ r \in Seq(0..m) /\ Len(r) = n + 1 /\ n \in Nat
      /\ r[n + 1] = x /\ \A k \in 1..n : r[k] = s[k]
  OBVIOUS
<1> HIDE DEF r, n
<1>2. \A k \in 1..n : Top(r, k) = Top(s, k)
  <2> SUFFICES ASSUME NEW k \in 1..n PROVE Top(r, k) = Top(s, k)
    OBVIOUS
  <2>1. \A l \in 1..k : r[l] = s[l]
    BY <1>1
  <2>2. {r[l] : l \in 1..k} = {s[l] : l \in 1..k}
    BY <2>1
  <2> QED  BY <2>2 DEF Top
<1>3. ASSUME n > 0
      PROVE  LET z == Top(r, n + 1)
             IN  z \in 0..m /\ z >= Top(s, n) /\ z \in {x, Top(s, n)}
  <2>1. n \in 1..n /\ n \in 1..(n + 1) /\ n + 1 \in 1..Len(r) /\ n \in 1..Len(s)
    BY <1>1, <1>3 DEF n
  <2>2. /\ Top(r, n) = Top(s, n) /\ Top(r, n) <= Top(r, n + 1)
        /\ Top(r, n) \in 0..m /\ Top(r, n + 1) \in 0..m
    BY <1>1, <1>2, <2>1, TopMonotone
  <2>3. PICK k \in 1..(n + 1) : Top(r, n + 1) = r[k]
    BY <1>1, <2>1, TopFacts
  <2>4. CASE k = n + 1
    BY <1>1, <2>2, <2>3, <2>4
  <2>5. CASE k # n + 1
    <3>1. k \in 1..n
      BY <1>1, <2>5
    <3>2. r[k] = s[k] /\ s[k] <= Top(s, n)
      BY <1>1, <2>1, <3>1, TopFacts
    <3>3. Top(r, n + 1) = Top(s, n)
      BY <2>2, <2>3, <3>2
    <3> QED  BY <2>2, <3>3
  <2> QED  BY <2>4, <2>5
<1> QED  BY <1>2, <1>3 DEF r, n
-----------------------------------------------------------------------------
\* A number is put in, for the one that was there or for none.
LEMMA SumOfUpdate ==
    ASSUME NEW g, NEW h, NEW S, IsFiniteSet(S), NEW x,
           \A y \in S : g[y] \in Int, h[x] \in Int, \A y \in S \ {x} : h[y] = g[y]
    PROVE  /\ SumFunctionOnSet(g, S) \in Int /\ SumFunctionOnSet(h, S \cup {x}) \in Int
           /\ SumFunctionOnSet(h, S \cup {x}) =
                SumFunctionOnSet(g, S) + h[x] - (IF x \in S THEN g[x] ELSE 0)
<1> DEFINE R == S \ {x}
           T == S \cup {x}
<1>1. IsFiniteSet(R) /\ IsFiniteSet(T)
  BY FS_Subset, FS_AddElement
<1>2. T \ {x} = R /\ x \in T /\ \A y \in T : h[y] \in Int
  OBVIOUS
<1>3. SumFunctionOnSet(h, T) = h[x] + SumFunctionOnSet(h, R)
  BY <1>1, <1>2, SumRemove
<1>4. SumFunctionOnSet(h, R) = SumFunctionOnSet(g, R)
  BY <1>1, SumOfEqual
<1>5. SumFunctionOnSet(g, R) \in Int /\ SumFunctionOnSet(g, S) \in Int
  BY <1>1, SumType
<1>6. SumFunctionOnSet(h, T) \in Int
  BY <1>1, <1>2, SumType
<1>7. CASE x \in S
  <2>1. SumFunctionOnSet(g, S) = g[x] + SumFunctionOnSet(g, R)
    BY <1>7, SumRemove
  <2>2. g[x] \in Int
    BY <1>7
  <2> HIDE DEF R, T
  <2>3. SumFunctionOnSet(h, T) = SumFunctionOnSet(g, S) + h[x] - g[x]
    BY <1>3, <1>4, <1>5, <2>1, <2>2
  <2> QED  BY <1>5, <1>6, <1>7, <2>3 DEF T
<1>8. CASE x \notin S
  <2>1. R = S
    BY <1>8
  <2> HIDE DEF R, T
  <2>2. SumFunctionOnSet(h, T) = SumFunctionOnSet(g, S) + h[x] - 0
    BY <1>3, <1>4, <1>5, <2>1
  <2> QED  BY <1>5, <1>6, <1>8, <2>2 DEF T
<1> QED  BY <1>7, <1>8
-----------------------------------------------------------------------------
(* The invariant *)

N      == Len(stamps)
Of     == last_average_time.of
Filled == 0..(Of - 1)

\* The beat whose interval is in slot j.
Beat == [j \in 0..(WindowSize - 1) |->
            IF j < current_index THEN N - current_index + 1 + j
                                 ELSE N - current_index + 1 + j - WindowSize]

\* What the interval in slot j is more than the beats have taken.
Slack == [j \in Filled |->
             window[j] - (Top(stamps, Beat[j]) - Top(stamps, Beat[j] - 1))]

\* How full the window is.
Counting ==
    /\ N = 0 => first_timestamp = -1 /\ last_timestamp = -1
    /\ N > 0 => first_timestamp # -1 /\ last_timestamp = stamps[N]
    /\ ~steady_state => /\ Of = current_index
                        /\ N = 0 => current_index = 0
                        /\ N > 0 => N = current_index + 1
    /\ steady_state => Of = WindowSize /\ N > WindowSize

\* What a thread has in its locals was so once.
Calls ==
    /\ \A k \in 1..N : stamps[k] <= now
    /\ \A t \in Threads : call[t].pc # "out" =>
          /\ call[t].old <= now
          /\ call[t].old = -1 \/ \E k \in 1..N : call[t].old = stamps[k]
    /\ \A t \in Threads : call[t].pc = "lock" =>
          call[t].old <= call[t].time /\ call[t].time <= now

Bounded == Issued <= LastBeat + 1

\* The average and the time of the beats differ by the slack of the intervals.
Averages ==
    /\ last_average_time.time = SumFunctionOnSet(window, Filled)
    /\ N > 0 => last_average_time.time =
                   Top(stamps, N) - Top(stamps, N - Of) + SumFunctionOnSet(Slack, Filled)
    /\ \A j \in Filled : window[j] >= 0 /\ Slack[j] >= 0

\* One call after the other.
Serially ==
    serial => /\ \A t, u \in Threads : call[t].pc # "out" /\ call[u].pc # "out" => t = u
              /\ \A t \in Threads : call[t].pc # "out" => call[t].old = last_timestamp
              /\ \A k, l \in 1..N : k <= l => stamps[k] <= stamps[l]
              /\ \A j \in Filled : window[j] = stamps[Beat[j]] - stamps[Beat[j] - 1]

IInv == TypeOK /\ Counting /\ Calls /\ Bounded /\ Averages /\ Serially

\* Where the beats of the window are.
LEMMA Places ==
    ASSUME TypeOK, Counting
    PROVE  /\ WindowSize \in Nat \ {0} /\ N \in Nat /\ Of \in Nat /\ Of <= WindowSize
           /\ current_index \in 0..(WindowSize - 1)
           /\ IsFiniteSet(Filled) /\ Filled \subseteq 0..(WindowSize - 1)
           /\ stamps \in Seq(0..LastTime) /\ LastTime \in Nat
           /\ N > 0 => N - Of \in 1..N
           /\ \A j \in Filled : Beat[j] \in 2..N /\ Beat[j] - 1 \in 1..N
           /\ current_index \in Filled <=> steady_state
<1>1. /\ WindowSize \in Nat \ {0} /\ LastTime \in Nat /\ stamps \in Seq(0..LastTime)
      /\ current_index \in 0..(WindowSize - 1) /\ Of \in 0..WindowSize /\ N \in Nat
      /\ steady_state \in BOOLEAN
  BY HeartRateAssumption DEF TypeOK, Of, N
<1>2. IsFiniteSet(Filled)
  <2>1. 0 \in Int /\ Of - 1 \in Int
    BY <1>1
  <2> QED  BY <2>1, FS_Interval DEF Filled
<1>3. Filled \subseteq 0..(WindowSize - 1)
  BY <1>1 DEF Filled
<1>4. CASE steady_state
  <2>1. Of = WindowSize /\ N > WindowSize
    BY <1>4 DEF Counting
  <2>2. current_index \in Filled
    BY <1>1, <2>1 DEF Filled
  <2>3. \A j \in Filled : Beat[j] \in 2..N /\ Beat[j] - 1 \in 1..N
    <3> SUFFICES ASSUME NEW j \in 0..(WindowSize - 1)
                 PROVE  Beat[j] \in 2..N /\ Beat[j] - 1 \in 1..N
      BY <1>3
    <3>1. CASE j < current_index
      BY <1>1, <2>1, <3>1 DEF Beat
    <3>2. CASE ~(j < current_index)
      BY <1>1, <2>1, <3>2 DEF Beat
    <3> QED  BY <3>1, <3>2
  <2> QED  BY <1>1, <1>2, <1>3, <1>4, <2>1, <2>2, <2>3
<1>5. CASE ~steady_state
  <2>1. /\ Of = current_index
        /\ N = 0 => current_index = 0
        /\ N > 0 => N = current_index + 1
    BY <1>5 DEF Counting
  <2>2. current_index \notin Filled
    BY <1>1, <2>1 DEF Filled
  <2>3. \A j \in Filled : Beat[j] \in 2..N /\ Beat[j] - 1 \in 1..N
    <3> SUFFICES ASSUME NEW j \in Filled PROVE Beat[j] \in 2..N /\ Beat[j] - 1 \in 1..N
      OBVIOUS
    <3>1. j \in Nat /\ j < current_index /\ N = current_index + 1
      BY <1>1, <2>1 DEF Filled
    <3>2. Beat[j] = N - current_index + 1 + j
      BY <1>3, <3>1 DEF Beat
    <3> QED  BY <1>1, <3>1, <3>2
  <2> QED  BY <1>1, <1>2, <1>3, <1>5, <2>1, <2>2, <2>3
<1> QED  BY <1>4, <1>5

\* The sums of the window and of the slack are numbers.
LEMMA SumsAreNumbers ==
    ASSUME TypeOK, Counting
    PROVE  /\ \A j \in Filled : window[j] \in Int /\ Slack[j] \in Int
           /\ SumFunctionOnSet(window, Filled) \in Int
           /\ SumFunctionOnSet(Slack, Filled) \in Int
<1>1. /\ IsFiniteSet(Filled) /\ Filled \subseteq 0..(WindowSize - 1)
      /\ stamps \in Seq(0..LastTime) /\ LastTime \in Nat
      /\ \A j \in Filled : Beat[j] \in 2..N /\ Beat[j] - 1 \in 1..N
  BY Places
<1>2. \A j \in Filled : window[j] \in Int
  <2>1. window \in [0..(WindowSize - 1) -> -1..(LastTime + 1)]
    BY DEF TypeOK
  <2> QED  BY <1>1, <2>1
<1>3. \A j \in Filled : Slack[j] \in Int
  <2> SUFFICES ASSUME NEW j \in Filled PROVE Slack[j] \in Int
    OBVIOUS
  <2>1. Beat[j] \in 1..Len(stamps) /\ Beat[j] - 1 \in 1..Len(stamps)
    BY <1>1, Places DEF N
  <2>2. Top(stamps, Beat[j]) \in 0..LastTime /\ Top(stamps, Beat[j] - 1) \in 0..LastTime
    BY <1>1, <2>1, TopFacts
  <2>3. Top(stamps, Beat[j]) \in Int /\ Top(stamps, Beat[j] - 1) \in Int
    BY <1>1, <2>2
  <2>4. Slack[j] = window[j] - (Top(stamps, Beat[j]) - Top(stamps, Beat[j] - 1))
    BY DEF Slack
  <2> QED  BY <1>2, <2>3, <2>4
<1> QED  BY <1>1, <1>2, <1>3, SumType
-----------------------------------------------------------------------------
\* What the invariant says of the rate.
LEMMA RateOfInvariant == ASSUME IInv PROVE RateTrue
<1>1. /\ IsFiniteSet(Filled) /\ stamps \in Seq(0..LastTime) /\ LastTime \in Nat /\ N \in Nat
      /\ N > 0 => N - Of \in 1..N
      /\ \A j \in Filled : Beat[j] \in 2..N /\ Beat[j] - 1 \in 1..N
  BY Places DEF IInv
<1>2. /\ \A j \in Filled : window[j] \in Int /\ Slack[j] \in Int
      /\ SumFunctionOnSet(Slack, Filled) \in Int
  BY SumsAreNumbers DEF IInv
<1>3. SUFFICES ASSUME stamps # << >>
               PROVE  /\ serial => last_average_time.time = stamps[Newest] - stamps[Oldest]
                      /\ last_average_time.time >= Latest(Newest) - Latest(Oldest)
  BY DEF IInv, RateTrue, WindowElapsed, NeverFaster
<1>4. N > 0 /\ Newest = N /\ Oldest = N - Of
  BY <1>1, <1>3 DEF N, Newest, Oldest, Of
<1>5. N \in 1..Len(stamps) /\ N - Of \in 1..Len(stamps) /\ N - Of \in 1..N
  BY <1>1, <1>4 DEF N
<1>6. Top(stamps, N) \in Int /\ Top(stamps, N - Of) \in Int
  <2>1. Top(stamps, N) \in 0..LastTime /\ Top(stamps, N - Of) \in 0..LastTime
    BY <1>1, <1>5, TopFacts
  <2> QED  BY <1>1, <2>1
<1>7. last_average_time.time =
         Top(stamps, N) - Top(stamps, N - Of) + SumFunctionOnSet(Slack, Filled)
  BY <1>4 DEF IInv, Averages
<1>8. SumFunctionOnSet(Slack, Filled) >= 0
  <2>1. \A j \in Filled : Slack[j] \in Nat
    BY <1>2 DEF IInv, Averages
  <2>2. SumFunctionOnSet(Slack, Filled) \in Nat
    BY <1>1, <2>1, SumNat
  <2> QED  BY <2>2
<1>9. last_average_time.time >= Latest(Newest) - Latest(Oldest)
  BY <1>2, <1>4, <1>6, <1>7, <1>8 DEF Latest, Top
<1>10. ASSUME serial PROVE last_average_time.time = stamps[Newest] - stamps[Oldest]
  <2>1. /\ \A k, l \in 1..N : k <= l => stamps[k] <= stamps[l]
        /\ \A j \in Filled : window[j] = stamps[Beat[j]] - stamps[Beat[j] - 1]
    BY <1>10 DEF IInv, Serially
  <2>2. \A n \in 1..N : Top(stamps, n) = stamps[n] /\ stamps[n] \in Int
    <3> SUFFICES ASSUME NEW n \in 1..N PROVE Top(stamps, n) = stamps[n] /\ stamps[n] \in Int
      OBVIOUS
    <3>1. n \in 1..Len(stamps) /\ n \in 1..n
      BY <1>1 DEF N
    <3>2. Top(stamps, n) \in 0..LastTime /\ stamps[n] <= Top(stamps, n)
      BY <1>1, <3>1, TopFacts
    <3>3. PICK k \in 1..n : Top(stamps, n) = stamps[k]
      BY <1>1, <3>1, TopFacts
    <3>4. k \in 1..N /\ k <= n
      BY <1>1, <3>3
    <3>5. stamps[k] <= stamps[n]
      BY <2>1, <3>4
    <3>6. stamps[n] \in 0..LastTime
      BY <1>1, <3>1
    <3> QED  BY <1>1, <3>2, <3>3, <3>5, <3>6
  <2>3. \A j \in Filled : Slack[j] = 0
    <3> SUFFICES ASSUME NEW j \in Filled PROVE Slack[j] = 0
      OBVIOUS
    <3>1. Beat[j] \in 1..N /\ Beat[j] - 1 \in 1..N
      BY <1>1
    <3>2. Slack[j] = window[j] - (Top(stamps, Beat[j]) - Top(stamps, Beat[j] - 1))
      BY DEF Slack
    <3>3. window[j] = stamps[Beat[j]] - stamps[Beat[j] - 1]
      BY <2>1
    <3>4. /\ Top(stamps, Beat[j]) = stamps[Beat[j]] /\ stamps[Beat[j]] \in Int
          /\ Top(stamps, Beat[j] - 1) = stamps[Beat[j] - 1] /\ stamps[Beat[j] - 1] \in Int
      BY <2>2, <3>1
    <3> QED  BY <3>2, <3>3, <3>4
  <2>4. SumFunctionOnSet(Slack, Filled) = 0
    BY <1>1, <2>3, SumOfZeros
  <2>5. N \in 1..N /\ N - Of \in 1..N
    BY <1>4, <1>5 DEF N
  <2> QED  BY <1>4, <1>7, <2>2, <2>4, <2>5
<1> QED  BY <1>9, <1>10
-----------------------------------------------------------------------------
(* The steps *)

Busy == {t \in Threads : call[t].pc # "out"}

\* At first nothing is recorded.
LEMMA InitInvariant == Init => IInv
<1> SUFFICES ASSUME Init PROVE IInv
  OBVIOUS
<1>1. WindowSize \in Nat \ {0} /\ LastBeat \in Nat /\ LastTime \in Nat
  BY HeartRateAssumption
<1>2. /\ N = 0 /\ Of = 0 /\ Filled = {} /\ Len(stamps) = 0 /\ stamps \in Seq(0..LastTime)
      /\ last_average_time.time = 0
  BY DEF Init, N, Of, Filled
<1>3. Busy = {} /\ Issued = 0 + Cardinality(Busy)
  BY <1>2 DEF Init, Busy, Issued, N
<1>4. Issued = 0
  BY <1>3, FS_EmptySet
<1>5. TypeOK
  <2>1. window \in [0..(WindowSize - 1) -> -1..(LastTime + 1)]
    BY <1>1 DEF Init
  <2>2. call \in [Threads -> [pc : {"out", "clock", "lock"}, old : -1..LastTime,
                              time : 0..LastTime]]
    BY <1>1 DEF Init
  <2>3. /\ 0 \in 0..LastTime /\ -1 \in -1..LastTime /\ 0 \in 0..(WindowSize - 1)
        /\ 0 <= LastBeat + 1
    BY <1>1
  <2>4. last_average_time.time \in Nat /\ last_average_time.of \in 0..WindowSize
    BY <1>1 DEF Init
  <2> QED  BY <1>2, <2>1, <2>2, <2>3, <2>4 DEF Init, TypeOK
<1>6. Counting /\ Calls /\ Bounded
  BY <1>1, <1>2, <1>4 DEF Init, Counting, Calls, Bounded, N, Of
<1>7. Averages
  BY <1>2, SumEmpty DEF Averages
<1>8. Serially
  BY <1>2 DEF Init, Serially
<1> QED  BY <1>5, <1>6, <1>7, <1>8 DEF IInv

\* Outside the lock nothing of the window changes.
LEMMA WindowStays ==
    ASSUME IInv, UNCHANGED private
    PROVE  /\ Counting' /\ Averages' /\ N' = N /\ Filled' = Filled
           /\ Beat' = Beat
<1>1. UNCHANGED <<first_timestamp, last_timestamp, window, current_index, steady_state,
                  last_average_time, stamps>>
  BY DEF private
<1>2. /\ N' = N /\ Of' = Of /\ Filled' = Filled
      /\ Beat' = Beat
  BY <1>1 DEF N, Of, Filled, Beat
<1>3. Slack' = Slack
  BY <1>1, <1>2 DEF Slack
<1>4. Counting'
  BY <1>1, <1>2 DEF IInv, Counting
<1>5. Averages'
  BY <1>1, <1>2, <1>3 DEF IInv, Averages
<1> QED  BY <1>2, <1>4, <1>5

\* The clock alone.
LEMMA TickStep == ASSUME IInv, Tick PROVE IInv'
<1>1. /\ now < LastTime /\ now' = now + 1 /\ UNCHANGED <<private, call, serial>>
      /\ UNCHANGED <<first_timestamp, last_timestamp, window, current_index, steady_state,
                     last_average_time, stamps>>
  BY DEF Tick, private
<1>2. /\ Counting' /\ Averages' /\ N' = N /\ Filled' = Filled
      /\ Beat' = Beat
  BY <1>1, WindowStays
<1>3. TypeOK /\ LastTime \in Nat /\ now \in 0..LastTime /\ stamps \in Seq(0..LastTime)
      /\ N \in Nat
  BY HeartRateAssumption DEF IInv, TypeOK, N
<1>4. TypeOK'
  <2>1. now' \in 0..LastTime
    BY <1>1, <1>3
  <2> QED  BY <1>1, <1>3, <2>1 DEF TypeOK
<1>5. Calls'
  <2>1. \A x \in Int : x <= now => x <= now'
    BY <1>1, <1>3
  <2>2. \A k \in 1..N : stamps[k] \in Int
    BY <1>3 DEF N
  <2>3. \A t \in Threads : call[t].old \in Int /\ call[t].time \in Int
    <3>1. LastTime \in Int
      BY <1>3
    <3> QED  BY <1>3, <3>1 DEF TypeOK
  <2> QED  BY <1>1, <1>2, <2>1, <2>2, <2>3 DEF IInv, Calls
<1>6. Bounded'
  BY <1>1 DEF IInv, Bounded, Issued
<1>7. Serially'
  BY <1>1, <1>2 DEF IInv, Serially
<1> QED  BY <1>2, <1>4, <1>5, <1>6, <1>7 DEF IInv

\* A thread that starts a call: it reads the time of the last beat.
LEMMA ReadLastStep == ASSUME IInv, NEW t \in Threads, ReadLast(t) PROVE IInv'
<1>1. /\ call[t].pc = "out" /\ Issued <= LastBeat
      /\ call' = [call EXCEPT ![t].pc = "clock", ![t].old = last_timestamp]
      /\ serial' = (serial /\ \A u \in Threads : call[u].pc = "out")
      /\ now' = now /\ UNCHANGED private
      /\ UNCHANGED <<first_timestamp, last_timestamp, window, current_index, steady_state,
                     last_average_time, stamps>>
  BY DEF ReadLast, private
<1>2. /\ Counting' /\ Averages' /\ N' = N /\ Filled' = Filled
      /\ Beat' = Beat
  BY <1>1, WindowStays
<1>3. /\ TypeOK /\ LastTime \in Nat /\ now \in 0..LastTime /\ stamps \in Seq(0..LastTime)
      /\ last_timestamp \in -1..LastTime /\ LastBeat \in Nat /\ N \in Nat
      /\ call \in [Threads -> [pc : {"out", "clock", "lock"}, old : -1..LastTime,
                               time : 0..LastTime]]
  BY HeartRateAssumption DEF IInv, TypeOK, N
<1>4. /\ call'[t] = [pc |-> "clock", old |-> last_timestamp, time |-> call[t].time]
      /\ \A u \in Threads \ {t} : call'[u] = call[u]
  BY <1>1, <1>3
<1>5. TypeOK'
  <2>1. call' \in [Threads -> [pc : {"out", "clock", "lock"}, old : -1..LastTime,
                               time : 0..LastTime]]
    BY <1>1, <1>3
  <2>2. serial' \in BOOLEAN
    BY <1>1
  <2> QED  BY <1>1, <1>3, <2>1, <2>2 DEF TypeOK
<1>6. Calls'
  <2>1. /\ last_timestamp <= now
        /\ last_timestamp = -1 \/ \E k \in 1..N : last_timestamp = stamps[k]
    <3>1. CASE N = 0
      BY <1>3, <3>1 DEF IInv, Counting
    <3>2. CASE N > 0
      <4>1. N \in 1..N /\ last_timestamp = stamps[N]
        BY <1>3, <3>2 DEF IInv, Counting
      <4> QED  BY <4>1 DEF IInv, Calls
    <3> QED  BY <1>3, <3>1, <3>2
  <2>2. \A u \in Threads : call'[u].pc # "out" =>
           /\ call'[u].old <= now
           /\ call'[u].old = -1 \/ \E k \in 1..N : call'[u].old = stamps[k]
    <3> SUFFICES ASSUME NEW u \in Threads, call'[u].pc # "out"
                 PROVE  /\ call'[u].old <= now
                        /\ call'[u].old = -1 \/ \E k \in 1..N : call'[u].old = stamps[k]
      OBVIOUS
    <3>1. CASE u = t
      BY <1>4, <2>1, <3>1
    <3>2. CASE u # t
      BY <1>4, <3>2 DEF IInv, Calls
    <3> QED  BY <3>1, <3>2
  <2>3. \A u \in Threads : call'[u].pc = "lock" =>
           call'[u].old <= call'[u].time /\ call'[u].time <= now
    BY <1>4 DEF IInv, Calls
  <2>4. \A k \in 1..N : stamps[k] <= now
    BY DEF IInv, Calls
  <2> QED  BY <1>1, <1>2, <2>2, <2>3, <2>4 DEF Calls
<1>7. Bounded'
  <2>0. call'[t].pc # "out"
    BY <1>4
  <2>1. Busy' = Busy \cup {t} /\ t \notin Busy
    BY <1>1, <1>4, <2>0 DEF Busy
  <2>2. IsFiniteSet(Busy) /\ Cardinality(Busy) \in Nat
    BY HeartRateAssumption, FS_Subset, FS_CardinalityType DEF Busy
  <2>3. Cardinality(Busy') = Cardinality(Busy) + 1
    BY <2>1, <2>2, FS_AddElement
  <2>4. Issued = N + Cardinality(Busy) /\ Issued' = N' + Cardinality(Busy')
    BY DEF Issued, N, Busy
  <2>5. Issued' = Issued + 1 /\ Issued \in Nat
    BY <1>2, <1>3, <2>2, <2>3, <2>4
  <2> QED  BY <1>1, <1>3, <2>5 DEF Bounded
<1>8. Serially'
  <2> SUFFICES ASSUME serial' PROVE Serially'
    BY DEF Serially
  <2>1. serial /\ \A u \in Threads : call[u].pc = "out"
    BY <1>1
  <2>2. \A u \in Threads : call'[u].pc # "out" => u = t
    BY <1>4, <2>1
  <2>3. call'[t].old = last_timestamp
    BY <1>4
  <2>4. /\ \A k, l \in 1..N : k <= l => stamps[k] <= stamps[l]
        /\ \A j \in Filled : window[j] = stamps[Beat[j]] - stamps[Beat[j] - 1]
    BY <2>1 DEF IInv, Serially
  <2> QED  BY <1>1, <1>2, <2>2, <2>3, <2>4 DEF Serially
<1> QED  BY <1>2, <1>5, <1>6, <1>7, <1>8 DEF IInv

\* It reads the clock.
LEMMA ReadClockStep == ASSUME IInv, NEW t \in Threads, ReadClock(t) PROVE IInv'
<1>1. /\ call[t].pc = "clock"
      /\ call' = [call EXCEPT ![t].pc = "lock", ![t].time = now]
      /\ serial' = serial /\ now' = now /\ UNCHANGED private
      /\ UNCHANGED <<first_timestamp, last_timestamp, window, current_index, steady_state,
                     last_average_time, stamps>>
  BY DEF ReadClock, private
<1>2. /\ Counting' /\ Averages' /\ N' = N /\ Filled' = Filled
      /\ Beat' = Beat
  BY <1>1, WindowStays
<1>3. /\ TypeOK /\ LastTime \in Nat /\ now \in 0..LastTime
      /\ call \in [Threads -> [pc : {"out", "clock", "lock"}, old : -1..LastTime,
                               time : 0..LastTime]]
  BY HeartRateAssumption DEF IInv, TypeOK
<1>4. /\ call'[t] = [pc |-> "lock", old |-> call[t].old, time |-> now]
      /\ \A u \in Threads \ {t} : call'[u] = call[u]
  BY <1>1, <1>3
<1>5. TypeOK'
  <2>1. call' \in [Threads -> [pc : {"out", "clock", "lock"}, old : -1..LastTime,
                               time : 0..LastTime]]
    BY <1>1, <1>3
  <2> QED  BY <1>1, <1>3, <2>1 DEF TypeOK
<1>6. \A u \in Threads : /\ call'[u].pc # "out" <=> call[u].pc # "out"
                         /\ call'[u].old = call[u].old
  <2>1. call'[t].pc # "out" /\ call'[t].old = call[t].old
    BY <1>4
  <2> QED  BY <1>1, <1>4, <2>1
<1>7. Calls'
  <2>1. \A u \in Threads : call'[u].pc = "lock" =>
           call'[u].old <= call'[u].time /\ call'[u].time <= now
    <3> SUFFICES ASSUME NEW u \in Threads, call'[u].pc = "lock"
                 PROVE  call'[u].old <= call'[u].time /\ call'[u].time <= now
      OBVIOUS
    <3>1. CASE u = t
      <4>1. call[t].old <= now /\ now <= now
        BY <1>1, <1>3 DEF IInv, Calls
      <4> QED  BY <1>4, <3>1, <4>1
    <3>2. CASE u # t
      BY <1>4, <3>2 DEF IInv, Calls
    <3> QED  BY <3>1, <3>2
  <2>2. /\ \A k \in 1..N : stamps[k] <= now
        /\ \A u \in Threads : call[u].pc # "out" =>
              /\ call[u].old <= now
              /\ call[u].old = -1 \/ \E k \in 1..N : call[u].old = stamps[k]
    BY DEF IInv, Calls
  <2> QED  BY <1>1, <1>2, <1>6, <2>1, <2>2 DEF Calls
<1>8. Bounded'
  <2>1. Busy' = Busy
    BY <1>6 DEF Busy
  <2>2. Issued = N + Cardinality(Busy) /\ Issued' = N' + Cardinality(Busy')
    BY DEF Issued, N, Busy
  <2> QED  BY <1>2, <2>1, <2>2 DEF IInv, Bounded
<1>9. Serially'
  BY <1>1, <1>2, <1>6 DEF IInv, Serially
<1> QED  BY <1>2, <1>5, <1>7, <1>8, <1>9 DEF IInv
-----------------------------------------------------------------------------
\* Under the lock: the record, and what it says of the other threads.
LEMMA LockedFacts ==
    ASSUME IInv, NEW t \in Threads, Locked(t)
    PROVE  /\ call[t].time \in 0..LastTime /\ call[t].old \in -1..LastTime
           /\ call[t].old <= call[t].time
           /\ call[t].old = -1 \/ \E k \in 1..N : call[t].old = stamps[k]
           /\ stamps' = Append(stamps, call[t].time) /\ stamps' \in Seq(0..LastTime)
           /\ N' = N + 1 /\ N' <= LastBeat + 1
           /\ stamps'[N + 1] = call[t].time /\ \A k \in 1..N : stamps'[k] = stamps[k]
           /\ last_timestamp' = call[t].time /\ now' = now /\ serial' = serial
           /\ call' \in [Threads -> [pc : {"out", "clock", "lock"}, old : -1..LastTime,
                                     time : 0..LastTime]]
           /\ Calls' /\ Bounded'
           /\ serial => /\ \A u \in Threads : call'[u].pc = "out"
                        /\ call[t].old = last_timestamp
                        /\ N > 0 => \A k, l \in 1..N' : k <= l => stamps'[k] <= stamps'[l]
<1>1. /\ call[t].pc = "lock"
      /\ call' = [call EXCEPT ![t] = [pc |-> "out", old |-> -1, time |-> 0]]
      /\ last_timestamp' = call[t].time
      /\ stamps' = Append(stamps, call[t].time)
      /\ now' = now /\ serial' = serial
  BY DEF Locked
<1>2. /\ LastTime \in Nat /\ now \in 0..LastTime /\ stamps \in Seq(0..LastTime)
      /\ N \in Nat /\ LastBeat \in Nat
      /\ call \in [Threads -> [pc : {"out", "clock", "lock"}, old : -1..LastTime,
                               time : 0..LastTime]]
  BY HeartRateAssumption DEF IInv, TypeOK, N
<1>3. /\ call[t].time \in 0..LastTime /\ call[t].old \in -1..LastTime
      /\ call[t].old <= call[t].time /\ call[t].time <= now
      /\ call[t].old = -1 \/ \E k \in 1..N : call[t].old = stamps[k]
  BY <1>1, <1>2 DEF IInv, Calls
<1>4. /\ stamps' \in Seq(0..LastTime) /\ N' = N + 1
      /\ stamps'[N + 1] = call[t].time /\ \A k \in 1..N : stamps'[k] = stamps[k]
  BY <1>1, <1>2, <1>3 DEF N
<1>5. /\ call'[t] = [pc |-> "out", old |-> -1, time |-> 0]
      /\ \A u \in Threads \ {t} : call'[u] = call[u]
  BY <1>1, <1>2
<1>6. call' \in [Threads -> [pc : {"out", "clock", "lock"}, old : -1..LastTime,
                             time : 0..LastTime]]
  <2>1. [pc |-> "out", old |-> -1, time |-> 0] \in
           [pc : {"out", "clock", "lock"}, old : -1..LastTime, time : 0..LastTime]
    BY <1>2
  <2> QED  BY <1>1, <1>2, <2>1
<1>7. Bounded' /\ N' <= LastBeat + 1
  <2>1. Busy' = Busy \ {t} /\ t \in Busy
    BY <1>1, <1>5 DEF Busy
  <2>2. IsFiniteSet(Busy) /\ Cardinality(Busy) \in Nat
    BY HeartRateAssumption, FS_Subset, FS_CardinalityType DEF Busy
  <2>3. Cardinality(Busy') = Cardinality(Busy) - 1
    BY <2>1, <2>2, FS_RemoveElement
  <2>4. Issued = N + Cardinality(Busy) /\ Issued' = N' + Cardinality(Busy')
    BY DEF Issued, N, Busy
  <2>5. IsFiniteSet(Busy') /\ Cardinality(Busy') \in Nat
    BY <2>1, <2>2, FS_Subset, FS_CardinalityType
  <2>6. Issued <= LastBeat + 1
    BY DEF IInv, Bounded
  <2>7. N' + Cardinality(Busy') = N + Cardinality(Busy)
    BY <1>2, <1>4, <2>2, <2>3
  <2>8. Issued' <= LastBeat + 1
    BY <2>4, <2>6, <2>7
  <2>9. N' <= LastBeat + 1
    BY <1>2, <1>4, <2>4, <2>5, <2>8
  <2> QED  BY <2>8, <2>9 DEF Bounded
<1>8. Calls'
  <2>1. \A k \in 1..N' : stamps'[k] <= now
    <3> SUFFICES ASSUME NEW k \in 1..N' PROVE stamps'[k] <= now
      OBVIOUS
    <3>1. k \in 1..N \/ k = N + 1
      BY <1>2, <1>4
    <3> QED  BY <1>3, <1>4, <3>1 DEF IInv, Calls
  <2>2. ASSUME NEW u \in Threads, call'[u].pc # "out"
        PROVE  /\ call'[u].old <= now
               /\ call'[u].old = -1 \/ \E k \in 1..N' : call'[u].old = stamps'[k]
    <3>1. call'[u] = call[u] /\ call[u].pc # "out"
      BY <1>5, <2>2
    <3>2. /\ call[u].old <= now
          /\ call[u].old = -1 \/ \E k \in 1..N : call[u].old = stamps[k]
      BY <3>1 DEF IInv, Calls
    <3>3. \A k \in 1..N : k \in 1..N' /\ stamps'[k] = stamps[k]
      BY <1>2, <1>4
    <3> QED  BY <3>1, <3>2, <3>3
  <2>3. \A u \in Threads : call'[u].pc = "lock" =>
           call'[u].old <= call'[u].time /\ call'[u].time <= now
    BY <1>5 DEF IInv, Calls
  <2> QED  BY <1>1, <2>1, <2>2, <2>3 DEF Calls
<1>9. ASSUME serial
      PROVE  /\ \A u \in Threads : call'[u].pc = "out"
             /\ call[t].old = last_timestamp
             /\ N > 0 => \A k, l \in 1..N' : k <= l => stamps'[k] <= stamps'[l]
  <2>1. /\ \A u, w \in Threads : call[u].pc # "out" /\ call[w].pc # "out" => u = w
        /\ call[t].old = last_timestamp
        /\ \A k, l \in 1..N : k <= l => stamps[k] <= stamps[l]
    BY <1>1, <1>9 DEF IInv, Serially
  <2>2. \A u \in Threads : call'[u].pc = "out"
    BY <1>1, <1>5, <2>1
  <2>3. ASSUME N > 0, NEW k \in 1..N', NEW l \in 1..N', k <= l
        PROVE  stamps'[k] <= stamps'[l]
    <3>1. last_timestamp = stamps[N]
      BY <2>3 DEF IInv, Counting
    <3>2. \A n \in 1..N : stamps[n] \in 0..LastTime
      BY <1>2 DEF N
    <3>3. N \in 1..N
      BY <1>2, <2>3
    <3>4. CASE l \in 1..N
      <4>1. k \in 1..N
        BY <1>2, <2>3, <3>4
      <4> QED  BY <1>4, <2>1, <2>3, <3>4, <4>1
    <3>5. CASE l = N + 1 /\ k \in 1..N
      <4>1. stamps[k] <= stamps[N] /\ stamps[N] <= call[t].time
        <5>1. k <= N
          BY <1>2, <3>5
        <5> QED  BY <1>3, <2>1, <3>1, <3>3, <3>5, <5>1
      <4>2. stamps[k] \in Int /\ stamps[N] \in Int /\ call[t].time \in Int
        BY <1>2, <1>3, <3>2, <3>3, <3>5
      <4> QED  BY <1>4, <3>5, <4>1, <4>2
    <3>6. CASE l = N + 1 /\ k = N + 1
      BY <1>2, <1>3, <1>4, <3>6
    <3> QED  BY <1>2, <1>4, <2>3, <3>4, <3>5, <3>6
  <2> QED  BY <2>1, <2>2, <2>3
<1> QED  BY <1>1, <1>3, <1>4, <1>6, <1>7, <1>8, <1>9

\* The first beat.
LEMMA FirstStep == ASSUME IInv, NEW t \in Threads, First(t) PROVE IInv'
<1>1. /\ Locked(t) /\ first_timestamp = -1
      /\ first_timestamp' = call[t].time
      /\ window' = [window EXCEPT ![0] = 0]
      /\ UNCHANGED <<current_index, steady_state, last_average_time>>
  BY DEF First
<1>2. /\ call[t].time \in 0..LastTime
      /\ stamps' \in Seq(0..LastTime)
      /\ N' = N + 1 /\ N' <= LastBeat + 1
      /\ stamps'[N + 1] = call[t].time
      /\ last_timestamp' = call[t].time /\ now' = now /\ serial' = serial
      /\ call' \in [Threads -> [pc : {"out", "clock", "lock"}, old : -1..LastTime,
                                time : 0..LastTime]]
      /\ Calls' /\ Bounded'
      /\ serial => \A u \in Threads : call'[u].pc = "out"
  BY <1>1, LockedFacts
<1>3. TypeOK /\ WindowSize \in Nat \ {0} /\ LastTime \in Nat /\ N \in Nat
  BY HeartRateAssumption DEF IInv, TypeOK, N
<1>4. N = 0 /\ ~steady_state /\ current_index = 0 /\ Of = 0
  BY <1>1, <1>3 DEF IInv, Counting
<1>5. N' = 1 /\ Of' = 0 /\ Filled = {} /\ Filled' = {}
  BY <1>1, <1>2, <1>4 DEF Of, Filled
<1>6. TypeOK'
  <2>1. window' \in [0..(WindowSize - 1) -> -1..(LastTime + 1)]
    BY <1>1, <1>3 DEF TypeOK
  <2>2. first_timestamp' \in -1..LastTime /\ last_timestamp' \in -1..LastTime
    BY <1>1, <1>2, <1>3
  <2> QED  BY <1>1, <1>2, <1>3, <2>1, <2>2 DEF TypeOK, N
<1>7. Counting'
  <2>1. first_timestamp' # -1
    BY <1>1, <1>2, <1>3
  <2> QED  BY <1>1, <1>2, <1>4, <1>5, <2>1 DEF Counting
<1>8. Averages'
  <2>1. last_average_time.time = 0
    BY <1>5, SumEmpty DEF IInv, Averages
  <2>2. Top(stamps', N') \in Int
    <3>1. N' \in 1..Len(stamps')
      BY <1>5 DEF N
    <3>2. Top(stamps', N') \in 0..LastTime
      BY <1>2, <1>3, <3>1, TopFacts
    <3> QED  BY <1>3, <3>2
  <2>3. N' - Of' = N'
    BY <1>5
  <2>4. SumFunctionOnSet(Slack', Filled') = 0 /\ SumFunctionOnSet(window', Filled') = 0
    BY <1>5, SumEmpty
  <2>5. last_average_time'.time = 0
    BY <1>1, <2>1
  <2>6. last_average_time'.time =
           Top(stamps', N') - Top(stamps', N' - Of') + SumFunctionOnSet(Slack', Filled')
    BY <2>2, <2>3, <2>4, <2>5
  <2> QED  BY <1>5, <2>4, <2>5, <2>6 DEF Averages
<1>9. Serially'
  <2>1. \A k, l \in 1..1 : stamps'[k] <= stamps'[l]
    <3>1. stamps'[1] \in Int
      BY <1>2, <1>3, <1>4
    <3> QED  BY <3>1
  <2> QED  BY <1>2, <1>5, <2>1 DEF Serially
<1> QED  BY <1>2, <1>6, <1>7, <1>8, <1>9 DEF IInv
-----------------------------------------------------------------------------
\* The interval enters the window in the slot of the oldest, or in a new one.
LEMMA LaterFacts ==
    ASSUME IInv, NEW t \in Threads, Later(t)
    PROVE  LET v == Interval(t)
           IN  /\ N > 0 /\ v \in 0..(LastTime + 1)
               /\ window' \in [0..(WindowSize - 1) -> -1..(LastTime + 1)]
               /\ window'[current_index] = v
               /\ \A j \in 0..(WindowSize - 1) : j # current_index => window'[j] = window[j]
               /\ first_timestamp' = first_timestamp
               /\ current_index' \in 0..(WindowSize - 1) /\ steady_state' \in BOOLEAN
               /\ Of' \in 0..WindowSize /\ Filled' = Filled \cup {current_index}
               /\ Counting'
               /\ \A j \in Filled \ {current_index} : Beat'[j] = Beat[j]
               /\ Beat'[current_index] = N + 1
               /\ steady_state => Beat[current_index] = N - Of + 1 /\ N' - Of' = N - Of + 1
               /\ ~steady_state => N' - Of' = N - Of
               /\ last_average_time'.time = SumFunctionOnSet(window', Filled')
               /\ last_average_time'.time = last_average_time.time + v
                     - (IF current_index \in Filled THEN window[current_index] ELSE 0)
<1> DEFINE v  == Interval(t)
           ci == current_index
<1>1. /\ Locked(t) /\ first_timestamp # -1 /\ first_timestamp' = first_timestamp
      /\ window' = [window EXCEPT ![ci] = v]
      /\ last_average_time' = Average(v)
      /\ current_index' = IF ci + 1 = WindowSize THEN 0 ELSE ci + 1
      /\ steady_state' = (steady_state \/ ci + 1 = WindowSize)
  BY DEF Later, hb_window_average, Turns
<1>2. /\ call[t].time \in 0..LastTime /\ call[t].old \in -1..LastTime
      /\ call[t].old <= call[t].time
      /\ N' = N + 1 /\ stamps'[N + 1] = call[t].time /\ last_timestamp' = call[t].time
  BY <1>1, LockedFacts
<1>3. /\ WindowSize \in Nat \ {0} /\ N \in Nat /\ Of \in Nat /\ Of <= WindowSize
      /\ ci \in 0..(WindowSize - 1) /\ steady_state \in BOOLEAN
      /\ IsFiniteSet(Filled) /\ Filled \subseteq 0..(WindowSize - 1) /\ LastTime \in Nat
      /\ \A j \in Filled : Beat[j] \in 2..N
      /\ ci \in Filled <=> steady_state
      /\ window \in [0..(WindowSize - 1) -> -1..(LastTime + 1)]
      /\ last_average_time.time \in Nat
  BY Places DEF IInv, TypeOK
<1>4. N > 0
  BY <1>1, <1>3 DEF IInv, Counting
<1>5. v \in 0..(LastTime + 1)
  <2>1. LastTime \in Nat /\ call[t].time \in Int /\ call[t].old \in Int
    BY <1>2, <1>3
  <2>2. call[t].time <= LastTime /\ -1 <= call[t].old
    BY <1>2, <2>1
  <2> QED  BY <1>2, <2>1, <2>2 DEF Interval
<1>6. Counting
  BY DEF IInv
<1> HIDE DEF v
<1>7. /\ window' \in [0..(WindowSize - 1) -> -1..(LastTime + 1)]
      /\ window'[ci] = v
      /\ \A j \in 0..(WindowSize - 1) : j # ci => window'[j] = window[j]
  <2>1. v \in -1..(LastTime + 1)
    BY <1>3, <1>5
  <2> QED  BY <1>1, <1>3, <2>1
<1>8. current_index' \in 0..(WindowSize - 1) /\ steady_state' \in BOOLEAN
  BY <1>1, <1>3
<1>9. /\ Of' = IF steady_state THEN WindowSize ELSE ci + 1
      /\ last_average_time'.time =
            IF steady_state THEN last_average_time.time - window[ci] + v
                            ELSE SumFunctionOnSet(window', 0..ci)
  <2>1. CASE steady_state
    <3>1. last_average_time' = [time |-> last_average_time.time - window[ci] + v,
                                of |-> WindowSize]
      BY <1>1, <2>1 DEF Average
    <3> QED  BY <2>1, <3>1 DEF Of
  <2>2. CASE ~steady_state
    <3>1. last_average_time' = [time |-> SumOfFirst(ci + 1, window'), of |-> ci + 1]
      <4>1. Average(v) = [time |-> SumOfFirst(ci + 1, window'), of |-> ci + 1]
        BY <2>2 DEF Average
      <4> QED  BY <1>1, <4>1
    <3>2. SumOfFirst(ci + 1, window') = SumFunctionOnSet(window', 0..ci)
      <4> DEFINE k == ci + 1
      <4>1. SumOfFirst(k, window') = SumFunctionOnSet(window', 0..(k - 1))
        <5> HIDE DEF k
        <5> QED  BY DEF SumOfFirst
      <4>2. k - 1 = ci
        BY <1>3
      <4> HIDE DEF k
      <4>3. SumOfFirst(k, window') = SumFunctionOnSet(window', 0..ci)
        BY <4>1, <4>2
      <4> QED  BY <4>3 DEF k
    <3> QED  BY <2>2, <3>1, <3>2 DEF Of
  <2> QED  BY <2>1, <2>2
<1>10. /\ ~steady_state => Of = ci /\ N = ci + 1
       /\ steady_state => Of = WindowSize /\ N > WindowSize
  BY <1>4, <1>6 DEF Counting
<1>11. Filled' = Filled \cup {ci} /\ Of' \in 0..WindowSize /\ Filled' = 0..(Of' - 1)
  <2>1. CASE steady_state
    <3>1. Filled = 0..(WindowSize - 1) /\ Filled' = 0..(WindowSize - 1)
      BY <1>9, <1>10, <2>1 DEF Filled
    <3> QED  BY <1>3, <1>9, <2>1, <3>1
  <2>2. CASE ~steady_state
    <3>1. Filled = 0..(ci - 1) /\ Filled' = 0..((ci + 1) - 1)
      BY <1>9, <1>10, <2>2 DEF Filled
    <3>2. 0..((ci + 1) - 1) = 0..(ci - 1) \cup {ci} /\ ci + 1 \in 0..WindowSize
      BY <1>3
    <3> QED  BY <1>9, <2>2, <3>1, <3>2
  <2> QED  BY <1>3, <2>1, <2>2
<1>12. Counting'
  <2>1. last_timestamp' = stamps'[N'] /\ N' > 0 /\ N' # 0 /\ first_timestamp' # -1
    BY <1>1, <1>2, <1>3, <1>4
  <2>2. steady_state' => Of' = WindowSize /\ N' > WindowSize
    <3>1. CASE steady_state
      BY <1>2, <1>3, <1>9, <1>10, <3>1
    <3>2. CASE ~steady_state /\ ci + 1 = WindowSize
      BY <1>2, <1>3, <1>9, <1>10, <3>2
    <3> QED  BY <1>1, <1>3, <3>1, <3>2
  <2>3. ~steady_state' => Of' = current_index' /\ N' = current_index' + 1
    <3> SUFFICES ASSUME ~steady_state' PROVE Of' = current_index' /\ N' = current_index' + 1
      OBVIOUS
    <3>1. ~steady_state /\ ci + 1 # WindowSize
      BY <1>1
    <3> QED  BY <1>1, <1>2, <1>9, <1>10, <3>1
  <2> QED  BY <2>1, <2>2, <2>3 DEF Counting
<1>13. ASSUME NEW j \in 0..(WindowSize - 1), j \in Filled \cup {ci}
       PROVE  Beat'[j] = IF j = ci THEN N + 1 ELSE Beat[j]
  <2>1. Beat'[j] = IF j < current_index' THEN N' - current_index' + 1 + j
                                         ELSE N' - current_index' + 1 + j - WindowSize
    BY <1>13 DEF Beat
  <2>2. CASE ci + 1 = WindowSize
    <3>1. current_index' = 0
      BY <1>1, <2>2
    <3>2. Beat'[j] = N + 1 - 0 + 1 + j - WindowSize
      BY <1>2, <1>13, <2>1, <3>1
    <3>3. CASE j = ci
      BY <1>3, <2>2, <3>2, <3>3
    <3>4. CASE j # ci
      <4>1. j < ci
        BY <1>3, <2>2, <3>4
      <4>2. Beat[j] = N - ci + 1 + j
        BY <4>1 DEF Beat
      <4> QED  BY <1>3, <2>2, <3>2, <3>4, <4>2
    <3> QED  BY <3>3, <3>4
  <2>3. CASE ci + 1 # WindowSize
    <3>1. current_index' = ci + 1
      BY <1>1, <2>3
    <3>2. CASE j = ci
      <4>1. j < ci + 1
        BY <1>3, <3>2
      <4>2. Beat'[j] = N' - (ci + 1) + 1 + j
        BY <2>1, <3>1, <4>1
      <4> QED  BY <1>2, <1>3, <3>2, <4>2
    <3>3. CASE j < ci
      <4>1. j < ci + 1
        BY <1>3, <3>3
      <4>2. Beat'[j] = N' - (ci + 1) + 1 + j /\ Beat[j] = N - ci + 1 + j /\ j # ci
        BY <2>1, <3>1, <3>3, <4>1 DEF Beat
      <4> QED  BY <1>2, <1>3, <4>2
    <3>4. CASE j > ci
      <4>1. ~(j < ci + 1) /\ ~(j < ci) /\ j # ci
        BY <1>3, <3>4
      <4>2. Beat'[j] = N' - (ci + 1) + 1 + j - WindowSize
        BY <2>1, <3>1, <4>1
      <4>3. Beat[j] = N - ci + 1 + j - WindowSize
        BY <4>1 DEF Beat
      <4> QED  BY <1>2, <1>3, <4>1, <4>2, <4>3
    <3> QED  BY <1>3, <3>2, <3>3, <3>4
  <2> QED  BY <2>2, <2>3
<1>14. \A j \in Filled \ {ci} : Beat'[j] = Beat[j]
  <2> SUFFICES ASSUME NEW j \in Filled \ {ci} PROVE Beat'[j] = Beat[j]
    OBVIOUS
  <2>1. j \in 0..(WindowSize - 1) /\ j # ci
    BY <1>3
  <2> QED  BY <1>13, <2>1
<1>15. Beat'[ci] = N + 1
  BY <1>3, <1>13
<1>16. /\ steady_state => Beat[ci] = N - Of + 1 /\ N' - Of' = N - Of + 1
       /\ ~steady_state => N' - Of' = N - Of
  <2>1. Beat[ci] = N - ci + 1 + ci - WindowSize
    BY <1>3 DEF Beat
  <2>2. /\ WindowSize \in Nat /\ N \in Nat /\ ci \in Int /\ N' = N + 1
        /\ Of' = IF steady_state THEN WindowSize ELSE ci + 1
    BY <1>2, <1>3, <1>9
  <2>3. CASE steady_state
    <3>1. Of = WindowSize
      BY <1>10, <2>3
    <3> QED  BY <2>1, <2>2, <2>3, <3>1
  <2>4. CASE ~steady_state
    <3>1. Of = ci
      BY <1>10, <2>4
    <3> QED  BY <2>2, <2>4, <3>1
  <2> QED  BY <2>3, <2>4
<1>17. SumFunctionOnSet(window', Filled') =
          SumFunctionOnSet(window, Filled) + v - (IF ci \in Filled THEN window[ci] ELSE 0)
  <2>1. \A j \in Filled : window[j] \in Int
    BY SumsAreNumbers DEF IInv
  <2>2. v \in Int /\ \A j \in Filled \ {ci} : window'[j] = window[j]
    BY <1>3, <1>5, <1>7
  <2>3. window'[ci] = v /\ window'[ci] \in Int
    BY <1>7, <2>2
  <2>4. Filled' = Filled \cup {ci} /\ IsFiniteSet(Filled)
    BY <1>3, <1>11
  <2>5. SumFunctionOnSet(window', Filled \cup {ci}) =
          SumFunctionOnSet(window, Filled) + window'[ci]
             - (IF ci \in Filled THEN window[ci] ELSE 0)
    <3> DEFINE h == window'
    <3>1. h[ci] \in Int /\ \A j \in Filled \ {ci} : h[j] = window[j]
      BY <2>2, <2>3
    <3> HIDE DEF h
    <3>2. SumFunctionOnSet(h, Filled \cup {ci}) =
             SumFunctionOnSet(window, Filled) + h[ci]
               - (IF ci \in Filled THEN window[ci] ELSE 0)
      BY <2>1, <2>4, <3>1, SumOfUpdate
    <3> QED  BY <3>2 DEF h
  <2> QED  BY <2>3, <2>4, <2>5
<1>18. /\ last_average_time.time = SumFunctionOnSet(window, Filled)
       /\ last_average_time'.time = SumFunctionOnSet(window', Filled')
       /\ last_average_time'.time = last_average_time.time + v
                     - (IF ci \in Filled THEN window[ci] ELSE 0)
  <2>1. last_average_time.time = SumFunctionOnSet(window, Filled)
    BY DEF IInv, Averages
  <2>2. CASE steady_state
    <3>1. window[ci] \in Int
      BY <1>3, <2>2, SumsAreNumbers DEF IInv
    <3>2. last_average_time.time - window[ci] + v = last_average_time.time + v - window[ci]
      BY <1>3, <1>5, <3>1
    <3> QED  BY <1>3, <1>9, <1>17, <2>1, <2>2, <3>2
  <2>3. CASE ~steady_state
    <3>1. 0..ci = Filled'
      <4>1. Filled' = 0..(Of' - 1) /\ Of' = ci + 1 /\ ci \in Int
        BY <1>3, <1>9, <1>11, <2>3
      <4>2. Of' - 1 = ci
        BY <4>1
      <4> QED  BY <4>1, <4>2
    <3> QED  BY <1>3, <1>9, <1>17, <2>1, <2>3, <3>1
  <2> QED  BY <1>3, <2>2, <2>3
<1> QED
  BY <1>1, <1>4, <1>5, <1>7, <1>8, <1>11, <1>12, <1>14, <1>15, <1>16, <1>18 DEF v

\* A later beat.
LEMMA LaterStep == ASSUME IInv, NEW t \in Threads, Later(t) PROVE IInv'
<1> DEFINE v  == Interval(t)
           ci == current_index
           x  == call[t].time
<1>1. /\ N > 0 /\ v \in 0..(LastTime + 1)
      /\ window' \in [0..(WindowSize - 1) -> -1..(LastTime + 1)]
      /\ window'[ci] = v
      /\ \A j \in 0..(WindowSize - 1) : j # ci => window'[j] = window[j]
      /\ first_timestamp' = first_timestamp
      /\ current_index' \in 0..(WindowSize - 1) /\ steady_state' \in BOOLEAN
      /\ Of' \in 0..WindowSize /\ Filled' = Filled \cup {ci}
      /\ Counting'
      /\ \A j \in Filled \ {ci} : Beat'[j] = Beat[j]
      /\ Beat'[ci] = N + 1
      /\ steady_state => Beat[ci] = N - Of + 1 /\ N' - Of' = N - Of + 1
      /\ ~steady_state => N' - Of' = N - Of
      /\ last_average_time'.time = SumFunctionOnSet(window', Filled')
      /\ last_average_time'.time = last_average_time.time + v
                     - (IF ci \in Filled THEN window[ci] ELSE 0)
  BY LaterFacts
<1>2. Locked(t)
  BY DEF Later
<1>3. /\ x \in 0..LastTime /\ call[t].old \in -1..LastTime
      /\ call[t].old <= x
      /\ call[t].old = -1 \/ \E k \in 1..N : call[t].old = stamps[k]
      /\ stamps' = Append(stamps, x) /\ stamps' \in Seq(0..LastTime)
      /\ N' = N + 1 /\ N' <= LastBeat + 1
      /\ stamps'[N + 1] = x /\ \A k \in 1..N : stamps'[k] = stamps[k]
      /\ last_timestamp' = x /\ now' = now /\ serial' = serial
      /\ call' \in [Threads -> [pc : {"out", "clock", "lock"}, old : -1..LastTime,
                                time : 0..LastTime]]
      /\ Calls' /\ Bounded'
      /\ serial => /\ \A u \in Threads : call'[u].pc = "out"
                   /\ call[t].old = last_timestamp
                   /\ N > 0 => \A k, l \in 1..N' : k <= l => stamps'[k] <= stamps'[l]
  BY <1>2, LockedFacts
<1>4. /\ WindowSize \in Nat \ {0} /\ N \in Nat /\ Of \in Nat /\ Of <= WindowSize
      /\ ci \in 0..(WindowSize - 1) /\ N - Of \in 1..N
      /\ IsFiniteSet(Filled) /\ Filled \subseteq 0..(WindowSize - 1)
      /\ stamps \in Seq(0..LastTime) /\ LastTime \in Nat
      /\ \A j \in Filled : Beat[j] \in 2..N /\ Beat[j] - 1 \in 1..N
      /\ ci \in Filled <=> steady_state
      /\ last_average_time.time \in Nat
  BY <1>1, Places DEF IInv, TypeOK
<1>5. v = x - call[t].old
  BY DEF Interval
<1>6. /\ \A j \in Filled : /\ window[j] \in Int /\ Slack[j] \in Int
                          /\ window[j] >= 0 /\ Slack[j] >= 0
      /\ SumFunctionOnSet(Slack, Filled) \in Int
      /\ last_average_time.time =
            Top(stamps, N) - Top(stamps, N - Of) + SumFunctionOnSet(Slack, Filled)
  BY <1>1, SumsAreNumbers DEF IInv, Averages
<1>7. \A j \in Filled : Slack[j] =
         window[j] - (Top(stamps, Beat[j]) - Top(stamps, Beat[j] - 1))
  BY DEF Slack
<1>8. \A j \in Filled' : Slack'[j] =
         window'[j] - (Top(stamps', Beat'[j]) - Top(stamps', Beat'[j] - 1))
  BY DEF Slack
<1> HIDE DEF v, x, ci
<1>9. /\ \A n \in 1..N : Top(stamps', n) = Top(stamps, n) /\ Top(stamps, n) \in Int
      /\ Top(stamps', N + 1) \in Int /\ Top(stamps', N + 1) >= Top(stamps, N)
      /\ Top(stamps', N + 1) \in {x, Top(stamps, N)}
  <2>1. \A n \in 1..N : Top(stamps, n) \in 0..LastTime
    BY <1>4, TopFacts DEF N
  <2>2. /\ \A n \in 1..N : Top(stamps', n) = Top(stamps, n)
        /\ N > 0 => LET z == Top(stamps', N + 1)
                    IN  z \in 0..LastTime /\ z >= Top(stamps, N) /\ z \in {x, Top(stamps, N)}
    BY <1>3, <1>4, TopOfAppend DEF N
  <2>3. \A z \in 0..LastTime : z \in Int
    BY <1>4
  <2> QED  BY <1>1, <2>1, <2>2, <2>3
<1>10. N \in 1..N /\ \A k \in 1..N : stamps[k] \in Int /\ stamps[k] <= Top(stamps, N)
  <2>1. N \in 1..N /\ N \in 1..Len(stamps)
    BY <1>1, <1>4 DEF N
  <2>2. \A k \in 1..N : stamps[k] \in Int
    BY <1>4 DEF N
  <2> QED  BY <1>4, <2>1, <2>2, TopFacts
\* The new slack: the old time was that of a beat, and the clock does not go back.
<1>11. /\ Slack'[ci] = v - (Top(stamps', N + 1) - Top(stamps, N))
       /\ Slack'[ci] \in Int /\ Slack'[ci] >= 0
  <2>1. ci \in Filled' /\ Beat'[ci] - 1 = N
    BY <1>1, <1>4
  <2>2. Slack'[ci] = v - (Top(stamps', N + 1) - Top(stamps, N))
    BY <1>1, <1>8, <1>9, <1>10, <2>1
  <2>3. v \in Int /\ v >= 0 /\ x \in Int /\ call[t].old \in Int
    <3>1. LastTime \in Nat /\ v \in 0..(LastTime + 1) /\ x \in 0..LastTime
          /\ call[t].old \in -1..LastTime
      BY <1>1, <1>3, <1>4
    <3> QED  BY <3>1
  <2>4. Top(stamps, N) \in Int /\ call[t].old <= Top(stamps, N)
    <3>1. Top(stamps, N) \in Int
      BY <1>9, <1>10
    <3>2. CASE call[t].old = -1
      <4>1. stamps[N] \in 0..LastTime /\ stamps[N] <= Top(stamps, N)
        BY <1>4, <1>10 DEF N
      <4> QED  BY <1>4, <3>1, <3>2, <4>1
    <3>3. CASE \E k \in 1..N : call[t].old = stamps[k]
      BY <1>10, <3>1, <3>3
    <3> QED  BY <1>3, <3>1, <3>2, <3>3
  <2> QED  BY <1>5, <1>9, <2>2, <2>3, <2>4
<1>12. \A j \in Filled \ {ci} : Slack'[j] = Slack[j] /\ window'[j] = window[j]
  <2> SUFFICES ASSUME NEW j \in Filled \ {ci}
               PROVE  Slack'[j] = Slack[j] /\ window'[j] = window[j]
    OBVIOUS
  <2>1. j \in Filled' /\ j \in 0..(WindowSize - 1) /\ j # ci
    BY <1>1, <1>4
  <2>2. window'[j] = window[j] /\ Beat'[j] = Beat[j]
    BY <1>1, <2>1
  <2>3. /\ Top(stamps', Beat[j]) = Top(stamps, Beat[j])
        /\ Top(stamps', Beat[j] - 1) = Top(stamps, Beat[j] - 1)
    <3>1. Beat[j] \in 1..N /\ Beat[j] - 1 \in 1..N
      BY <1>4
    <3> QED  BY <1>9, <3>1
  <2>4. Slack'[j] = window'[j] - (Top(stamps', Beat'[j]) - Top(stamps', Beat'[j] - 1))
    BY <1>8, <2>1
  <2>5. Slack[j] = window[j] - (Top(stamps, Beat[j]) - Top(stamps, Beat[j] - 1))
    BY <1>7
  <2> QED  BY <2>2, <2>3, <2>4, <2>5
<1>13. SumFunctionOnSet(Slack', Filled') =
          SumFunctionOnSet(Slack, Filled) + Slack'[ci]
             - (IF ci \in Filled THEN Slack[ci] ELSE 0)
  <2>1. \A j \in Filled : Slack[j] \in Int
    BY <1>6
  <2>2. \A j \in Filled \ {ci} : Slack'[j] = Slack[j]
    BY <1>12
  <2>3. Slack'[ci] \in Int
    BY <1>11
  <2>4. Filled' = Filled \cup {ci} /\ IsFiniteSet(Filled)
    BY <1>1, <1>4
  <2>5. SumFunctionOnSet(Slack', Filled \cup {ci}) =
          SumFunctionOnSet(Slack, Filled) + Slack'[ci]
             - (IF ci \in Filled THEN Slack[ci] ELSE 0)
    BY <2>1, <2>2, <2>3, <2>4, SumOfUpdate
  <2> QED  BY <2>4, <2>5
<1>14. last_average_time'.time =
          Top(stamps', N') - Top(stamps', N' - Of') + SumFunctionOnSet(Slack', Filled')
  <2>1. CASE steady_state
    <3>1. /\ ci \in Filled /\ Beat[ci] = N - Of + 1 /\ Beat[ci] - 1 = N - Of
          /\ N' - Of' = N - Of + 1
      BY <1>1, <1>4, <2>1
    <3>2. Slack[ci] = window[ci] - (Top(stamps, N - Of + 1) - Top(stamps, N - Of))
      BY <1>7, <3>1
    <3>3. N - Of + 1 \in 1..N /\ N - Of \in 1..N
      BY <1>4, <3>1
    <3>4. /\ Top(stamps', N' - Of') = Top(stamps, N - Of + 1)
          /\ Top(stamps, N - Of + 1) \in Int /\ Top(stamps, N - Of) \in Int
          /\ Top(stamps, N) \in Int
      BY <1>9, <1>10, <3>1, <3>3
    <3>5. window[ci] \in Int /\ v \in Int /\ Slack[ci] \in Int
      BY <1>1, <1>4, <1>6, <3>1
    <3>6. last_average_time'.time = last_average_time.time + v - window[ci]
      BY <1>1, <3>1
    <3>7. SumFunctionOnSet(Slack', Filled') =
             SumFunctionOnSet(Slack, Filled) + Slack'[ci] - Slack[ci]
      BY <1>13, <3>1
    <3>8. /\ SumFunctionOnSet(Slack, Filled) \in Int
          /\ last_average_time.time =
                Top(stamps, N) - Top(stamps, N - Of) + SumFunctionOnSet(Slack, Filled)
      BY <1>6
    <3>9. /\ Slack'[ci] = v - (Top(stamps', N + 1) - Top(stamps, N))
          /\ Top(stamps', N + 1) \in Int /\ N' = N + 1
      BY <1>3, <1>9, <1>11
    <3> QED  BY <3>2, <3>4, <3>5, <3>6, <3>7, <3>8, <3>9
  <2>2. CASE ~steady_state
    <3>1. ci \notin Filled /\ N' - Of' = N - Of
      BY <1>1, <1>4, <2>2
    <3>2. /\ Top(stamps', N' - Of') = Top(stamps, N - Of)
          /\ Top(stamps, N - Of) \in Int /\ Top(stamps, N) \in Int
      BY <1>4, <1>9, <1>10, <3>1
    <3>3. v \in Int
      BY <1>1, <1>4
    <3>4. last_average_time'.time = last_average_time.time + v - 0
      BY <1>1, <3>1
    <3>5. SumFunctionOnSet(Slack', Filled') = SumFunctionOnSet(Slack, Filled) + Slack'[ci] - 0
      BY <1>13, <3>1
    <3>6. /\ SumFunctionOnSet(Slack, Filled) \in Int
          /\ last_average_time.time =
                Top(stamps, N) - Top(stamps, N - Of) + SumFunctionOnSet(Slack, Filled)
      BY <1>6
    <3>7. /\ Slack'[ci] = v - (Top(stamps', N + 1) - Top(stamps, N))
          /\ Top(stamps', N + 1) \in Int /\ N' = N + 1
      BY <1>3, <1>9, <1>11
    <3> QED  BY <3>2, <3>3, <3>4, <3>5, <3>6, <3>7
  <2> QED  BY <2>1, <2>2
<1>15. \A j \in Filled' : window'[j] >= 0 /\ Slack'[j] >= 0
  <2> SUFFICES ASSUME NEW j \in Filled' PROVE window'[j] >= 0 /\ Slack'[j] >= 0
    OBVIOUS
  <2>1. CASE j = ci
    <3>1. v >= 0
      BY <1>1, <1>4
    <3> QED  BY <1>1, <1>11, <2>1, <3>1
  <2>2. CASE j # ci
    <3>1. j \in Filled \ {ci}
      BY <1>1, <2>2
    <3> QED  BY <1>6, <1>12, <3>1
  <2> QED  BY <2>1, <2>2
<1>16. Averages'
  BY <1>1, <1>14, <1>15 DEF Averages
<1>17. TypeOK'
  <2>1. last_average_time'.time \in Nat
    <3>1. IsFiniteSet(Filled')
      BY <1>1, <1>4, FS_AddElement
    <3>2. \A j \in Filled' : window'[j] \in Nat
      <4>1. \A j \in Filled' : j \in 0..(WindowSize - 1)
        BY <1>1, <1>4
      <4>2. \A j \in Filled' : window'[j] \in -1..(LastTime + 1)
        BY <1>1, <4>1
      <4> QED  BY <1>4, <1>15, <4>2
    <3>3. SumFunctionOnSet(window', Filled') \in Nat
      BY <3>1, <3>2, SumNat
    <3> QED  BY <1>1, <3>3
  <2>2. last_timestamp' \in -1..LastTime
    BY <1>3, <1>4
  <2>3. TypeOK
    BY DEF IInv
  <2> QED  BY <1>1, <1>3, <2>1, <2>2, <2>3 DEF TypeOK, N, Of
<1>18. Serially'
  <2> SUFFICES ASSUME serial'
               PROVE  /\ \A u, w \in Threads :
                            call'[u].pc # "out" /\ call'[w].pc # "out" => u = w
                      /\ \A u \in Threads :
                            call'[u].pc # "out" => call'[u].old = last_timestamp'
                      /\ \A k, l \in 1..N' : k <= l => stamps'[k] <= stamps'[l]
                      /\ \A j \in Filled' :
                            window'[j] = stamps'[Beat'[j]] - stamps'[Beat'[j] - 1]
    BY DEF Serially
  <2>1. /\ \A u \in Threads : call'[u].pc = "out"
        /\ call[t].old = last_timestamp
        /\ \A k, l \in 1..N' : k <= l => stamps'[k] <= stamps'[l]
    BY <1>1, <1>3
  <2>2. ASSUME NEW j \in Filled'
        PROVE  window'[j] = stamps'[Beat'[j]] - stamps'[Beat'[j] - 1]
    <3>1. CASE j = ci
      <4>1. last_timestamp = stamps[N]
        BY <1>1 DEF IInv, Counting
      <4>2. Beat'[j] = N + 1 /\ Beat'[j] - 1 = N
        <5>1. N \in Nat
          BY <1>4
        <5>2. Beat'[j] = N + 1
          BY <1>1, <3>1
        <5> QED  BY <5>1, <5>2
      <4>3. stamps'[N] = stamps[N]
        BY <1>3, <1>10
      <4> QED  BY <1>1, <1>3, <1>5, <2>1, <3>1, <4>1, <4>2, <4>3
    <3>2. CASE j # ci
      <4>1. j \in Filled \ {ci}
        BY <1>1, <3>2
      <4>2. window[j] = stamps[Beat[j]] - stamps[Beat[j] - 1]
        BY <1>3, <4>1 DEF IInv, Serially
      <4>3. Beat[j] \in 1..N /\ Beat[j] - 1 \in 1..N
        BY <1>4, <4>1
      <4>4. Beat'[j] = Beat[j] /\ window'[j] = window[j]
        BY <1>1, <1>12, <4>1
      <4>5. stamps'[Beat[j]] = stamps[Beat[j]] /\ stamps'[Beat[j] - 1] = stamps[Beat[j] - 1]
        BY <1>3, <4>3
      <4> QED  BY <4>2, <4>4, <4>5
    <3> QED  BY <3>1, <3>2
  <2> QED  BY <2>1, <2>2
<1> QED  BY <1>1, <1>3, <1>16, <1>17, <1>18 DEF IInv

\* The steps together.
LEMMA Induction == IInv /\ [Next]_vars => IInv'
<1> SUFFICES ASSUME IInv, [Next]_vars PROVE IInv'
  OBVIOUS
<1>1. CASE UNCHANGED vars
  <2>1. UNCHANGED <<now, first_timestamp, last_timestamp, window, current_index, steady_state,
                    last_average_time, stamps, call, serial>>
    BY <1>1 DEF vars, private
  <2>2. /\ Counting' /\ Averages' /\ N' = N /\ Filled' = Filled /\ Beat' = Beat
    BY <1>1, WindowStays DEF vars
  <2>3. TypeOK' /\ Calls' /\ Bounded' /\ Serially'
    BY <2>1, <2>2 DEF IInv, TypeOK, Calls, Bounded, Issued, Serially
  <2> QED  BY <2>2, <2>3 DEF IInv
<1>2. CASE Next
  BY <1>1, <1>2, TickStep, ReadLastStep, ReadClockStep, FirstStep, LaterStep DEF Next, Done
<1> QED  BY <1>1, <1>2

\* The inductive invariant.
THEOREM Invariance == Spec => []IInv
BY InitInvariant, Induction, PTL DEF Spec

\* Any number of threads: the windowed rate is exact for calls that do not overlap,
\* and never too high for those that do (heartbeat-shared.c:239-275, 321-360).
THEOREM RateCorrect == Spec => []RateTrue
<1>1. IInv => RateTrue
  BY RateOfInvariant
<1> QED  BY <1>1, Invariance, PTL
-----------------------------------------------------------------------------
(* The window implements SlidingWindow *)

\* The sum of the instance is the same.
LEMMA SumOfInstance ==
    ASSUME NEW s
    PROVE  Sliding!SumFunction(s) = SumFunctionOnSet(s, DOMAIN s)
<1>1. Sliding!SumFunction(s) = (CHOOSE r : Sums(s, DOMAIN s, r))[DOMAIN s]
  BY DEF Sliding!SumFunction, Sliding!SumFunctionOnSet, Sliding!FoldFunctionOnSet,
         Sliding!MapThenFoldSet, Sums, SumStep, Pick
<1> QED  BY <1>1, SumByRecursion

\* A number is added at the end.
LEMMA SumOfNext ==
    ASSUME NEW n \in Nat, NEW s, NEW r, \A k \in 1..n : s[k] \in Int,
           r[n + 1] \in Int, \A k \in 1..n : r[k] = s[k]
    PROVE  /\ SumFunctionOnSet(s, 1..n) \in Int
           /\ SumFunctionOnSet(r, 1..(n + 1)) = SumFunctionOnSet(s, 1..n) + r[n + 1]
<1> DEFINE S == 1..n
           x == n + 1
<1>1. S \cup {x} = 1..(n + 1) /\ x \notin S
  OBVIOUS
<1>2. IsFiniteSet(S)
  <2>1. 1 \in Int /\ n \in Int
    OBVIOUS
  <2> QED  BY <2>1, FS_Interval
<1>3. (\A k \in S : s[k] \in Int) /\ r[x] \in Int /\ \A k \in S \ {x} : r[k] = s[k]
  OBVIOUS
<1>4. r[x] = r[n + 1] /\ SumFunctionOnSet(s, S) = SumFunctionOnSet(s, 1..n)
  OBVIOUS
<1> HIDE DEF S, x
<1>5. /\ SumFunctionOnSet(s, S) \in Int
      /\ SumFunctionOnSet(r, S \cup {x}) =
           SumFunctionOnSet(s, S) + r[x] - (IF x \in S THEN s[x] ELSE 0)
  BY <1>2, <1>3, SumOfUpdate
<1>6. SumFunctionOnSet(r, S \cup {x}) = SumFunctionOnSet(s, S) + r[x]
  BY <1>1, <1>3, <1>5
<1> QED  BY <1>1, <1>4, <1>5, <1>6

\* The sum of all but the first is that of the rest.
LEMMA SumOfRest ==
    ASSUME NEW n \in Nat, NEW s, NEW r, \A k \in 1..(n + 1) : s[k] \in Int,
           \A k \in 1..n : r[k] = s[k + 1]
    PROVE  SumFunctionOnSet(s, 1..(n + 1)) = s[1] + SumFunctionOnSet(r, 1..n)
<1> DEFINE P == {m \in Nat : m <= n => SumFunctionOnSet(s, 1..(m + 1)) =
                                          s[1] + SumFunctionOnSet(r, 1..m)}
<1>1. 0 \in P
  <2>1. 1..(0 + 1) = {1} /\ 1..0 = {} /\ s[1] \in Int
    BY SMT
  <2>2. SumFunctionOnSet(s, {1}) = s[1] + SumFunctionOnSet(s, {1} \ {1})
    <3>1. IsFiniteSet({1})
      BY FS_Singleton
    <3> QED  BY <2>1, <3>1, SumRemove
  <2>3. SumFunctionOnSet(s, {1} \ {1}) = 0 /\ SumFunctionOnSet(r, {}) = 0
    <3>1. {1} \ {1} = {}
      OBVIOUS
    <3> QED  BY <3>1, SumEmpty
  <2> QED  BY <2>1, <2>2, <2>3
<1>2. ASSUME NEW m \in P PROVE m + 1 \in P
  <2>1. m \in Nat
    BY <1>2
  <2>2. SUFFICES ASSUME m + 1 <= n
                 PROVE  SumFunctionOnSet(s, 1..((m + 1) + 1)) =
                           s[1] + SumFunctionOnSet(r, 1..(m + 1))
    BY <2>1
  <2>3. SumFunctionOnSet(s, 1..(m + 1)) = s[1] + SumFunctionOnSet(r, 1..m)
    BY <1>2, <2>1, <2>2
  <2>4. /\ \A k \in 1..(m + 1) : s[k] \in Int
        /\ \A k \in 1..m : r[k] \in Int
        /\ s[(m + 1) + 1] \in Int /\ r[m + 1] = s[(m + 1) + 1] /\ s[1] \in Int
    <3>1. /\ \A k \in 1..(m + 1) : k \in 1..(n + 1)
          /\ (m + 1) + 1 \in 1..(n + 1) /\ m + 1 \in 1..n /\ 1 \in 1..(n + 1)
          /\ \A k \in 1..m : k \in 1..n /\ k + 1 \in 1..(n + 1)
      BY <2>1, <2>2
    <3> QED  BY <3>1
  <2> DEFINE l == m + 1
  <2>5. /\ SumFunctionOnSet(s, 1..l) \in Int
        /\ SumFunctionOnSet(s, 1..(l + 1)) = SumFunctionOnSet(s, 1..l) + s[l + 1]
    <3>1. l \in Nat /\ (\A k \in 1..l : s[k] \in Int) /\ s[l + 1] \in Int
      BY <2>1, <2>4
    <3> HIDE DEF l
    <3> QED  BY <3>1, SumOfNext
  <2>6. /\ SumFunctionOnSet(r, 1..m) \in Int
        /\ SumFunctionOnSet(r, 1..l) = SumFunctionOnSet(r, 1..m) + r[l]
    BY <2>1, <2>4, SumOfNext
  <2>7. SumFunctionOnSet(s, 1..l) = s[1] + SumFunctionOnSet(r, 1..m)
    BY <2>3
  <2>8. r[l] = s[l + 1] /\ s[l + 1] \in Int /\ s[1] \in Int
    BY <2>4
  <2>9. SumFunctionOnSet(s, 1..(l + 1)) = s[1] + SumFunctionOnSet(r, 1..l)
    <3> HIDE DEF l
    <3> QED  BY <2>5, <2>6, <2>7, <2>8
  <2> QED  BY <2>9
<1>3. n \in P
  <2>1. P \in SUBSET Nat
    OBVIOUS
  <2> HIDE DEF P
  <2> QED  BY <1>1, <1>2, <2>1, InductionOnNat
<1> QED  BY <1>3

\* The slot of the k-th interval of a full window, the oldest being in slot c.
Slot(c, k) == IF c + k - 1 < WindowSize THEN c + k - 1 ELSE c + k - 1 - WindowSize

\* Slot by slot, what the queue of the refinement is.
LEMMA QueueIs ==
    ASSUME IInv
    PROVE  /\ Queue \in Seq(Int) /\ DOMAIN Queue = 1..Of /\ Len(Queue) = Of
           /\ steady_state => \A k \in 1..Of : Queue[k] = window[Slot(current_index, k)]
           /\ ~steady_state => Of = current_index /\ \A k \in 1..Of : Queue[k] = window[k - 1]
<1>1. /\ WindowSize \in Nat \ {0} /\ current_index \in 0..(WindowSize - 1)
      /\ Of \in Nat /\ LastTime \in Nat
      /\ window \in [0..(WindowSize - 1) -> -1..(LastTime + 1)]
      /\ steady_state => Of = WindowSize
      /\ ~steady_state => Of = current_index
  BY Places DEF IInv, Counting, TypeOK
<1>2. \A j \in 0..(WindowSize - 1) : window[j] \in Int
  BY <1>1
<1>3. CASE steady_state
  <2>1. Queue = [k \in 1..WindowSize |-> window[Slot(current_index, k)]]
    BY <1>3 DEF Queue, Slot
  <2>2. \A k \in 1..WindowSize : Slot(current_index, k) \in 0..(WindowSize - 1)
    BY <1>1 DEF Slot
  <2>3. Queue \in [1..WindowSize -> Int]
    BY <1>2, <2>1, <2>2
  <2> QED  BY <1>1, <1>3, <2>1, <2>3
<1>4. CASE ~steady_state
  <2>1. Queue = [k \in 1..current_index |-> window[k - 1]]
    BY <1>4 DEF Queue
  <2>2. \A k \in 1..current_index : k - 1 \in 0..(WindowSize - 1)
    BY <1>1
  <2>3. Queue \in [1..current_index -> Int] /\ current_index \in Nat
    BY <1>1, <1>2, <2>1, <2>2
  <2> QED  BY <1>1, <1>4, <2>1, <2>3
<1> QED  BY <1>3, <1>4

\* An interval enters at the end of the queue, and the oldest leaves a full one.
LEMMA QueueMoves ==
    ASSUME IInv, IInv', NEW t \in Threads, Later(t)
    PROVE  /\ ~steady_state => /\ Of' = Of + 1 /\ Of + 1 <= WindowSize
                               /\ Queue'[Of + 1] = Interval(t)
                               /\ \A k \in 1..Of : Queue'[k] = Queue[k]
           /\ steady_state => /\ Of' = Of /\ Of = WindowSize
                              /\ Queue'[Of] = Interval(t)
                              /\ \A k \in 1..(Of - 1) : Queue'[k] = Queue[k + 1]
<1> DEFINE v  == Interval(t)
           ci == current_index
<1>1. /\ current_index' = IF ci + 1 = WindowSize THEN 0 ELSE ci + 1
      /\ steady_state' = (steady_state \/ ci + 1 = WindowSize)
      /\ last_average_time' = Average(v)
  BY DEF Later, hb_window_average, Turns
<1>2. /\ window'[ci] = v
      /\ \A j \in 0..(WindowSize - 1) : j # ci => window'[j] = window[j]
  BY LaterFacts
<1>3. /\ WindowSize \in Nat \ {0} /\ ci \in 0..(WindowSize - 1) /\ Of \in Nat
      /\ steady_state \in BOOLEAN
      /\ steady_state => Of = WindowSize
      /\ ~steady_state => Of = ci
  BY Places DEF IInv, Counting, TypeOK
<1>4. Of' = IF steady_state THEN WindowSize ELSE ci + 1
  BY <1>1 DEF Average, Of
<1>5. /\ steady_state => \A k \in 1..Of : Queue[k] = window[Slot(ci, k)]
      /\ ~steady_state => \A k \in 1..Of : Queue[k] = window[k - 1]
  BY QueueIs
<1>6. /\ steady_state' => \A k \in 1..Of' : Queue'[k] = window'[Slot(current_index', k)]
      /\ ~steady_state' => \A k \in 1..Of' : Queue'[k] = window'[k - 1]
  <2>1. (steady_state => \A k \in 1..Of : Queue[k] = window[Slot(current_index, k)])'
    BY QueueIs, PTL
  <2>2. (~steady_state => \A k \in 1..Of : Queue[k] = window[k - 1])'
    BY QueueIs, PTL
  <2> QED  BY <2>1, <2>2 DEF Slot
<1> HIDE DEF v, ci
<1>7. CASE ~steady_state
  <2>1. Of = ci /\ Of' = Of + 1 /\ Of + 1 <= WindowSize
    BY <1>3, <1>4, <1>7
  <2>2. \A k \in 1..Of' : Queue'[k] = window'[k - 1]
    <3>1. CASE ci + 1 = WindowSize
      <4>1. steady_state' /\ current_index' = 0
        BY <1>1, <3>1
      <4>2. \A k \in 1..Of' : Slot(0, k) = k - 1
        BY <1>3, <2>1, <3>1 DEF Slot
      <4> QED  BY <1>6, <4>1, <4>2
    <3>2. CASE ci + 1 # WindowSize
      BY <1>1, <1>6, <1>7, <3>2
    <3> QED  BY <3>1, <3>2
  <2>3. Queue'[Of + 1] = v
    <3>1. Of + 1 \in 1..Of' /\ (Of + 1) - 1 = ci
      BY <1>3, <2>1
    <3> QED  BY <1>2, <2>2, <3>1
  <2>4. \A k \in 1..Of : Queue'[k] = Queue[k]
    <3> SUFFICES ASSUME NEW k \in 1..Of PROVE Queue'[k] = Queue[k]
      OBVIOUS
    <3>1. k \in 1..Of' /\ k - 1 \in 0..(WindowSize - 1) /\ k - 1 # ci
      BY <1>3, <2>1
    <3> QED  BY <1>2, <1>5, <1>7, <2>2, <3>1
  <2> QED  BY <1>7, <2>1, <2>3, <2>4 DEF v
<1>8. CASE steady_state
  <2>1. Of = WindowSize /\ Of' = Of
    BY <1>3, <1>4, <1>8
  <2>2. \A k \in 1..Of : Queue'[k] = window'[Slot(current_index', k)]
    BY <1>1, <1>6, <1>8, <2>1
  <2>3. /\ Slot(current_index', WindowSize) = ci
        /\ \A k \in 1..(WindowSize - 1) : /\ Slot(current_index', k) = Slot(ci, k + 1)
                                          /\ Slot(ci, k + 1) \in 0..(WindowSize - 1)
                                          /\ Slot(ci, k + 1) # ci
    <3>1. CASE ci + 1 = WindowSize
      <4>1. current_index' = 0
        BY <1>1, <3>1
      <4> QED  BY <1>3, <3>1, <4>1 DEF Slot
    <3>2. CASE ci + 1 # WindowSize
      <4>1. current_index' = ci + 1
        BY <1>1, <3>2
      <4> QED  BY <1>3, <3>2, <4>1 DEF Slot
    <3> QED  BY <3>1, <3>2
  <2>4. Queue'[Of] = v
    <3>1. Of \in 1..Of
      BY <1>3, <2>1
    <3> QED  BY <1>2, <2>1, <2>2, <2>3, <3>1
  <2>5. \A k \in 1..(Of - 1) : Queue'[k] = Queue[k + 1]
    <3> SUFFICES ASSUME NEW k \in 1..(Of - 1) PROVE Queue'[k] = Queue[k + 1]
      OBVIOUS
    <3>1. k \in 1..Of /\ k + 1 \in 1..Of /\ k \in 1..(WindowSize - 1)
      BY <1>3, <2>1
    <3>2. Queue'[k] = window'[Slot(ci, k + 1)] /\ Queue[k + 1] = window[Slot(ci, k + 1)]
      BY <1>5, <1>8, <2>2, <2>3, <3>1
    <3> QED  BY <1>2, <2>3, <3>1, <3>2
  <2> QED  BY <1>8, <2>1, <2>4, <2>5 DEF v
<1> QED  BY <1>3, <1>7, <1>8

\* The average is the sum of the queue.
QueueSummed == last_average_time.time = SumFunctionOnSet(Queue, 1..Of)

\* The sum that is kept up to date stays that of the queue, when one interval leaves.
LEMMA SummedAfterLater ==
    ASSUME IInv, IInv', QueueSummed, NEW t \in Threads, Later(t)
    PROVE  QueueSummed'
<1> DEFINE v == Interval(t)
           q == Queue
           r == Queue'
<1>1. /\ q \in Seq(Int) /\ DOMAIN q = 1..Of /\ Of \in Nat /\ WindowSize \in Nat \ {0}
      /\ \A k \in 1..Of : q[k] \in Int
  <2>1. q \in Seq(Int) /\ DOMAIN q = 1..Of
    BY QueueIs
  <2> QED  BY <2>1, Places DEF IInv
<1>2. v \in Int /\ LastTime \in Nat
  <2>1. v \in 0..(LastTime + 1) /\ LastTime \in Nat
    BY LaterFacts, HeartRateAssumption
  <2> QED  BY <2>1
<1>3. /\ last_average_time'.time = last_average_time.time + v
            - (IF current_index \in Filled THEN window[current_index] ELSE 0)
      /\ current_index \in Filled <=> steady_state
      /\ last_average_time.time \in Int
      /\ steady_state \in BOOLEAN
  <2>1. last_average_time'.time = last_average_time.time + v
            - (IF current_index \in Filled THEN window[current_index] ELSE 0)
    BY LaterFacts
  <2>2. current_index \in Filled <=> steady_state
    BY Places DEF IInv
  <2>3. last_average_time.time \in Nat /\ steady_state \in BOOLEAN
    BY DEF IInv, TypeOK
  <2>4. last_average_time.time \in Int
    BY <2>3
  <2> QED  BY <2>1, <2>2, <2>3, <2>4
<1>4. last_average_time.time = SumFunctionOnSet(q, 1..Of)
  BY DEF QueueSummed
<1>5. /\ ~steady_state => /\ Of' = Of + 1
                          /\ r[Of + 1] = v /\ \A k \in 1..Of : r[k] = q[k]
      /\ steady_state => /\ Of' = Of /\ Of = WindowSize
                         /\ r[Of] = v /\ \A k \in 1..(Of - 1) : r[k] = q[k + 1]
  BY QueueMoves
<1>6. steady_state => q[1] = window[current_index]
  <2> SUFFICES ASSUME steady_state PROVE q[1] = window[current_index]
    OBVIOUS
  <2>1. 1 \in 1..Of /\ q[1] = window[Slot(current_index, 1)]
    BY <1>1, <1>5, QueueIs
  <2>2. Slot(current_index, 1) = current_index
    BY Places DEF IInv, Slot
  <2> QED  BY <2>1, <2>2
<1> HIDE DEF v, q, r
<1>7. CASE ~steady_state
  <2>1. r[Of + 1] = v /\ \A k \in 1..Of : r[k] = q[k]
    BY <1>5, <1>7
  <2>2. SumFunctionOnSet(r, 1..(Of + 1)) = SumFunctionOnSet(q, 1..Of) + r[Of + 1]
    <3>1. r[Of + 1] \in Int
      BY <1>2, <2>1
    <3> QED  BY <1>1, <2>1, <3>1, SumOfNext
  <2>3. last_average_time'.time = last_average_time.time + v
    BY <1>2, <1>3, <1>7
  <2>4. last_average_time'.time = SumFunctionOnSet(r, 1..(Of + 1))
    BY <1>4, <2>1, <2>2, <2>3
  <2> QED  BY <1>5, <1>7, <2>4 DEF QueueSummed, r
<1>8. CASE steady_state
  <2> DEFINE n == Of - 1
  <2>1. n \in Nat /\ n + 1 = Of
    BY <1>1, <1>5, <1>8
  <2>2. SumFunctionOnSet(q, 1..(n + 1)) = q[1] + SumFunctionOnSet(r, 1..n)
    <3>1. \A k \in 1..(n + 1) : q[k] \in Int
      BY <1>1, <2>1
    <3>2. \A k \in 1..n : r[k] = q[k + 1]
      BY <1>5, <1>8
    <3> HIDE DEF n
    <3> QED  BY <2>1, <3>1, <3>2, SumOfRest
  <2>3. r[Of] = v /\ r[Of] \in Int
    BY <1>2, <1>5, <1>8
  <2>4. \A k \in 1..n : r[k] \in Int
    <3>1. \A k \in 1..n : k + 1 \in 1..Of
      BY <2>1
    <3> QED  BY <1>1, <1>5, <1>8, <3>1
  <2>5. /\ SumFunctionOnSet(r, 1..n) \in Int
        /\ SumFunctionOnSet(r, 1..(n + 1)) = SumFunctionOnSet(r, 1..n) + r[n + 1]
    <3>1. r[n + 1] \in Int
      BY <2>1, <2>3
    <3> HIDE DEF n
    <3> QED  BY <2>1, <2>4, <3>1, SumOfNext
  <2> HIDE DEF n
  <2>7. SumFunctionOnSet(r, 1..Of) = SumFunctionOnSet(r, 1..n) + v
    BY <2>1, <2>3, <2>5
  <2>8. last_average_time.time = q[1] + SumFunctionOnSet(r, 1..n)
    BY <1>4, <2>1, <2>2
  <2>9. /\ last_average_time'.time = last_average_time.time + v - q[1]
        /\ q[1] \in Int /\ SumFunctionOnSet(r, 1..n) \in Int
    <3>1. 1 \in 1..Of
      BY <1>1, <1>5, <1>8
    <3> QED  BY <1>1, <1>3, <1>6, <1>8, <2>5, <3>1
  <2>10. last_average_time'.time = SumFunctionOnSet(r, 1..Of)
    BY <1>2, <2>7, <2>8, <2>9
  <2> QED  BY <1>5, <1>8, <2>10 DEF QueueSummed, r
<1> QED  BY <1>3, <1>7, <1>8

\* A later beat is a step of SlidingWindow.
LEMMA LaterSlides ==
    ASSUME IInv, IInv', QueueSummed, NEW t \in Threads, Later(t)
    PROVE  Sliding!Step
<1> DEFINE v == Interval(t)
           q == Queue
           r == Queue'
<1>1. /\ q \in Seq(Int) /\ DOMAIN q = 1..Of /\ Len(q) = Of
      /\ Of \in Nat /\ WindowSize \in Nat \ {0} /\ Of <= WindowSize /\ steady_state \in BOOLEAN
  BY QueueIs, Places DEF IInv, TypeOK
<1>2. r \in Seq(Int) /\ DOMAIN r = 1..Of' /\ Len(r) = Of'
  <2>1. (Queue \in Seq(Int) /\ DOMAIN Queue = 1..Of /\ Len(Queue) = Of)'
    BY QueueIs, PTL
  <2> QED  BY <2>1
<1>3. v \in Int
  <2>1. v \in 0..(LastTime + 1) /\ LastTime \in Nat
    BY LaterFacts, HeartRateAssumption
  <2> QED  BY <2>1
<1>4. /\ ~steady_state => /\ Of' = Of + 1 /\ Of + 1 <= WindowSize
                          /\ r[Of + 1] = v /\ \A k \in 1..Of : r[k] = q[k]
      /\ steady_state => /\ Of' = Of /\ Of = WindowSize
                         /\ r[Of] = v /\ \A k \in 1..(Of - 1) : r[k] = q[k + 1]
  BY QueueMoves
<1>5. last_average_time' = [time |-> SumFunctionOnSet(r, DOMAIN r), of |-> Len(r)]
  <2>1. last_average_time' = Average(v)
    BY DEF Later, hb_window_average
  <2>2. last_average_time' = [time |-> last_average_time'.time, of |-> last_average_time'.of]
    BY <2>1 DEF Average
  <2>3. QueueSummed'
    BY SummedAfterLater
  <2>4. last_average_time'.time = SumFunctionOnSet(r, 1..Of') /\ last_average_time'.of = Of'
    BY <2>3 DEF QueueSummed, Of
  <2> QED  BY <1>2, <2>2, <2>4
<1>6. last_average_time' = [time |-> Sliding!SumFunction(r), of |-> Len(r)]
  <2>1. Sliding!SumFunction(r) = SumFunctionOnSet(r, DOMAIN r)
    <3> HIDE DEF r
    <3> QED  BY SumOfInstance
  <2> QED  BY <1>5, <2>1
<1> HIDE DEF v, q, r
<1>7. r # << >> /\ r[Len(r)] = v /\ r = Sliding!LastOnes(Append(q, v))
  <2>1. /\ Append(q, v) \in Seq(Int) /\ Len(Append(q, v)) = Of + 1
        /\ \A k \in 1..Of : Append(q, v)[k] = q[k]
        /\ Append(q, v)[Of + 1] = v
    BY <1>1, <1>3
  <2> DEFINE a == Append(q, v)
  <2> HIDE DEF a
  <2>2. CASE ~steady_state
    <3>1. Sliding!LastOnes(a) = a
      BY <1>1, <1>4, <2>1, <2>2 DEF Sliding!LastOnes, a
    <3>2. Len(r) = Len(a) /\ \A k \in 1..Len(a) : r[k] = a[k]
      BY <1>1, <1>2, <1>4, <2>1, <2>2 DEF a
    <3>3. r = a
      BY <1>2, <2>1, <3>2 DEF a
    <3> QED  BY <1>1, <1>2, <1>4, <2>2, <3>1, <3>3 DEF a
  <2>3. CASE steady_state
    <3>1. Sliding!LastOnes(a) = Tail(a)
      BY <1>1, <1>4, <2>1, <2>3 DEF Sliding!LastOnes, a
    <3>2. /\ Tail(a) \in Seq(Int) /\ Len(Tail(a)) = Of
          /\ \A k \in 1..Of : Tail(a)[k] = a[k + 1]
      <4>1. a \in Seq(Int) /\ Len(a) = Of + 1 /\ Of \in Nat
        BY <1>1, <2>1 DEF a
      <4> QED  BY <4>1
    <3>3. \A k \in 1..Of : r[k] = a[k + 1]
      <4> SUFFICES ASSUME NEW k \in 1..Of PROVE r[k] = a[k + 1]
        OBVIOUS
      <4>1. CASE k = Of
        BY <1>4, <2>1, <2>3, <4>1 DEF a
      <4>2. CASE k # Of
        <5>1. k \in 1..(Of - 1) /\ k + 1 \in 1..Of
          BY <1>1, <4>2
        <5> QED  BY <1>4, <2>1, <2>3, <5>1 DEF a
      <4> QED  BY <4>1, <4>2
    <3>4. r = Tail(a)
      BY <1>2, <1>4, <2>3, <3>2, <3>3
    <3> QED  BY <1>1, <1>2, <1>4, <2>3, <3>1, <3>4 DEF a
  <2> QED  BY <1>1, <2>2, <2>3
<1> QED  BY <1>6, <1>7 DEF Sliding!Step, Sliding!Enter, q, r

\* Any other step leaves the queue and the average.
LEMMA OthersStutter ==
    ASSUME IInv, [Next]_vars, ~ \E t \in Threads : Later(t)
    PROVE  UNCHANGED <<Queue, last_average_time>>
<1>1. CASE UNCHANGED private
  BY <1>1 DEF private, Queue
<1>2. CASE \E t \in Threads : First(t)
  <2>1. PICK t \in Threads : First(t)
    BY <1>2
  <2>2. /\ first_timestamp = -1
        /\ UNCHANGED <<current_index, steady_state, last_average_time>>
    BY <2>1 DEF First
  <2>3. ~steady_state /\ current_index = 0 /\ N \in Nat
    BY <2>2, Places DEF IInv, Counting
  <2>4. Queue = [k \in 1..0 |-> window[k - 1]] /\ Queue' = [k \in 1..0 |-> window'[k - 1]]
    BY <2>2, <2>3 DEF Queue
  <2>5. Queue' = Queue
    <3>1. 1..0 = {}
      OBVIOUS
    <3> QED  BY <2>4, <3>1
  <2> QED  BY <2>2, <2>5
<1> QED  BY <1>1, <1>2 DEF Next, Done, Tick, ReadLast, ReadClock, vars

\* However threads overlap, the average that is kept up to date is the mean of the last
\* WindowSize intervals (hb_window_average, heartbeat-shared.c:239-275): the code
\* implements SlidingWindow.
THEOREM Refinement == Spec => SlidingSpec
<1>1. Init => Sliding!Init /\ QueueSummed
  <2> SUFFICES ASSUME Init PROVE Sliding!Init /\ QueueSummed
    OBVIOUS
  <2>1. Queue = [k \in 1..0 |-> window[k - 1]]
    BY DEF Init, Queue
  <2>2. 1..0 = {}
    OBVIOUS
  <2>3. Queue = << >>
    BY <2>1, <2>2
  <2>4. QueueSummed
    BY <2>2, SumEmpty DEF Init, QueueSummed, Of
  <2> QED  BY <2>3, <2>4 DEF Init, Sliding!Init
<1>2. ASSUME IInv, IInv', QueueSummed, [Next]_vars
      PROVE  QueueSummed' /\ [Sliding!Step]_<<Queue, last_average_time>>
  <2>1. CASE \E t \in Threads : Later(t)
    BY <1>2, <2>1, SummedAfterLater, LaterSlides
  <2>2. CASE ~ \E t \in Threads : Later(t)
    <3>1. UNCHANGED <<Queue, last_average_time>>
      BY <1>2, <2>2, OthersStutter
    <3> QED  BY <1>2, <3>1 DEF QueueSummed, Of
  <2> QED  BY <2>1, <2>2
<1> QED  BY <1>1, <1>2, Invariance, PTL DEF Spec, SlidingSpec, Sliding!Spec
=============================================================================
