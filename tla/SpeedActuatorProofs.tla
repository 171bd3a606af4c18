------------------------- MODULE SpeedActuatorProofs -------------------------
(***************************************************************************)
(* The machine speed actuator, for every machine and every wanted speed.   *)
(*                                                                         *)
(* machine_speed_act implements a neighbour of the wanted speed, for every *)
(* table: its loop and the function LastProbe take the same turns.  The    *)
(* table that machine_speed_init leaves is one the search can work on, and *)
(* the filter, which compares neighbours of the sorted list only, keeps    *)
(* nothing that another state beats and, after a stable sort, loses        *)
(* nothing that is worth its power.  Together: no assignment of            *)
(* frequencies worth its power lies between what was asked for and what is *)
(* implemented.  And what powerstates prints of the same list is the table *)
(* with all options; with any of them, every line is printed again when    *)
(* the output is read and sorted again; and two passes lose nothing worth  *)
(* its power.                                                              *)
(***************************************************************************)
EXTENDS Powerstates, SpeedTableProofs

(* The search *)

Last == LastOf(table)

\* Where the loop is on its way to the last probe.
OnTheWay == /\ f \in 0..Last /\ t \in 0..Last /\ f <= t
            /\ ProbesOf(table, set_value)[<<f, t>>] = LastProbe(table, set_value)

IInv ==
    /\ Table(table, Last)
    /\ TypeOK
    /\ pc = "probe" => OnTheWay
    /\ pc = "settle" => i = LastProbe(table, set_value)
    /\ FunctionAgrees

\* The start of a search.
LEMMA Begins ==
    ASSUME NEW T, NEW v, Table(T, LastOf(T))
    PROVE  /\ LastOf(T) \in Nat /\ 0 <= LastOf(T)
           /\ ProbesOf(T, v)[<<0, LastOf(T)>>] = LastProbe(T, v)
<1>1. LastOf(T) \in Nat
  BY DEF Table
<1>2. ProbesOf(T, v)[<<0, LastOf(T)>>] = LastProbe(T, v)
  BY LastProbeByRecursion
<1> QED
  BY <1>1, <1>2

\* The loop begins with the whole table.
LEMMA InitInvariant == Init => IInv
<1> SUFFICES ASSUME Init PROVE IInv
  OBVIOUS
<1>1. Table(table, Last) /\ set_value \in Int
  BY MachineSpeedAssumption DEF Init, Last, Table
<1>2. Last \in Nat /\ table \in [0..Last -> Nat]
  BY <1>1 DEF Table
<1>3. ProbesOf(table, set_value)[<<0, Last>>] = LastProbe(table, set_value)
  BY <1>1, Begins DEF Last
<1>4. OnTheWay
  BY <1>2, <1>3 DEF Init, OnTheWay, Last
<1> QED
  BY <1>1, <1>2, <1>4 DEF Init, IInv, TypeOK, FunctionAgrees, Last

\* One turn of the loop is one step of the recursion.
LEMMA ProbeStep == ASSUME IInv, Probe PROVE IInv'
<1> DEFINE n == Last
           T == table
           v == set_value
           S == ProbesOf(T, v)
<1>1. /\ Table(T, n) /\ n \in Nat /\ T \in [0..n -> Nat] /\ v \in Int
      /\ f \in 0..n /\ t \in 0..n /\ f <= t /\ S[<<f, t>>] = LastProbe(T, v)
  BY DEF IInv, TypeOK, Table, Probe, OnTheWay
<1>2. n' = n /\ T' = T /\ v' = v /\ state' = state
  BY DEF Probe, Last
<1>i. i' = (t + f) \div 2
  BY DEF Probe
<1> HIDE DEF n
<1>m. (t + f) \div 2 \in 0..n /\ f <= (t + f) \div 2 /\ (t + f) \div 2 <= t
  BY <1>1
<1>p. PICK p \in 0..n : p = (f + t) \div 2 /\ p = i' /\ f <= p /\ p <= t
  BY <1>1, <1>i, <1>m
<1>3. T[p] \in Nat
  BY <1>1
<1>4. /\ f' = IF T[p] < v THEN p + 1 ELSE f
      /\ t' = IF T[p] > v THEN p - 1 ELSE t
      /\ pc' = IF T[p] # v /\ f' < t' THEN "probe" ELSE "settle"
  BY <1>p DEF Probe
<1>5. S[<<f, t>>] = CASE T[p] < v /\ p + 1 < t -> S[<<p + 1, t>>]
                      [] T[p] > v /\ f < p - 1 -> S[<<f, p - 1>>]
                      [] OTHER -> p
  <2>1. S[<<f, t>>] = Cut(T, v, S, <<f, t>>)
    BY <1>1, SearchCuts
  <2>2. Cut(T, v, S, <<f, t>>) = CASE T[p] < v /\ p + 1 < t -> S[<<p + 1, t>>]
                                   [] T[p] > v /\ f < p - 1 -> S[<<f, p - 1>>]
                                   [] OTHER -> p
    <3> HIDE DEF T, v, S
    <3> QED  BY <1>p DEF Cut
  <2> QED  BY <2>1, <2>2
<1>z. /\ n \in Int /\ p \in Int /\ f \in Int /\ t \in Int /\ v \in Int /\ T[p] \in Int
      /\ 0 <= f /\ t <= n /\ f <= p /\ p <= t
  BY <1>1, <1>p, <1>3
<1> HIDE DEF T, v, S
<1>c. ASSUME f' \in 0..(n + 1), t' \in -1..n, pc' \in {"probe", "settle"}
      PROVE  Table(table, Last)' /\ TypeOK' /\ FunctionAgrees'
  <2>1. Table(table, Last)'
    BY <1>1, <1>2 DEF T, n, Last, Table, Increasing
  <2>2. state \in 0..n
    BY DEF IInv, TypeOK, n, Last
  <2>3. TypeOK'
    BY <1>1, <1>2, <1>p, <1>c, <2>2 DEF TypeOK, T, v, n, Last
  <2> QED  BY <1>c, <2>1, <2>3 DEF FunctionAgrees
<1>6. CASE T[p] < v /\ p + 1 < t
  <2>1. f' = p + 1 /\ t' = t /\ pc' = "probe"
    BY <1>z, <1>4, <1>6
  <2>2. S[<<f', t'>>] = LastProbe(T, v)
    BY <1>1, <1>5, <1>6, <2>1
  <2>3. f' \in 0..n /\ t' \in 0..n /\ f' <= t'
    BY <1>z, <1>6, <2>1
  <2>4. OnTheWay'
    BY <1>2, <2>2, <2>3 DEF OnTheWay, n, T, v, S
  <2>5. f' \in 0..(n + 1) /\ t' \in -1..n
    BY <1>z, <2>3
  <2> QED  BY <1>c, <2>1, <2>4, <2>5 DEF IInv
<1>7. CASE T[p] > v /\ f < p - 1
  <2>1. f' = f /\ t' = p - 1 /\ pc' = "probe"
    BY <1>z, <1>4, <1>7
  <2>2. S[<<f', t'>>] = LastProbe(T, v)
    BY <1>1, <1>3, <1>5, <1>7, <2>1
  <2>3. f' \in 0..n /\ t' \in 0..n /\ f' <= t'
    BY <1>z, <1>7, <2>1
  <2>4. OnTheWay'
    BY <1>2, <2>2, <2>3 DEF OnTheWay, n, T, v, S
  <2>5. f' \in 0..(n + 1) /\ t' \in -1..n
    BY <1>z, <2>3
  <2> QED  BY <1>c, <2>1, <2>4, <2>5 DEF IInv
<1>8. CASE ~(T[p] < v /\ p + 1 < t) /\ ~(T[p] > v /\ f < p - 1)
  <2>1. f' \in 0..(n + 1) /\ t' \in -1..n /\ pc' = "settle"
    BY <1>z, <1>4, <1>8
  <2>2. p = LastProbe(T, v)
    BY <1>1, <1>5, <1>8
  <2>3. (i = LastProbe(table, set_value))'
    BY <1>2, <1>p, <2>2 DEF T, v
  <2> QED  BY <1>c, <2>1, <2>3 DEF IInv
<1> QED  BY <1>6, <1>7, <1>8

\* The neighbour is looked at as in the function.
LEMMA SettleStep == ASSUME IInv, Settle PROVE IInv'
<1>1. /\ Table(table, Last) /\ set_value \in Int /\ i = LastProbe(table, set_value)
      /\ TypeOK
  BY DEF IInv, TypeOK, Settle
<1>2. UNCHANGED <<table, set_value, f, t, i, Last>> /\ pc' = "done"
  BY DEF Settle, Last
<1>3. state' = Implemented(table, set_value)
  BY <1>1 DEF Settle, Implemented
<1>4. state' \in 0..Last
  BY <1>1, <1>3, ImplementedRight
<1>5. FunctionAgrees'
  BY <1>2, <1>3 DEF FunctionAgrees
<1> QED
  BY <1>1, <1>2, <1>4, <1>5 DEF IInv, TypeOK, Last

\* The steps of a search.
LEMMA Induction == IInv /\ [Next]_vars => IInv'
<1> SUFFICES ASSUME IInv, [Next]_vars PROVE IInv'
  OBVIOUS
<1>1. CASE Probe
  BY <1>1, ProbeStep
<1>2. CASE Settle
  BY <1>2, SettleStep
<1>3. CASE UNCHANGED vars
  BY <1>3 DEF vars, IInv, Last, Table, Increasing, TypeOK, OnTheWay, FunctionAgrees
<1> QED
  BY <1>1, <1>2, <1>3 DEF Next, Done

\* The search gives a neighbour of the wanted speed.
LEMMA NoneBetweenHere == ASSUME IInv PROVE NothingBetween
<1>1. Table(table, Last) /\ set_value \in Int /\ DOMAIN table = 0..Last
  BY DEF IInv, TypeOK, Last
<1>2. NoneBetween(table, Last, set_value, Implemented(table, set_value))
  BY <1>1, ImplementedRight
<1>3. SUFFICES ASSUME pc = "done", NEW k \in 0..Last
               PROVE  ~ \/ table[state] < table[k] /\ table[k] <= set_value
                        \/ set_value <= table[k] /\ table[k] < table[state]
  BY <1>1 DEF NothingBetween
<1>4. state = Implemented(table, set_value)
  BY <1>3 DEF IInv, FunctionAgrees
<1>5. NoneBetween(table, Last, set_value, state)
  BY <1>2, <1>4
<1> QED  BY <1>5 DEF NoneBetween

\* The loop takes the turns of the function, for every table it may be given.
THEOREM Invariance == Spec => []IInv
BY InitInvariant, Induction, PTL DEF Spec

\* For every table and every wanted speed, the loop of machine_speed_act
\* (combined.c:364-379) implements what the function of SpeedTable gives.
THEOREM FunctionOfLoop == Spec => []FunctionAgrees
<1>1. IInv => FunctionAgrees
  BY DEF IInv
<1> QED
  BY <1>1, Invariance, PTL

\* For every table and every wanted speed, the state implemented is the next one
\* below or the next one above it (combined.c:364-379).
THEOREM SearchCorrect == Spec => []NothingBetween
BY Invariance, NoneBetweenHere, PTL

\* The search never leaves the table, and its interval keeps its bounds.
THEOREM SearchTyping == Spec => []TypeOK
<1>1. IInv => TypeOK
  BY DEF IInv
<1> QED
  BY <1>1, Invariance, PTL
-----------------------------------------------------------------------------
(* Sums, and the machine states *)
\* Two functions that differ at two elements have the rest of their sums in common.
LEMMA SumsButTwo ==
    ASSUME NEW g, NEW h, NEW S, IsFiniteSet(S), NEW a \in S, NEW b \in S, a # b,
           \A x \in S : g[x] \in Int /\ h[x] \in Int,
           \A x \in S \ {a, b} : h[x] = g[x]
    PROVE  \E r \in Int : /\ SumFunctionOnSet(g, S) = g[a] + (g[b] + r)
                          /\ SumFunctionOnSet(h, S) = h[a] + (h[b] + r)
<1> DEFINE R == (S \ {a}) \ {b}
<1>1. IsFiniteSet(S \ {a}) /\ IsFiniteSet(R)
  BY FS_Subset
<1>2. \A k \in {g, h} : SumFunctionOnSet(k, S) = k[a] + (k[b] + SumFunctionOnSet(k, R))
  <2> TAKE k \in {g, h}
  <2>1. SumFunctionOnSet(k, S) = k[a] + SumFunctionOnSet(k, S \ {a})
    BY <1>1, SumRemove
  <2>2. SumFunctionOnSet(k, S \ {a}) = k[b] + SumFunctionOnSet(k, R)
    BY <1>1, SumRemove
  <2> QED  BY <2>1, <2>2
<1>3. SumFunctionOnSet(g, R) = SumFunctionOnSet(h, R)
  BY <1>1, SumOfEqual
<1>4. SumFunctionOnSet(g, R) \in Int
  BY <1>1, SumType
<1> QED  BY <1>2, <1>3, <1>4

\* Two numbers that change places leave the sum as it is.
LEMMA SumOfSwap ==
    ASSUME NEW g, NEW h, NEW S, IsFiniteSet(S), NEW a \in S, NEW b \in S, a # b,
           \A x \in S : g[x] \in Int, h[a] = g[b], h[b] = g[a],
           \A x \in S \ {a, b} : h[x] = g[x]
    PROVE  SumFunctionOnSet(h, S) = SumFunctionOnSet(g, S)
<1>1. \A x \in S : g[x] \in Int /\ h[x] \in Int
  OBVIOUS
<1>2. PICK r \in Int : /\ SumFunctionOnSet(g, S) = g[a] + (g[b] + r)
                       /\ SumFunctionOnSet(h, S) = h[a] + (h[b] + r)
  BY <1>1, SumsButTwo, SMTT(30)
<1>3. g[a] \in Int /\ g[b] \in Int
  OBVIOUS
<1> QED  BY <1>2, <1>3
-----------------------------------------------------------------------------
(* The machine states *)

All == MS!create_machine_states

\* The sum of the frequencies of an assignment, and its cores that are on.
Total(core) == SumFunctionOnSet(core, DOMAIN core)
On(core)    == {c \in DOMAIN core : core[c] > 0}

Assignments == [MS!Cores -> MS!Range(machine.freqs) \cup {0}]

\* The sum of the instance is the same.
LEMMA SumOfInstance ==
    ASSUME NEW core
    PROVE  MS!SumFunction(core) = Total(core)
<1>1. MS!SumFunction(core) = (CHOOSE r : Sums(core, DOMAIN core, r))[DOMAIN core]
  BY DEF MS!SumFunction, MS!SumFunctionOnSet, MS!FoldFunctionOnSet, MS!MapThenFoldSet,
         Sums, SumStep, Pick
<1> QED  BY <1>1, SumByRecursion DEF Total

\* The speed and the power of a state.
LEMMA Properties ==
    ASSUME NEW core
    PROVE  MS!calculate_state_properties(core) =
             [core |-> core, speed |-> Total(core) \div 10000,
              power |-> (Total(core) + Cardinality(On(core)) * 1000000) \div 10000]
<1>1. MS!Cardinality({c \in DOMAIN core : core[c] > 0}) = Cardinality(On(core))
  BY DEF MS!Cardinality, Cardinality, On
<1> QED  BY <1>1, SumOfInstance, SMT DEF MS!calculate_state_properties

\* What a state is made of.
LEMMA StateFacts ==
    ASSUME MS!MachinesOK, machine \in Machines
    PROVE  /\ machine.cores \in Nat \ {0} /\ IsFiniteSet(MS!Cores) /\ MS!Cores \subseteq Nat
           /\ MS!Range(machine.freqs) \subseteq Nat \ {0}
           /\ \A core \in Assignments :
                 /\ MS!calculate_state_properties(core) \in All
                 /\ Total(core) \in Nat /\ Cardinality(On(core)) \in Nat
                 /\ IsFiniteSet(On(core))
           /\ \A s \in All : s.core \in Assignments /\ s = MS!calculate_state_properties(s.core)
<1>1. machine.cores \in Nat \ {0} /\ machine.freqs \in Seq(Nat \ {0})
  BY DEF MS!MachinesOK
<1>2. IsFiniteSet(MS!Cores) /\ MS!Cores \subseteq Nat
  <2>1. 0 \in Int /\ machine.cores - 1 \in Int
    BY <1>1
  <2>2. IsFiniteSet(0..(machine.cores - 1))
    BY <2>1, FS_Interval
  <2> QED  BY <2>2 DEF MS!Cores
<1>3. MS!Range(machine.freqs) \subseteq Nat \ {0}
  BY <1>1 DEF MS!Range
<1>4. ASSUME NEW core \in Assignments
      PROVE  /\ MS!calculate_state_properties(core) \in All
             /\ Total(core) \in Nat /\ Cardinality(On(core)) \in Nat
             /\ IsFiniteSet(On(core))
  <2>1. DOMAIN core = MS!Cores /\ \A c \in MS!Cores : core[c] \in Nat
    BY <1>3 DEF Assignments
  <2>2. MS!calculate_state_properties(core) \in All
    BY DEF All, MS!create_machine_states, Assignments
  <2>3. Total(core) \in Nat
    BY <1>2, <2>1, SumNat DEF Total
  <2>4. IsFiniteSet(On(core))
    BY <1>2, <2>1, FS_Subset DEF On
  <2> QED  BY <2>2, <2>3, <2>4, FS_CardinalityType
<1>5. ASSUME NEW s \in All
      PROVE  s.core \in Assignments /\ s = MS!calculate_state_properties(s.core)
  <2>1. PICK core \in Assignments : s = MS!calculate_state_properties(core)
    BY DEF All, MS!create_machine_states, Assignments
  <2>2. s.core = core
    BY <2>1, Properties, SMT
  <2> QED  BY <2>1, <2>2
<1> QED  BY <1>1, <1>2, <1>3, <1>4, <1>5

\* Both are natural numbers.
LEMMA StateTypes ==
    ASSUME MS!MachinesOK, machine \in Machines, NEW s \in All
    PROVE  s.speed \in Nat /\ s.power \in Nat
<1>1. /\ s.core \in Assignments /\ s = MS!calculate_state_properties(s.core)
      /\ Total(s.core) \in Nat /\ Cardinality(On(s.core)) \in Nat
  BY StateFacts
<1> DEFINE n == Total(s.core)  m == Cardinality(On(s.core))
<1>2. s.speed = n \div 10000 /\ s.power = (n + m * 1000000) \div 10000
  BY <1>1, Properties, SMT
<1> HIDE DEF n, m
<1>3. n \in Nat /\ m \in Nat
  BY <1>1 DEF n, m
<1>4. (n + m * 1000000) \in Nat
  BY <1>3, SMT
<1> QED  BY <1>2, <1>3, <1>4, SMT

\* A state that is faster than 0 has a core on.
LEMMA SomeCoreOn ==
    ASSUME MS!MachinesOK, machine \in Machines, NEW s \in All, s.speed > 0
    PROVE  \E c \in MS!Cores : s.core[c] > 0
<1>1. /\ s.core \in Assignments /\ s = MS!calculate_state_properties(s.core)
      /\ IsFiniteSet(MS!Cores)
  BY StateFacts
<1>2. SUFFICES ASSUME \A c \in MS!Cores : ~(s.core[c] > 0) PROVE FALSE
  OBVIOUS
<1>3. DOMAIN s.core = MS!Cores /\ \A c \in MS!Cores : s.core[c] = 0
  BY <1>1, <1>2, StateFacts DEF Assignments
<1>4. Total(s.core) = 0
  BY <1>1, <1>3, SumOfZeros DEF Total
<1>5. s.speed = 0 \div 10000
  BY <1>1, <1>4, Properties, SMT
<1> QED  BY <1>5, SMT

\* The state of the machine that is off.
LEMMA OffState ==
    ASSUME MS!MachinesOK, machine \in Machines
    PROVE  \E s \in All : s.speed = 0
<1> DEFINE core == [c \in MS!Cores |-> 0]
           s    == MS!calculate_state_properties(core)
<1>1. core \in Assignments
  BY DEF Assignments
<1>2. s \in All /\ IsFiniteSet(MS!Cores)
  BY <1>1, StateFacts
<1>3. Total(core) = 0
  BY <1>2, SumOfZeros DEF Total
<1>4. s.speed = 0 \div 10000
  BY <1>3, Properties, SMT
<1> HIDE DEF s
<1>5. s.speed = 0
  BY <1>4, SMT
<1> QED  BY <1>2, <1>5

\* A permutation that redundant_state drops: with two neighbours changed back the
\* state is as fast, and needs as much power.
LEMMA Swapped ==
    ASSUME MS!MachinesOK, machine \in Machines, NEW s \in All, NEW c \in MS!Cores, c > 0,
           s.core[c] > s.core[c - 1]
    PROVE  \E o \in All : /\ o.speed = s.speed /\ o.power = s.power
                          /\ o.core[c] = s.core[c - 1] /\ o.core[c - 1] = s.core[c]
                          /\ \A d \in MS!Cores \ {c - 1, c} : o.core[d] = s.core[d]
<1> DEFINE b    == c - 1
           g    == s.core
           h    == [d \in MS!Cores |-> IF d = c THEN g[b] ELSE IF d = b THEN g[c] ELSE g[d]]
           o    == MS!calculate_state_properties(h)
<1>1. /\ g \in Assignments /\ s = MS!calculate_state_properties(g)
      /\ IsFiniteSet(MS!Cores)
  BY StateFacts
<1>2. b \in MS!Cores /\ b # c
  BY StateFacts DEF MS!Cores
<1>3. g \in [MS!Cores -> Nat] /\ DOMAIN g = MS!Cores /\ DOMAIN h = MS!Cores
  BY <1>1, StateFacts DEF Assignments
<1>4. h[c] = g[b] /\ h[b] = g[c] /\ \A d \in MS!Cores \ {c, b} : h[d] = g[d]
  BY <1>2
<1>5. h \in Assignments
  BY <1>1, <1>2 DEF Assignments
<1> HIDE DEF h, b, g
<1>6. Total(h) = Total(g)
  <2>1. \A x \in MS!Cores : g[x] \in Int
    BY <1>3
  <2> QED  BY <1>1, <1>2, <1>3, <1>4, <2>1, SumOfSwap DEF Total
<1>7. Cardinality(On(h)) = Cardinality(On(g))
  <2>1. g[c] > 0 /\ g[b] \in Nat /\ g[c] \in Nat
    BY <1>2, <1>3 DEF b, g
  <2>2. CASE g[b] > 0
    <3>1. On(h) = On(g)
      BY <1>2, <1>3, <1>4, <2>1, <2>2 DEF On
    <3> QED  BY <3>1
  <2>3. CASE ~(g[b] > 0)
    <3>1. On(h) \ {b} = On(g) \ {c} /\ b \in On(h) /\ c \in On(g)
      BY <1>2, <1>3, <1>4, <2>1, <2>3 DEF On
    <3>2. /\ IsFiniteSet(On(h)) /\ IsFiniteSet(On(g))
          /\ Cardinality(On(h)) \in Nat /\ Cardinality(On(g)) \in Nat
      BY <1>1, <1>5, StateFacts
    <3>3. /\ Cardinality(On(h) \ {b}) = Cardinality(On(h)) - 1
          /\ Cardinality(On(g) \ {c}) = Cardinality(On(g)) - 1
      BY <3>1, <3>2, FS_RemoveElement
    <3>4. Cardinality(On(h) \ {b}) = Cardinality(On(g) \ {c})
      BY <3>1
    <3> HIDE DEF h, b, g
    <3> QED  BY <3>2, <3>3, <3>4
  <2> QED  BY <2>2, <2>3
<1>8. o \in All /\ o.core = h /\ o.speed = s.speed /\ o.power = s.power
  BY <1>1, <1>5, <1>6, <1>7, StateFacts, Properties, SMT
<1> QED  BY <1>4, <1>8 DEF b, g
-----------------------------------------------------------------------------
(* The order that qsort leaves, and what the filter keeps of it *)

\* a may come before b in the list.
Placed(a, b) == /\ ~MS!Before(b, a)
                /\ sort = "stable" /\ ~MS!Before(a, b) => MS!Generated(a, b)

InOrder == /\ \A p, q \in DOMAIN sorted : p < q => Placed(sorted[p], sorted[q])
           /\ \A p \in DOMAIN sorted : \A o \in unsorted : Placed(sorted[p], o)

\* The entries that the filter lets pass.
Kept(n) == /\ ~MS!redundant_state(sorted[n])
           /\ ~MS!drop_equivalent(n)
           /\ MS!pareto_optimal(n)
           /\ sorted[n].speed > 0

\* The table is what the filter has kept so far.
Filtered == /\ \A k \in DOMAIN states :
                  \E n \in DOMAIN sorted : n < in_state /\ Kept(n) /\ states[k] = sorted[n]
            /\ \A n \in DOMAIN sorted :
                  n < in_state /\ Kept(n) => \E k \in DOMAIN states : states[k] = sorted[n]

Phases ==
    /\ init_pc \in {"sort", "filter", "done"} /\ in_state \in Nat \ {0}
    /\ init_pc = "sort" => states = << >> /\ in_state = 1 /\ unsorted # {}
    /\ init_pc # "sort" => unsorted = {}
    /\ init_pc = "filter" => in_state \in DOMAIN sorted
    /\ init_pc = "done" => in_state = Len(sorted) + 1

BuildTypes ==
    /\ machine \in Machines /\ sort \in Sorts
    /\ sorted \in Seq(All) /\ unsorted \subseteq All
    /\ unsorted \cup MS!Range(sorted) = All
    /\ states \in Seq(All)

TableInv == BuildTypes /\ Phases /\ InOrder /\ Filtered /\ MS!TableIncreasing

\* The list is sorted by speed, equal speeds by decreasing power.
LEMMA ListOrder ==
    ASSUME TableInv
    PROVE  /\ Len(sorted) \in Nat /\ DOMAIN sorted = 1..Len(sorted)
           /\ \A p \in DOMAIN sorted : /\ sorted[p] \in All /\ p \in Nat
                                       /\ sorted[p].speed \in Nat /\ sorted[p].power \in Nat
           /\ \A p, q \in DOMAIN sorted : p < q =>
                 /\ sorted[p].speed <= sorted[q].speed
                 /\ sorted[p].speed = sorted[q].speed => sorted[p].power >= sorted[q].power
<1>1. sorted \in Seq(All) /\ machine \in Machines /\ MS!MachinesOK
  BY MachineStatesAssumption DEF TableInv, BuildTypes
<1>2. /\ Len(sorted) \in Nat /\ DOMAIN sorted = 1..Len(sorted)
      /\ \A p \in DOMAIN sorted : sorted[p] \in All /\ p \in Nat
  BY <1>1
<1>3. \A p \in DOMAIN sorted : sorted[p].speed \in Nat /\ sorted[p].power \in Nat
  BY <1>1, <1>2, StateTypes
<1>4. ASSUME NEW p \in DOMAIN sorted, NEW q \in DOMAIN sorted, p < q
      PROVE  /\ sorted[p].speed <= sorted[q].speed
             /\ sorted[p].speed = sorted[q].speed => sorted[p].power >= sorted[q].power
  <2>1. ~MS!Before(sorted[q], sorted[p])
    BY <1>4 DEF TableInv, InOrder, Placed
  <2> QED  BY <1>3, <2>1 DEF MS!Before
<1> QED  BY <1>2, <1>3, <1>4

\* The first entry of the list is the machine that is off.
LEMMA FirstIsOff ==
    ASSUME TableInv, sorted # << >>
    PROVE  1 \in DOMAIN sorted /\ sorted[1].speed = 0
<1>1. 1 \in DOMAIN sorted
  <2>1. sorted \in Seq(All)
    BY DEF TableInv, BuildTypes
  <2> QED  BY <2>1
<1>2. machine \in Machines /\ MS!MachinesOK
  BY MachineStatesAssumption DEF TableInv, BuildTypes
<1>3. PICK o \in All : o.speed = 0
  BY <1>2, OffState
<1>4. CASE o \in unsorted
  <2>1. ~MS!Before(o, sorted[1])
    BY <1>1, <1>4 DEF TableInv, InOrder, Placed
  <2>2. sorted[1].speed \in Nat
    BY <1>1, ListOrder
  <2> QED  BY <1>1, <1>3, <2>1, <2>2 DEF MS!Before
<1>5. CASE o \notin unsorted
  <2>1. o \in MS!Range(sorted)
    BY <1>3, <1>5 DEF TableInv, BuildTypes
  <2>2. PICK q \in DOMAIN sorted : o = sorted[q]
    BY <2>1 DEF MS!Range
  <2>3. q = 1 \/ sorted[1].speed <= sorted[q].speed
    BY <1>1, ListOrder
  <2> QED  BY <1>1, <1>3, <2>2, <2>3, ListOrder
<1> QED  BY <1>4, <1>5

\* The entries AsFast(n) have the speed of n.
LEMMA AsFastMeans ==
    ASSUME TableInv, NEW n \in DOMAIN sorted
    PROVE  \A k : k \in MS!AsFast(n) <=>
              k \in DOMAIN sorted /\ 2 <= k /\ k < n /\ sorted[k].speed = sorted[n].speed
<1>1. /\ Len(sorted) \in Nat /\ DOMAIN sorted = 1..Len(sorted) /\ n \in Nat
      /\ \A p \in DOMAIN sorted : sorted[p].speed \in Nat
      /\ \A p, q \in DOMAIN sorted : p < q => sorted[p].speed <= sorted[q].speed
  BY ListOrder
<1>2. ASSUME NEW k \in MS!AsFast(n)
      PROVE  k \in DOMAIN sorted /\ 2 <= k /\ k < n /\ sorted[k].speed = sorted[n].speed
  <2>1. k \in 2..(n - 1) /\ \A l \in k..(n - 1) : sorted[l].speed >= sorted[n].speed
    BY <1>2 DEF MS!AsFast
  <2>2. k \in DOMAIN sorted /\ 2 <= k /\ k < n /\ k \in k..(n - 1)
    BY <1>1, <2>1
  <2>3. sorted[k].speed >= sorted[n].speed /\ sorted[k].speed <= sorted[n].speed
    BY <1>1, <2>1, <2>2
  <2> QED  BY <1>1, <2>2, <2>3
<1>3. ASSUME NEW k \in DOMAIN sorted, 2 <= k, k < n, sorted[k].speed = sorted[n].speed
      PROVE  k \in MS!AsFast(n)
  <2>1. k \in 2..(n - 1)
    BY <1>1, <1>3
  <2>2. ASSUME NEW l \in k..(n - 1) PROVE sorted[l].speed >= sorted[n].speed
    <3>1. l \in DOMAIN sorted /\ (k = l \/ k < l)
      BY <1>1, <2>1
    <3>2. sorted[k].speed <= sorted[l].speed
      BY <1>1, <3>1
    <3> QED  BY <1>1, <1>3, <3>1, <3>2
  <2> QED  BY <2>1, <2>2 DEF MS!AsFast
<1> QED  BY <1>2, <1>3

\* What passes is faster than all that passed before it: of two entries as fast, the
\* first would need less power (pareto_optimal drops it) or as much
\* (drop_equivalent drops the second).
LEMMA KeptIncreasing ==
    ASSUME TableInv, NEW n \in DOMAIN sorted, Kept(n),
           NEW m \in DOMAIN sorted, Kept(m), n < m
    PROVE  sorted[n].speed < sorted[m].speed /\ sorted[n].power <= sorted[m].power
<1>1. /\ Len(sorted) \in Nat /\ DOMAIN sorted = 1..Len(sorted) /\ n \in Nat /\ m \in Nat
      /\ sorted[n].speed \in Nat /\ sorted[n].power \in Nat
      /\ sorted[m].speed \in Nat /\ sorted[m].power \in Nat
      /\ sorted[n].speed <= sorted[m].speed
      /\ sorted[n].speed = sorted[m].speed => sorted[n].power >= sorted[m].power
  BY ListOrder
<1>2. sorted[m].power >= sorted[n].power
  <2>1. m \in (n + 1)..Len(sorted)
    BY <1>1
  <2> QED  BY <2>1 DEF Kept, MS!pareto_optimal
<1>3. ASSUME sorted[n].speed = sorted[m].speed PROVE FALSE
  <2>1. sorted[n].power = sorted[m].power
    BY <1>1, <1>2, <1>3
  <2>2. 2 <= n
    <3>1. sorted # << >>
      BY <1>1
    <3>2. n # 1
      BY <3>1, FirstIsOff DEF Kept
    <3> QED  BY <1>1, <3>2
  <2>3. n \in MS!AsFast(m)
    BY <1>3, <2>2, AsFastMeans
  <2> QED  BY <2>1, <2>3 DEF Kept, MS!drop_equivalent
<1> QED  BY <1>1, <1>2, <1>3

\* What passes is frugal, once all is sorted: the entries before it as fast need as
\* much power at least, the order says so.
LEMMA KeptIsFrugal ==
    ASSUME TableInv, NEW n \in DOMAIN sorted, Kept(n)
    PROVE  MS!Frugal(sorted[n])
<1>1. SUFFICES ASSUME NEW q \in DOMAIN sorted, sorted[q].speed >= sorted[n].speed
               PROVE  sorted[q].power >= sorted[n].power
  BY DEF MS!Frugal, MS!Range
<1>2. /\ Len(sorted) \in Nat /\ DOMAIN sorted = 1..Len(sorted) /\ n \in Nat /\ q \in Nat
      /\ sorted[n].speed \in Nat /\ sorted[n].power \in Nat
      /\ sorted[q].speed \in Nat /\ sorted[q].power \in Nat
  BY ListOrder
<1>3. CASE q > n
  <2>1. q \in (n + 1)..Len(sorted)
    BY <1>2, <1>3
  <2> QED  BY <2>1 DEF Kept, MS!pareto_optimal
<1>4. CASE q = n
  BY <1>2, <1>4
<1>5. CASE q < n
  <2>1. /\ sorted[q].speed <= sorted[n].speed
        /\ sorted[q].speed = sorted[n].speed => sorted[q].power >= sorted[n].power
    BY <1>5, ListOrder
  <2> QED  BY <1>1, <1>2, <2>1
<1> QED  BY <1>2, <1>3, <1>4, <1>5

\* What passes has its cores on from core 0: after the first core that is off there is
\* no core on, for the first of those would be on next to one that is off.
LEMMA KeptFromZero ==
    ASSUME TableInv, NEW m \in DOMAIN sorted, Kept(m)
    PROVE  \E n \in 1..machine.cores : \A c \in MS!Cores : sorted[m].core[c] > 0 <=> c < n
<1> DEFINE core == sorted[m].core
           Off  == {c \in MS!Cores : ~(core[c] > 0)}
<1>1. machine \in Machines /\ MS!MachinesOK
  BY MachineStatesAssumption DEF TableInv, BuildTypes
<1>2. sorted[m] \in All
  BY ListOrder
<1>3. machine.cores \in Nat \ {0} /\ MS!Cores = 0..(machine.cores - 1)
  BY <1>1, StateFacts DEF MS!Cores
<1>4. \A c \in MS!Cores : core[c] \in Nat
  <2>1. core \in Assignments /\ MS!Range(machine.freqs) \subseteq Nat
    BY <1>1, <1>2, StateFacts
  <2> HIDE DEF core
  <2> QED  BY <2>1 DEF Assignments
<1>5. \A c \in MS!Cores : c > 0 => ~(core[c] > core[c - 1])
  BY DEF Kept, MS!redundant_state
<1>6. \E c \in MS!Cores : core[c] > 0
  BY <1>1, <1>2, SomeCoreOn DEF Kept
<1> HIDE DEF core
<1>7. ASSUME NEW d \in MS!Cores, ~(core[d] > 0), NEW c \in MS!Cores, d < c
      PROVE  ~(core[c] > 0)
  <2>1. SUFFICES ASSUME core[c] > 0 PROVE FALSE
    OBVIOUS
  <2> DEFINE Late == {e \in MS!Cores : d < e /\ core[e] > 0}
  <2>2. Late \in SUBSET Nat /\ Late # {}
    BY <1>3, <1>7, <2>1
  <2>3. PICK e \in Late : \A x \in Late : e <= x
    BY <2>2, Least
  <2>4. e \in MS!Cores /\ d < e /\ core[e] > 0
    BY <2>3
  <2>5. e - 1 \in MS!Cores /\ e - 1 \notin Late
    BY <1>3, <2>3, <2>4
  <2>6. ~(core[e - 1] > 0)
    BY <1>3, <1>7, <2>4, <2>5
  <2> QED  BY <1>3, <1>4, <1>5, <2>4, <2>5, <2>6
<1>8. CASE Off = {}
  <2>1. \A c \in MS!Cores : core[c] > 0 <=> c < machine.cores
    BY <1>3, <1>8
  <2> QED  BY <1>3, <2>1 DEF core
<1>9. CASE Off # {}
  <2>1. Off \in SUBSET Nat
    BY <1>3
  <2>2. PICK n \in Off : \A x \in Off : n <= x
    BY <1>9, <2>1, Least
  <2>3. n \in MS!Cores /\ ~(core[n] > 0)
    BY <2>2
  <2>4. \A c \in MS!Cores : core[c] > 0 <=> c < n
    <3> SUFFICES ASSUME NEW c \in MS!Cores PROVE core[c] > 0 <=> c < n
      OBVIOUS
    <3>1. c < n => core[c] > 0
      <4>1. c \in Nat /\ n \in Nat
        BY <1>3, <2>3
      <4> QED  BY <2>2, <4>1
    <3>2. n < c => ~(core[c] > 0)
      BY <1>7, <2>3
    <3> QED  BY <1>3, <2>3, <3>1, <3>2
  <2>5. n # 0
    BY <1>3, <1>6, <2>4
  <2> QED  BY <1>3, <2>3, <2>4, <2>5 DEF core
<1> QED  BY <1>8, <1>9
-----------------------------------------------------------------------------
(* With a stable sort nothing is lost *)
\* The list of the driver runs from the highest frequency down, as the kernel gives it.
HighestFirst ==
    \A m \in Machines : \A k, l \in DOMAIN m.freqs : k < l => m.freqs[k] > m.freqs[l]

\* Then a higher frequency has the earlier turn.
LEMMA HigherEarlier ==
    ASSUME MS!MachinesOK, machine \in Machines, HighestFirst,
           NEW x \in MS!Range(machine.freqs) \cup {0},
           NEW y \in MS!Range(machine.freqs) \cup {0}, x > y
    PROVE  ~(MS!Turn(y) < MS!Turn(x))
<1> DEFINE fr == machine.freqs
<1>1. /\ fr \in Seq(Nat \ {0}) /\ Len(fr) \in Nat /\ DOMAIN fr = 1..Len(fr)
      /\ \A k \in DOMAIN fr : fr[k] \in Nat \ {0}
      /\ \A k, l \in DOMAIN fr : k < l => fr[k] > fr[l]
  BY DEF MS!MachinesOK, HighestFirst
<1>2. \A z \in MS!Range(fr) : z # 0 /\ \E k \in DOMAIN fr : fr[k] = z
  BY <1>1 DEF MS!Range
<1> HIDE DEF fr
<1>3. \A z \in MS!Range(fr) : /\ MS!Turn(z) = CHOOSE k \in DOMAIN fr : fr[k] = z
                              /\ MS!Turn(z) \in DOMAIN fr /\ fr[MS!Turn(z)] = z
  <2> SUFFICES ASSUME NEW z \in MS!Range(fr)
               PROVE  /\ MS!Turn(z) = CHOOSE k \in DOMAIN fr : fr[k] = z
                      /\ MS!Turn(z) \in DOMAIN fr /\ fr[MS!Turn(z)] = z
    OBVIOUS
  <2>1. MS!Turn(z) = CHOOSE k \in DOMAIN fr : fr[k] = z
    BY <1>2 DEF MS!Turn, fr
  <2> QED  BY <1>2, <2>1
<1>4. MS!Turn(0) = Len(fr) + 1
  BY DEF MS!Turn, fr
<1>5. x \in MS!Range(fr) /\ x \in Nat
  <2>1. x \in Nat /\ y \in Nat
    BY <1>1 DEF MS!Range, fr
  <2>2. x # 0
    BY <2>1
  <2> QED  BY <2>1, <2>2 DEF fr
<1>6. MS!Turn(x) \in Nat /\ MS!Turn(x) <= Len(fr)
  BY <1>1, <1>3, <1>5
<1>7. CASE y = 0
  BY <1>1, <1>4, <1>6, <1>7
<1>8. CASE y \in MS!Range(fr)
  <2>1. /\ MS!Turn(y) \in DOMAIN fr /\ fr[MS!Turn(y)] = y
        /\ MS!Turn(x) \in DOMAIN fr /\ fr[MS!Turn(x)] = x
    BY <1>3, <1>5, <1>8
  <2>2. MS!Turn(y) < MS!Turn(x) => y > x
    BY <1>1, <2>1
  <2>3. x \in Nat /\ y \in Nat
    BY <1>1, <2>1
  <2> QED  BY <2>2, <2>3
<1> QED  BY <1>7, <1>8 DEF fr

\* A state before its permutation in the list is the one that redundant_state keeps.
LEMMA FirstOfPermutations ==
    ASSUME MS!MachinesOK, machine \in Machines, HighestFirst,
           NEW s \in All, NEW o \in All, NEW c \in MS!Cores, c > 0,
           s.core[c] > s.core[c - 1],
           o.core[c] = s.core[c - 1], o.core[c - 1] = s.core[c],
           \A d \in MS!Cores \ {c - 1, c} : o.core[d] = s.core[d]
    PROVE  ~MS!Generated(s, o)
<1>1. machine.cores \in Nat /\ MS!Cores = 0..(machine.cores - 1)
  BY StateFacts DEF MS!Cores
<1>2. \A d \in MS!Cores : s.core[d] \in MS!Range(machine.freqs) \cup {0}
  <2>1. s.core \in Assignments
    BY StateFacts
  <2> QED  BY <2>1 DEF Assignments
<1>3. \A d \in MS!Cores : s.core[d] \in Nat
  BY <1>2, StateFacts
<1>4. SUFFICES ASSUME NEW e \in MS!Cores, \A d \in 0..(e - 1) : s.core[d] = o.core[d],
                      MS!Turn(s.core[e]) < MS!Turn(o.core[e])
               PROVE  FALSE
  BY DEF MS!Generated
<1>5. c - 1 \in MS!Cores /\ c \in Nat /\ e \in Nat /\ s.core[c] # s.core[c - 1]
  BY <1>1, <1>3
<1>6. ~(c - 1 \in 0..(e - 1))
  BY <1>4, <1>5
<1>7. CASE e = c - 1
  <2>1. MS!Turn(s.core[c - 1]) < MS!Turn(s.core[c])
    BY <1>4, <1>7
  <2> QED  BY <1>2, <1>5, <2>1, HigherEarlier
<1>8. CASE e # c - 1
  <2>1. e < c - 1
    BY <1>5, <1>6, <1>8
  <2>2. e \in MS!Cores \ {c - 1, c}
    BY <1>5, <2>1
  <2>3. s.core[e] = o.core[e]
    BY <2>2
  <2>4. MS!Turn(s.core[e]) \in Int
    <3>1. s.core[e] \in MS!Range(machine.freqs) \cup {0}
      BY <1>2
    <3>2. machine.freqs \in Seq(Nat \ {0})
      BY DEF MS!MachinesOK
    <3>3. CASE s.core[e] = 0
      BY <3>2, <3>3 DEF MS!Turn
    <3>4. CASE s.core[e] # 0
      <4>1. \E k \in DOMAIN machine.freqs : machine.freqs[k] = s.core[e]
        BY <3>1, <3>4 DEF MS!Range
      <4>2. MS!Turn(s.core[e]) = CHOOSE k \in DOMAIN machine.freqs :
                                    machine.freqs[k] = s.core[e]
        BY <3>4 DEF MS!Turn
      <4>3. MS!Turn(s.core[e]) \in DOMAIN machine.freqs
        BY <4>1, <4>2
      <4> QED  BY <3>2, <4>3
    <3> QED  BY <3>3, <3>4
  <2> QED  BY <1>4, <2>3, <2>4
<1> QED  BY <1>7, <1>8

\* With a stable sort the first entry of its speed and power passes if it is frugal:
\* were it a permutation of another state, that one would come before it.
LEMMA FirstOfItsKind ==
    ASSUME TableInv, HighestFirst, sort = "stable", unsorted = {},
           NEW s \in MS!Range(sorted), s.speed > 0, MS!Frugal(s)
    PROVE  \E m \in DOMAIN sorted : /\ Kept(m)
                                    /\ sorted[m].speed = s.speed /\ sorted[m].power = s.power
<1> DEFINE Kind == {p \in DOMAIN sorted : /\ sorted[p].speed = s.speed
                                           /\ sorted[p].power = s.power}
<1>1. /\ Len(sorted) \in Nat /\ DOMAIN sorted = 1..Len(sorted)
      /\ \A p \in DOMAIN sorted : /\ sorted[p] \in All /\ p \in Nat
                                  /\ sorted[p].speed \in Nat /\ sorted[p].power \in Nat
      /\ \A p, q \in DOMAIN sorted : p < q =>
            /\ sorted[p].speed <= sorted[q].speed
            /\ sorted[p].speed = sorted[q].speed => sorted[p].power >= sorted[q].power
  BY ListOrder
<1>2. Kind \in SUBSET Nat /\ Kind # {}
  BY <1>1 DEF MS!Range
<1>3. PICK m \in Kind : \A p \in Kind : m <= p
  BY <1>2, Least
<1>4. /\ m \in DOMAIN sorted /\ m \in Nat
      /\ sorted[m].speed = s.speed /\ sorted[m].power = s.power
      /\ \A p \in DOMAIN sorted :
            sorted[p].speed = s.speed /\ sorted[p].power = s.power => m <= p
  BY <1>1, <1>3
<1> HIDE DEF Kind
<1>5. ~MS!drop_equivalent(m)
  <2>1. SUFFICES ASSUME NEW k \in MS!AsFast(m), sorted[k].power = sorted[m].power
                 PROVE  FALSE
    BY DEF MS!drop_equivalent
  <2>2. k \in DOMAIN sorted /\ k < m /\ sorted[k].speed = sorted[m].speed
    BY <1>4, AsFastMeans
  <2>3. m <= k
    BY <1>4, <2>1, <2>2
  <2> QED  BY <1>1, <1>4, <2>2, <2>3
<1>6. MS!pareto_optimal(m)
  <2>1. SUFFICES ASSUME NEW k \in MS!AsFast(m) \cup (m + 1)..Len(sorted)
                 PROVE  sorted[k].power >= sorted[m].power
    BY DEF MS!pareto_optimal
  <2>2. k \in DOMAIN sorted /\ sorted[k].speed >= sorted[m].speed
    <3>1. CASE k \in MS!AsFast(m)
      <4>1. k \in DOMAIN sorted /\ sorted[k].speed = sorted[m].speed
        BY <1>4, <3>1, AsFastMeans
      <4> QED  BY <1>1, <1>4, <4>1
    <3>2. CASE k \in (m + 1)..Len(sorted)
      <4>1. k \in DOMAIN sorted /\ m < k
        BY <1>1, <1>4, <3>2
      <4> QED  BY <1>1, <1>4, <4>1
    <3> QED  BY <3>1, <3>2
  <2>3. sorted[k] \in MS!Range(sorted)
    BY <2>2 DEF MS!Range
  <2> QED  BY <1>4, <2>2, <2>3 DEF MS!Frugal
<1>7. ~MS!redundant_state(sorted[m])
  <2>1. SUFFICES ASSUME NEW c \in MS!Cores, c > 0, sorted[m].core[c] > sorted[m].core[c - 1]
                 PROVE  FALSE
    BY DEF MS!redundant_state
  <2>2. machine \in Machines /\ MS!MachinesOK /\ sorted[m] \in All
    BY <1>1, <1>4, MachineStatesAssumption DEF TableInv, BuildTypes
  <2>3. PICK o \in All : /\ o.speed = s.speed /\ o.power = s.power
                         /\ o.core[c] = sorted[m].core[c - 1]
                         /\ o.core[c - 1] = sorted[m].core[c]
                         /\ \A d \in MS!Cores \ {c - 1, c} : o.core[d] = sorted[m].core[d]
    BY <1>4, <2>1, <2>2, Swapped
  <2>4. ~MS!Generated(sorted[m], o)
    BY <2>1, <2>2, <2>3, FirstOfPermutations
  <2>5. o \in MS!Range(sorted)
    BY DEF TableInv, BuildTypes
  <2>6. PICK q \in DOMAIN sorted : o = sorted[q]
    BY <2>5 DEF MS!Range
  <2>7. q # m
    <3>1. sorted[m].core[c] \in Nat
      <4>1. sorted[m].core \in Assignments /\ MS!Range(machine.freqs) \subseteq Nat
        BY <2>2, StateFacts
      <4> QED  BY <4>1 DEF Assignments
    <3>2. sorted[m].core[c - 1] \in Nat
      <4>1. /\ sorted[m].core \in Assignments /\ MS!Range(machine.freqs) \subseteq Nat
            /\ machine.cores \in Nat /\ MS!Cores = 0..(machine.cores - 1)
        BY <2>2, StateFacts DEF MS!Cores
      <4>2. c - 1 \in MS!Cores
        BY <2>1, <4>1
      <4> QED  BY <4>1, <4>2 DEF Assignments
    <3> QED  BY <2>1, <2>3, <2>6, <3>1, <3>2
  <2>8. m < q
    BY <1>1, <1>4, <2>3, <2>6, <2>7
  <2>9. Placed(sorted[m], o)
    BY <1>4, <2>6, <2>8 DEF TableInv, InOrder
  <2>10. ~MS!Before(sorted[m], o)
    <3>1. s.speed \in Nat /\ s.power \in Nat
      BY <1>1, <1>4
    <3> QED  BY <1>4, <2>3, <3>1 DEF MS!Before
  <2> QED  BY <2>4, <2>9, <2>10 DEF Placed
<1>8. sorted[m].speed > 0
  BY <1>4
<1> QED  BY <1>4, <1>5, <1>6, <1>7, <1>8 DEF Kept

\* What the filter leaves, for every machine.
LEMMA FilterSound ==
    ASSUME TableInv
    PROVE  /\ MS!TypeOK /\ MS!TableIncreasing /\ MS!CoresFromZero /\ MS!KeptFrugal
           /\ HighestFirst => MS!StableKept
<1>1. /\ machine \in Machines /\ sort \in Sorts
      /\ sorted \in Seq(All) /\ states \in Seq(All)
      /\ unsorted \cup MS!Range(sorted) = All
      /\ \A k \in DOMAIN states :
            \E n \in DOMAIN sorted : n < in_state /\ Kept(n) /\ states[k] = sorted[n]
  BY DEF TableInv, BuildTypes, Filtered
<1>2. MS!Range(states) \subseteq MS!Range(sorted)
  BY <1>1 DEF MS!Range
<1>3. MS!TypeOK
  BY <1>1, <1>2 DEF MS!TypeOK, All, TableInv, Phases
<1>4. MS!CoresFromZero
  <2> SUFFICES ASSUME NEW k \in DOMAIN states
               PROVE  \E n \in 1..machine.cores :
                         \A c \in MS!Cores : states[k].core[c] > 0 <=> c < n
    BY DEF MS!CoresFromZero
  <2>1. PICK m \in DOMAIN sorted : Kept(m) /\ states[k] = sorted[m]
    BY <1>1
  <2> QED  BY <2>1, KeptFromZero
<1>5. MS!KeptFrugal
  <2> SUFFICES ASSUME NEW k \in DOMAIN states PROVE MS!Frugal(states[k])
    BY DEF MS!KeptFrugal
  <2>1. PICK m \in DOMAIN sorted : Kept(m) /\ states[k] = sorted[m]
    BY <1>1
  <2>2. MS!Frugal(sorted[m])
    BY <2>1, KeptIsFrugal
  <2> QED  BY <2>1, <2>2
<1>6. ASSUME HighestFirst, init_pc = "done", sort = "stable" PROVE MS!NothingLost
  <2>1. unsorted = {} /\ in_state = Len(sorted) + 1
    BY <1>6 DEF TableInv, Phases
  <2>2. SUFFICES ASSUME NEW s \in MS!Range(sorted), s.speed > 0, MS!Frugal(s)
                 PROVE  \E k \in DOMAIN states :
                           states[k].speed = s.speed /\ states[k].power = s.power
    BY DEF MS!NothingLost
  <2>3. PICK m \in DOMAIN sorted : /\ Kept(m) /\ sorted[m].speed = s.speed
                                   /\ sorted[m].power = s.power
    BY <1>6, <2>1, <2>2, FirstOfItsKind
  <2>4. m < in_state
    BY <1>1, <2>1
  <2>5. \E k \in DOMAIN states : states[k] = sorted[m]
    BY <2>3, <2>4 DEF TableInv, Filtered
  <2> QED  BY <2>3, <2>5
<1>7. MS!TableIncreasing
  BY DEF TableInv
<1> QED  BY <1>3, <1>4, <1>5, <1>6, <1>7 DEF MS!StableKept
-----------------------------------------------------------------------------
(* The steps of machine_speed_init *)
\* No state is placed yet.
LEMMA BuildInit == MS!Init => TableInv
<1> SUFFICES ASSUME MS!Init PROVE TableInv
  OBVIOUS
<1>1. /\ machine \in Machines /\ sort \in Sorts /\ unsorted = All
      /\ sorted = << >> /\ in_state = 1 /\ states = << >> /\ init_pc = "sort"
  BY DEF MS!Init, All
<1>2. All # {}
  BY <1>1, OffState, MachineStatesAssumption
<1>3. MS!Range(sorted) = {} /\ DOMAIN sorted = {} /\ DOMAIN states = {} /\ Len(states) = 0
  BY <1>1 DEF MS!Range
<1>4. BuildTypes
  <2>1. sorted \in Seq(All) /\ states \in Seq(All)
    BY <1>1
  <2> QED  BY <1>1, <1>3, <2>1 DEF BuildTypes
<1>5. Phases
  BY <1>1, <1>2 DEF Phases
<1>6. InOrder /\ Filtered
  BY <1>3 DEF InOrder, Filtered
<1>7. MS!TableIncreasing
  BY <1>3 DEF MS!TableIncreasing
<1> QED  BY <1>4, <1>5, <1>6, <1>7 DEF TableInv

\* qsort places another state.
LEMMA SortKeeps == ASSUME TableInv, MS!Sort PROVE TableInv'
<1>1. /\ init_pc = "sort" /\ machine' = machine /\ sort' = sort
      /\ in_state' = in_state /\ states' = states
  BY DEF MS!Sort
<1>2. PICK s \in unsorted : /\ \A o \in unsorted \ {s} : Placed(s, o)
                            /\ sorted' = Append(sorted, s)
                            /\ unsorted' = unsorted \ {s}
                            /\ init_pc' = IF unsorted = {s} THEN "filter" ELSE "sort"
  BY DEF MS!Sort, Placed
<1>3. /\ machine \in Machines /\ sort \in Sorts
      /\ sorted \in Seq(All) /\ unsorted \subseteq All /\ s \in All
      /\ unsorted \cup MS!Range(sorted) = All
      /\ states = << >> /\ in_state = 1
  BY <1>1 DEF TableInv, BuildTypes, Phases
<1>4. All' = All /\ \A a, b : Placed(a, b)' <=> Placed(a, b)
  BY <1>1 DEF All, Placed, MS!create_machine_states, MS!Cores, MS!Before, MS!Generated, MS!Turn
<1>5. /\ DOMAIN sorted = 1..Len(sorted) /\ Len(sorted) \in Nat
      /\ DOMAIN sorted' = 1..(Len(sorted) + 1)
      /\ sorted'[Len(sorted) + 1] = s /\ \A p \in DOMAIN sorted : sorted'[p] = sorted[p]
      /\ sorted' \in Seq(All) /\ Len(sorted') = Len(sorted) + 1
  BY <1>2, <1>3
<1>6. MS!Range(sorted') = MS!Range(sorted) \cup {s}
  BY <1>5 DEF MS!Range
<1>7. BuildTypes'
  <2>1. states' \in Seq(All)
    BY <1>1, <1>3
  <2>2. unsorted' \cup MS!Range(sorted') = All /\ unsorted' \subseteq All
    BY <1>2, <1>3, <1>6
  <2>3. MS!Range(sorted)' = MS!Range(sorted')
    BY DEF MS!Range
  <2> QED  BY <1>1, <1>3, <1>4, <1>5, <2>1, <2>2, <2>3 DEF BuildTypes
<1>8. Phases'
  <2>1. 1 \in DOMAIN sorted'
    BY <1>5
  <2>2. CASE unsorted = {s}
    BY <1>1, <1>2, <1>3, <2>1, <2>2 DEF Phases
  <2>3. CASE unsorted # {s}
    BY <1>1, <1>2, <1>3, <2>3 DEF Phases
  <2> QED  BY <2>2, <2>3
<1>9. InOrder'
  <2>1. /\ \A p, q \in DOMAIN sorted : p < q => Placed(sorted[p], sorted[q])
        /\ \A p \in DOMAIN sorted : \A o \in unsorted : Placed(sorted[p], o)
    BY DEF TableInv, InOrder
  <2>2. ASSUME NEW p \in DOMAIN sorted', NEW q \in DOMAIN sorted', p < q
        PROVE  Placed(sorted'[p], sorted'[q])
    <3>1. p \in DOMAIN sorted /\ (q \in DOMAIN sorted \/ q = Len(sorted) + 1)
      BY <1>5, <2>2
    <3>2. CASE q \in DOMAIN sorted
      <4>1. sorted'[p] = sorted[p] /\ sorted'[q] = sorted[q]
        BY <1>5, <3>1, <3>2
      <4> QED  BY <2>1, <2>2, <3>1, <3>2, <4>1
    <3>3. CASE q = Len(sorted) + 1
      <4>1. sorted'[p] = sorted[p] /\ sorted'[q] = s
        BY <1>5, <3>1, <3>3
      <4> QED  BY <2>1, <3>1, <4>1
    <3> QED  BY <3>1, <3>2, <3>3
  <2>3. ASSUME NEW p \in DOMAIN sorted', NEW o \in unsorted'
        PROVE  Placed(sorted'[p], o)
    <3>1. o \in unsorted /\ o \in unsorted \ {s}
      BY <1>2
    <3>2. CASE p \in DOMAIN sorted
      <4>1. sorted'[p] = sorted[p]
        BY <1>5, <3>2
      <4> QED  BY <2>1, <3>1, <3>2, <4>1
    <3>3. CASE p \notin DOMAIN sorted
      <4>1. sorted'[p] = s
        BY <1>5, <3>3
      <4> QED  BY <1>2, <3>1, <4>1
    <3> QED  BY <3>2, <3>3
  <2> QED  BY <1>4, <2>2, <2>3 DEF InOrder
<1>10. Filtered'
  <2>1. DOMAIN states' = {} /\ \A n \in DOMAIN sorted' : ~(n < in_state')
    BY <1>1, <1>3, <1>5
  <2> QED  BY <2>1 DEF Filtered
<1>11. MS!TableIncreasing'
  <2>1. Len(states') = 0
    BY <1>1, <1>3
  <2> QED  BY <2>1 DEF MS!TableIncreasing
<1> QED  BY <1>7, <1>8, <1>9, <1>10, <1>11 DEF TableInv

\* The filter looks at another entry: what passes is faster than the end of the table.
LEMMA FilterKeeps == ASSUME TableInv, MS!Filter PROVE TableInv'
<1> DEFINE n == in_state
<1>1. /\ init_pc = "filter" /\ machine' = machine /\ sort' = sort
      /\ unsorted' = unsorted /\ sorted' = sorted /\ in_state' = n + 1
      /\ init_pc' = IF n = Len(sorted) THEN "done" ELSE "filter"
      /\ states' = IF Kept(n) THEN Append(states, sorted[n]) ELSE states
  BY DEF MS!Filter, Kept
<1>2. /\ machine \in Machines /\ sort \in Sorts
      /\ sorted \in Seq(All) /\ unsorted \subseteq All /\ states \in Seq(All)
      /\ unsorted \cup MS!Range(sorted) = All
      /\ n \in DOMAIN sorted /\ unsorted = {}
  BY <1>1 DEF TableInv, BuildTypes, Phases
<1>3. /\ DOMAIN sorted = 1..Len(sorted) /\ Len(sorted) \in Nat /\ n \in Nat \ {0}
      /\ sorted[n] \in All /\ n <= Len(sorted)
      /\ DOMAIN states = 1..Len(states) /\ Len(states) \in Nat
  BY <1>2
<1>4. /\ All' = All /\ \A a, b : Placed(a, b)' <=> Placed(a, b)
      /\ \A k : Kept(k)' <=> Kept(k)
  <2>1. All' = All /\ \A a, b : Placed(a, b)' <=> Placed(a, b)
    BY <1>1 DEF All, Placed, MS!create_machine_states, MS!Cores, MS!Before,
                MS!Generated, MS!Turn
  <2>2. \A k : Kept(k)' <=> Kept(k)
    BY <1>1 DEF Kept, MS!redundant_state, MS!Cores, MS!drop_equivalent, MS!pareto_optimal,
                MS!AsFast
  <2> QED  BY <2>1, <2>2
<1>5. /\ \A k \in DOMAIN states :
            \E m \in DOMAIN sorted : m < n /\ Kept(m) /\ states[k] = sorted[m]
      /\ \A m \in DOMAIN sorted :
            m < n /\ Kept(m) => \E k \in DOMAIN states : states[k] = sorted[m]
  BY DEF TableInv, Filtered
<1>6. MS!TableIncreasing
  BY DEF TableInv
<1> HIDE DEF n
<1>7. states' \in Seq(All)
  BY <1>1, <1>2, <1>3
<1>8. BuildTypes'
  <2>1. MS!Range(sorted)' = MS!Range(sorted)
    BY <1>1 DEF MS!Range
  <2> QED  BY <1>1, <1>2, <1>4, <1>7, <2>1 DEF BuildTypes
<1>9. Phases'
  <2>0. in_state' = n + 1 /\ sorted' = sorted
    BY <1>1
  <2>1. in_state' \in Nat \ {0}
    <3>1. n + 1 \in Nat \ {0}
      BY <1>3
    <3> QED  BY <2>0, <3>1
  <2>2. CASE n = Len(sorted)
    BY <1>1, <1>2, <2>1, <2>2 DEF Phases
  <2>3. CASE n # Len(sorted)
    <3>1. in_state' \in DOMAIN sorted'
      <4>1. n \in Nat /\ Len(sorted) \in Nat /\ n <= Len(sorted)
        BY <1>3
      <4>2. n + 1 \in 1..Len(sorted)
        BY <2>3, <4>1
      <4> QED  BY <1>3, <2>0, <4>2
    <3> QED  BY <1>1, <1>2, <2>1, <2>3, <3>1 DEF Phases
  <2> QED  BY <2>2, <2>3
<1>10. InOrder'
  <2>1. InOrder
    BY DEF TableInv
  <2> QED  BY <1>1, <1>4, <2>1 DEF InOrder
<1>11. CASE ~Kept(n)
  <2>1. states' = states
    BY <1>1, <1>11
  <2>2. Filtered'
    <3>1. \A k \in DOMAIN states :
             \E m \in DOMAIN sorted : m < n + 1 /\ Kept(m) /\ states[k] = sorted[m]
      BY <1>3, <1>5
    <3>2. \A m \in DOMAIN sorted :
             m < n + 1 /\ Kept(m) => \E k \in DOMAIN states : states[k] = sorted[m]
      <4>1. \A m \in DOMAIN sorted : m < n + 1 /\ Kept(m) => m < n
        BY <1>3, <1>11
      <4> QED  BY <1>5, <4>1
    <3> QED  BY <1>1, <1>4, <2>1, <3>1, <3>2 DEF Filtered
  <2>3. MS!TableIncreasing'
    BY <1>6, <2>1 DEF MS!TableIncreasing
  <2> QED  BY <1>8, <1>9, <1>10, <2>2, <2>3 DEF TableInv
<1>12. CASE Kept(n)
  <2> DEFINE z == Len(states)
  <2>1. /\ states' = Append(states, sorted[n])
        /\ Len(states') = z + 1 /\ DOMAIN states' = 1..(z + 1)
        /\ states'[z + 1] = sorted[n] /\ \A k \in DOMAIN states : states'[k] = states[k]
    BY <1>1, <1>2, <1>3, <1>12
  <2> HIDE DEF z
  <2>2. z \in Nat /\ DOMAIN states = 1..z
    BY <1>3 DEF z
  <2>3. Filtered'
    <3>1. ASSUME NEW k \in DOMAIN states'
          PROVE  \E m \in DOMAIN sorted : m < n + 1 /\ Kept(m) /\ states'[k] = sorted[m]
      <4>1. CASE k \in DOMAIN states
        <5>1. states'[k] = states[k]
          BY <2>1, <4>1
        <5>2. PICK m \in DOMAIN sorted : m < n /\ Kept(m) /\ states[k] = sorted[m]
          BY <1>5, <4>1
        <5>3. m < n + 1
          BY <1>3, <5>2
        <5> QED  BY <5>1, <5>2, <5>3
      <4>2. CASE k \notin DOMAIN states
        <5>1. k = z + 1
          BY <2>1, <2>2, <4>2
        <5>2. n < n + 1
          BY <1>3
        <5> QED  BY <1>2, <1>12, <2>1, <5>1, <5>2
      <4> QED  BY <4>1, <4>2
    <3>2. ASSUME NEW m \in DOMAIN sorted, m < n + 1, Kept(m)
          PROVE  \E k \in DOMAIN states' : states'[k] = sorted[m]
      <4>1. CASE m = n
        <5>1. z + 1 \in DOMAIN states'
          BY <2>1, <2>2
        <5> QED  BY <2>1, <4>1, <5>1
      <4>2. CASE m # n
        <5>1. m < n
          BY <1>3, <3>2, <4>2
        <5>2. PICK k \in DOMAIN states : states[k] = sorted[m]
          BY <1>5, <3>2, <5>1
        <5>3. k \in DOMAIN states' /\ states'[k] = states[k]
          BY <2>1, <2>2
        <5> QED  BY <5>2, <5>3
      <4> QED  BY <4>1, <4>2
    <3> QED  BY <1>1, <1>4, <3>1, <3>2 DEF Filtered
  <2>4. ASSUME NEW k \in 2..(z + 1)
        PROVE  /\ states'[k - 1].speed < states'[k].speed
               /\ states'[k - 1].power <= states'[k].power
    <3>1. k - 1 \in DOMAIN states /\ states'[k - 1] = states[k - 1]
      BY <2>1, <2>2
    <3>2. CASE k = z + 1
      <4>1. PICK m \in DOMAIN sorted : m < n /\ Kept(m) /\ states[k - 1] = sorted[m]
        BY <1>5, <3>1
      <4>2. sorted[m].speed < sorted[n].speed /\ sorted[m].power <= sorted[n].power
        BY <1>2, <1>12, <4>1, KeptIncreasing
      <4> QED  BY <2>1, <3>1, <3>2, <4>1, <4>2
    <3>3. CASE k # z + 1
      <4>1. k \in 2..z /\ k \in DOMAIN states
        BY <2>2, <3>3
      <4>2. /\ states[k - 1].speed < states[k].speed
            /\ states[k - 1].power <= states[k].power
        BY <1>6, <4>1 DEF MS!TableIncreasing, z
      <4> QED  BY <2>1, <3>1, <4>1, <4>2
    <3> QED  BY <3>2, <3>3
  <2>5. MS!TableIncreasing'
    BY <2>1, <2>4 DEF MS!TableIncreasing
  <2> QED  BY <1>8, <1>9, <1>10, <2>3, <2>5 DEF TableInv
<1> QED  BY <1>11, <1>12
-----------------------------------------------------------------------------
(* The actuator from end to end *)

Zero == [k \in {0} |-> 0]

\* The table searched is the table built, once there is one, and what is asked for
\* is at least its lowest speed.
Searched == \/ table = Zero /\ state = 0
            \/ /\ init_pc = "done" /\ states # << >>
               /\ table = SpeedsOf /\ set_value >= table[0]

ActuatorInv == TableInv /\ IInv /\ Searched

\* The search leaves the list and the table as they are.
LEMMA TableStays == ASSUME TableInv, UNCHANGED building PROVE TableInv' /\ SpeedsOf' = SpeedsOf
<1>1. UNCHANGED <<machine, sort, unsorted, sorted, in_state, states, init_pc>>
  BY DEF building
<1>2. All' = All /\ \A a, b : Placed(a, b)' <=> Placed(a, b)
  BY <1>1 DEF All, Placed, MS!create_machine_states, MS!Cores, MS!Before, MS!Generated, MS!Turn
<1>3. \A n : Kept(n)' <=> Kept(n)
  BY <1>1 DEF Kept, MS!redundant_state, MS!Cores, MS!drop_equivalent, MS!pareto_optimal,
              MS!AsFast
<1>4. BuildTypes' /\ Phases'
  <2>1. MS!Range(sorted)' = MS!Range(sorted)
    BY <1>1 DEF MS!Range
  <2> QED  BY <1>1, <1>2, <2>1 DEF TableInv, BuildTypes, Phases
<1>5. InOrder'
  BY <1>1, <1>2 DEF TableInv, InOrder
<1>6. Filtered'
  BY <1>1, <1>3 DEF TableInv, Filtered
<1>7. MS!TableIncreasing'
  BY <1>1 DEF TableInv, MS!TableIncreasing
<1>8. SpeedsOf' = SpeedsOf
  BY <1>1 DEF SpeedsOf
<1> QED  BY <1>4, <1>5, <1>6, <1>7, <1>8 DEF TableInv

\* The last entry of a table.
LEMMA LastIs ==
    ASSUME NEW n \in Nat, NEW T, DOMAIN T = 0..n
    PROVE  LastOf(T) = n
<1>1. n \in DOMAIN T /\ n + 1 \notin DOMAIN T
  OBVIOUS
<1>2. \A k \in DOMAIN T : k + 1 \notin DOMAIN T => k = n
  OBVIOUS
<1> QED  BY <1>1, <1>2 DEF LastOf

\* The speeds of the table are increasing, not of neighbours only, and none is 0.
LEMMA SpeedsIncrease ==
    ASSUME TableInv, states # << >>
    PROVE  /\ LastOf(SpeedsOf) = Len(states) - 1 /\ Table(SpeedsOf, LastOf(SpeedsOf))
           /\ SpeedsOf[0] > 0
<1> DEFINE n == Len(states) - 1
           T == SpeedsOf
<1>1. /\ states \in Seq(All) /\ n \in Nat /\ DOMAIN states = 1..(n + 1)
      /\ machine \in Machines /\ MS!MachinesOK
  <2>1. states \in Seq(All) /\ machine \in Machines
    BY DEF TableInv, BuildTypes
  <2> QED  BY <2>1, MachineStatesAssumption
<1>2. \A k \in 0..n : k + 1 \in DOMAIN states /\ T[k] = states[k + 1].speed /\ T[k] \in Nat
  <2> SUFFICES ASSUME NEW k \in 0..n
               PROVE  k + 1 \in DOMAIN states /\ T[k] = states[k + 1].speed /\ T[k] \in Nat
    OBVIOUS
  <2>1. k + 1 \in DOMAIN states
    BY <1>1
  <2>2. states[k + 1] \in All
    BY <1>1, <2>1
  <2>3. T[k] = states[k + 1].speed
    BY DEF SpeedsOf
  <2> QED  BY <1>1, <2>1, <2>2, <2>3, StateTypes
<1>3. DOMAIN T = 0..n /\ T \in [0..n -> Nat]
  BY <1>2 DEF SpeedsOf
<1>4. \A k \in 1..n : T[k - 1] < T[k]
  <2> SUFFICES ASSUME NEW k \in 1..n PROVE T[k - 1] < T[k]
    OBVIOUS
  <2>1. k + 1 \in 2..Len(states) /\ k \in 0..n /\ k - 1 \in 0..n /\ (k + 1) - 1 = k
        /\ (k - 1) + 1 = k
    BY <1>1
  <2>2. states[(k + 1) - 1].speed < states[k + 1].speed
    BY <2>1 DEF TableInv, MS!TableIncreasing
  <2>3. T[k - 1] = states[(k - 1) + 1].speed /\ T[k] = states[k + 1].speed
    BY <1>2, <2>1
  <2> QED  BY <2>1, <2>2, <2>3
<1> HIDE DEF n, T
<1>5. LastOf(T) = n
  BY <1>1, <1>3, LastIs
<1>6. ASSUME NEW a \in 0..n, NEW b \in 0..n, a < b PROVE T[a] < T[b]
  <2> DEFINE Bad == {k \in 0..n : a < k /\ ~(T[a] < T[k])}
  <2>1. SUFFICES ASSUME Bad # {} PROVE FALSE
    BY <1>6
  <2>2. Bad \in SUBSET Nat
    BY <1>1
  <2>3. PICK e \in Bad : \A x \in Bad : e <= x
    BY <2>1, <2>2, Least
  <2>4. e \in 1..n /\ a < e /\ ~(T[a] < T[e])
    BY <1>1, <2>3
  <2>5. e - 1 \in 0..n /\ e - 1 \notin Bad
    BY <1>1, <2>3, <2>4
  <2>6. T[e - 1] < T[e] /\ T[e - 1] \in Nat /\ T[e] \in Nat /\ T[a] \in Nat
    BY <1>3, <1>4, <2>4, <2>5
  <2>7. e - 1 = a \/ T[a] < T[e - 1]
    BY <1>1, <2>4, <2>5
  <2> QED  BY <2>4, <2>6, <2>7
<1>7. Table(T, n)
  BY <1>1, <1>3, <1>6 DEF Table, Increasing
<1>8. T[0] > 0
  <2>1. 1 \in DOMAIN states /\ 0 \in 0..n
    BY <1>1
  <2>2. \E m \in DOMAIN sorted : m < in_state /\ Kept(m) /\ states[1] = sorted[m]
    BY <2>1 DEF TableInv, Filtered
  <2>3. states[1].speed > 0
    BY <2>2 DEF Kept
  <2>4. T[0] = states[0 + 1].speed
    BY <1>2, <2>1
  <2> QED  BY <2>3, <2>4
<1> QED  BY <1>5, <1>7, <1>8 DEF T, n

\* Before the first table there is one entry, of speed 0.
LEMMA ActuatorBegins == ActuatorInit => ActuatorInv
<1> SUFFICES ASSUME ActuatorInit PROVE ActuatorInv
  OBVIOUS
<1>1. TableInv
  BY BuildInit DEF ActuatorInit
<1>2. /\ table = Zero /\ set_value = 0 /\ f = 0 /\ t = 0 /\ i = 0 /\ pc = "done"
      /\ state = 0
  BY DEF ActuatorInit, Zero
<1>3. DOMAIN Zero = 0..0 /\ Zero \in [0..0 -> Nat] /\ Zero[0] = 0
  BY DEF Zero
<1>4. LastOf(Zero) = 0
  BY <1>3, LastIs
<1>5. Table(Zero, 0)
  BY <1>3 DEF Table, Increasing
<1>6. Implemented(Zero, 0) \in 0..0
  <2>1. 0 \in Int /\ Table(Zero, LastOf(Zero))
    BY <1>4, <1>5
  <2> QED  BY <1>4, <2>1, ImplementedRight
<1>7. Implemented(Zero, 0) = 0
  BY <1>6
<1>8. TypeOK /\ FunctionAgrees /\ Last = 0
  BY <1>2, <1>3, <1>4, <1>7 DEF TypeOK, FunctionAgrees, Last
<1>9. IInv
  BY <1>2, <1>5, <1>8 DEF IInv
<1> QED  BY <1>1, <1>2, <1>9 DEF ActuatorInv, Searched

\* While the table is built, nothing is searched.
LEMMA BuildKeeps == ASSUME ActuatorInv, Build PROVE ActuatorInv'
<1>1. TableInv'
  BY SortKeeps, FilterKeeps DEF Build, ActuatorInv
<1>2. UNCHANGED <<table, set_value, f, t, i, pc, state>> /\ init_pc # "done"
  BY DEF Build, vars, MS!Sort, MS!Filter
<1>3. IInv'
  <2>1. IInv
    BY DEF ActuatorInv
  <2> QED  BY <1>2, <2>1 DEF IInv, Last, Table, Increasing, TypeOK, OnTheWay, FunctionAgrees
<1>4. table = Zero /\ state = 0
  BY <1>2 DEF ActuatorInv, Searched
<1> QED  BY <1>1, <1>2, <1>3, <1>4 DEF ActuatorInv, Searched, Zero

\* A search begins in the table that was built.
LEMMA AskKeeps == ASSUME ActuatorInv, Ask PROVE ActuatorInv'
<1>1. /\ init_pc = "done" /\ pc = "done" /\ states # << >>
      /\ UNCHANGED building
  BY DEF Ask
<1>2. PICK v \in Asked : Call(SpeedsOf, v)
  BY DEF Ask
<1> DEFINE T == SpeedsOf
           n == LastOf(T)
<1>3. TableInv /\ IInv
  BY DEF ActuatorInv
<1>4. Table(T, n) /\ n \in Nat /\ T \in [0..n -> Nat]
  BY <1>1, <1>3, SpeedsIncrease DEF Table
<1>5. v \in Int /\ v >= T[0]
  <2>1. v \in T[0]..T[n]
    BY <1>2 DEF Asked
  <2>2. T[0] \in Int /\ T[n] \in Int
    BY <1>4
  <2> HIDE DEF T, n
  <2> QED  BY <2>1, <2>2
<1>6. /\ table' = T /\ set_value' = v /\ f' = 0 /\ t' = n /\ i' = 0 /\ pc' = "probe"
      /\ state' = state
  BY <1>2 DEF Call
<1>7. TableInv' /\ T' = T
  BY <1>1, <1>3, TableStays
<1>8. state \in 0..n
  <2>1. CASE table = Zero /\ state = 0
    BY <1>4, <2>1
  <2>2. CASE table = T
    BY <1>3, <2>2 DEF IInv, TypeOK
  <2> QED  BY <2>1, <2>2 DEF ActuatorInv, Searched
<1>9. ProbesOf(T, v)[<<0, n>>] = LastProbe(T, v)
  BY <1>4, Begins
<1> HIDE DEF T, n
<1>10. Last' = n
  BY <1>6 DEF Last, n
<1>11. TypeOK'
  <2>1. /\ f' \in 0..(n + 1) /\ t' \in -1..n /\ i' \in 0..n /\ state' \in 0..n
        /\ set_value' \in Int /\ table' \in [0..n -> Nat]
    BY <1>4, <1>5, <1>6, <1>8
  <2> QED  BY <1>6, <1>10, <2>1 DEF TypeOK, Last
<1>12. OnTheWay'
  <2>1. 0 \in 0..n /\ n \in 0..n /\ 0 <= n
    BY <1>4
  <2> QED  BY <1>6, <1>9, <1>10, <2>1 DEF OnTheWay
<1>13. IInv'
  <2>1. Table(table, Last)'
    BY <1>4, <1>6, <1>10 DEF Table, Increasing
  <2> QED  BY <1>6, <1>11, <1>12, <2>1 DEF IInv, FunctionAgrees
<1>14. Searched'
  <2>1. init_pc' = "done" /\ states' # << >>
    BY <1>1 DEF building
  <2> QED  BY <1>5, <1>6, <1>7, <2>1 DEF Searched, T
<1> QED  BY <1>7, <1>13, <1>14 DEF ActuatorInv

\* A turn of the search.
LEMMA SearchKeeps == ASSUME ActuatorInv, Search PROVE ActuatorInv'
<1>1. UNCHANGED building
  BY DEF Search
<1>2. TableInv /\ IInv /\ Searched
  BY DEF ActuatorInv
<1>3. IInv'
  BY <1>2, ProbeStep, SettleStep DEF Search
<1>4. UNCHANGED <<table, set_value>> /\ (pc = "probe" \/ pc = "settle")
  BY DEF Search, Probe, Settle
<1>5. TableInv' /\ SpeedsOf' = SpeedsOf
  BY <1>1, <1>2, TableStays
<1>6. Searched'
  <2>1. CASE table = Zero /\ state = 0
    <3>1. state' \in 0..Last'
      BY <1>3 DEF IInv, TypeOK, Last
    <3>2. Last' = 0
      <4>1. DOMAIN Zero = 0..0
        BY DEF Zero
      <4>2. LastOf(Zero) = 0
        BY <4>1, LastIs
      <4> QED  BY <1>4, <2>1, <4>2 DEF Last
    <3>3. state' = 0
      BY <3>1, <3>2
    <3> QED  BY <1>4, <2>1, <3>3 DEF Searched, Zero
  <2>2. CASE /\ init_pc = "done" /\ states # << >>
             /\ table = SpeedsOf /\ set_value >= table[0]
    BY <1>1, <1>4, <1>5, <2>2 DEF Searched, building
  <2> QED  BY <1>2, <2>1, <2>2 DEF Searched
<1> QED  BY <1>3, <1>5, <1>6 DEF ActuatorInv

\* The invariant of the actuator: the table while it is built, and the search in it.
THEOREM ActuatorInvariance == ActuatorSpec => []ActuatorInv
<1>1. ASSUME ActuatorInv, [Build \/ Ask \/ Search]_<<building, vars>>
      PROVE  ActuatorInv'
  <2>1. CASE UNCHANGED <<building, vars>>
    <3>1. TableInv' /\ SpeedsOf' = SpeedsOf /\ UNCHANGED building
      BY <1>1, <2>1, TableStays DEF ActuatorInv
    <3>2. UNCHANGED <<table, set_value, f, t, i, pc, state>>
      BY <2>1 DEF vars
    <3>3. IInv'
      BY <1>1, <3>2 DEF ActuatorInv, IInv, Last, Table, Increasing, TypeOK, OnTheWay,
                        FunctionAgrees
    <3>4. Searched'
      BY <1>1, <3>1, <3>2 DEF ActuatorInv, Searched, Zero, building
    <3> QED  BY <3>1, <3>3, <3>4 DEF ActuatorInv
  <2> QED  BY <1>1, <2>1, BuildKeeps, AskKeeps, SearchKeeps
<1> QED  BY <1>1, ActuatorBegins, PTL DEF ActuatorSpec

\* For every machine and any order qsort may leave equal states in, the table of
\* machine_speed_init (combined.c) is strictly increasing in speed, its states have their
\* cores on from core 0 and no other state beats one of them.
THEOREM TableSearchable ==
    ActuatorSpec => [](MS!TypeOK /\ MS!TableIncreasing /\ MS!CoresFromZero /\ MS!KeptFrugal)
<1>1. ActuatorInv => MS!TypeOK /\ MS!TableIncreasing /\ MS!CoresFromZero /\ MS!KeptFrugal
  BY FilterSound DEF ActuatorInv
<1> QED  BY <1>1, ActuatorInvariance, PTL

\* When the driver lists the frequencies from the highest down, a stable sort loses
\* nothing either: for each state worth its power the table of machine_speed_init has
\* one as fast for as much.
THEOREM TableCorrect == ASSUME HighestFirst PROVE ActuatorSpec => []TableSound
<1>1. ActuatorInv => TableSound
  <2> SUFFICES ASSUME ActuatorInv PROVE TableSound
    OBVIOUS
  <2>1. TableInv /\ TypeOK
    BY DEF ActuatorInv, IInv
  <2> QED  BY <2>1, FilterSound DEF TableSound
<1> QED  BY <1>1, ActuatorInvariance, PTL

\* For every machine, each search ends next to the wanted speed in the table that was
\* built, though it leaves an entry unread.
THEOREM ActuatorSearchCorrect == ActuatorSpec => []NothingBetween
<1>1. ActuatorInv => NothingBetween
  BY NoneBetweenHere DEF ActuatorInv
<1> QED  BY <1>1, ActuatorInvariance, PTL

\* In the table that was built, the loop gives what the function of SpeedTable gives.
THEOREM ActuatorFunction == ActuatorSpec => []FunctionAgrees
<1>1. ActuatorInv => FunctionAgrees
  BY DEF ActuatorInv, IInv
<1> QED  BY <1>1, ActuatorInvariance, PTL

\* For every machine whose frequencies run from the highest down, and a stable sort:
\* no assignment that is worth its power lies strictly between the speed asked for and
\* the one implemented.
THEOREM NothingIsMissed == ASSUME HighestFirst PROVE ActuatorSpec => []NothingMissed
<1>1. ActuatorInv => NothingMissed
  <2> SUFFICES ASSUME ActuatorInv, pc = "done", table # Zero, sort = "stable",
                      NEW s \in MS!Range(sorted), MS!Frugal(s)
               PROVE  ~ \/ table[state] < s.speed /\ s.speed <= set_value
                        \/ set_value <= s.speed /\ s.speed < table[state]
    BY DEF NothingMissed, Zero, MS!Range, Range
  <2>1. /\ init_pc = "done" /\ states # << >>
        /\ table = SpeedsOf /\ set_value >= table[0]
    BY DEF ActuatorInv, Searched
  <2>2. TableInv /\ IInv
    BY DEF ActuatorInv
  <2>3. table \in [0..Last -> Nat] /\ state \in 0..Last /\ set_value \in Int
    BY <2>2 DEF IInv, TypeOK, Last
  <2>4. Last = Len(states) - 1 /\ table[0] > 0 /\ Last \in Nat
    BY <2>1, <2>2, SpeedsIncrease DEF Last, Table
  <2>5. s.speed \in Nat
    <3>1. s \in All
      BY <2>2 DEF TableInv, BuildTypes
    <3> QED  BY <2>2, <3>1, StateTypes, MachineStatesAssumption DEF TableInv, BuildTypes
  <2>6. SUFFICES ASSUME \/ table[state] < s.speed /\ s.speed <= set_value
                        \/ set_value <= s.speed /\ s.speed < table[state]
                 PROVE  FALSE
    OBVIOUS
  <2>7. s.speed > 0
    <3>1. table[state] \in Nat /\ table[0] \in Nat
      BY <2>3, <2>4
    <3> QED  BY <2>1, <2>3, <2>4, <2>5, <2>6, <3>1
  <2>8. MS!NothingLost
    BY <2>1, <2>2, FilterSound DEF MS!StableKept
  <2>9. PICK k \in DOMAIN states : states[k].speed = s.speed
    BY <2>7, <2>8 DEF MS!NothingLost
  <2>10. k - 1 \in 0..Last /\ table[k - 1] = s.speed
    <3>1. states \in Seq(All)
      BY <2>2 DEF TableInv, BuildTypes
    <3>2. k \in 1..Len(states) /\ Len(states) \in Nat
      BY <3>1
    <3>3. k - 1 \in 0..Last /\ (k - 1) + 1 = k
      BY <2>4, <3>2
    <3>4. table[k - 1] = states[(k - 1) + 1].speed
      BY <2>1, <2>4, <3>3 DEF SpeedsOf
    <3> QED  BY <2>9, <3>3, <3>4
  <2>11. NothingBetween
    BY <2>2, NoneBetweenHere
  <2>12. DOMAIN table = 0..Last
    BY <2>3
  <2> QED  BY <2>6, <2>10, <2>11, <2>12 DEF NothingBetween
<1> QED  BY <1>1, ActuatorInvariance, PTL
-----------------------------------------------------------------------------
(* What powerstates prints: its loop *)

\* The recursion of Printed.
Line(o, L, p, n) == IF n = 0 THEN << >>
                    ELSE IF Shown(o, L, n) THEN Append(p[n - 1], L[n]) ELSE p[n - 1]
Lines(o, L) == CHOOSE p : p = [n \in 0..Len(L) |-> Line(o, L, p, n)]

\* What is printed is the last of its values.
LEMMA PrintedByRecursion ==
    ASSUME NEW o, NEW L
    PROVE  Printed(o, L) = Lines(o, L)[Len(L)]
BY DEF Printed, Lines, Line

\* The recursion has a solution, from 0 lines on.
LEMMA LinesAre ==
    ASSUME NEW o, NEW L, Len(L) \in Nat
    PROVE  /\ Lines(o, L)[0] = << >>
           /\ \A n \in 1..Len(L) : Lines(o, L)[n] =
                 IF Shown(o, L, n) THEN Append(Lines(o, L)[n - 1], L[n])
                 ELSE Lines(o, L)[n - 1]
<1> DEFINE P == {m \in Nat : \E p : p = [n \in 0..m |-> Line(o, L, p, n)]}
<1>1. 0 \in P
  <2> DEFINE p == [n \in 0..0 |-> << >>]
  <2>1. p = [n \in 0..0 |-> Line(o, L, p, n)]
    <3>1. \A n \in 0..0 : n = 0
      OBVIOUS
    <3> QED  BY <3>1 DEF Line
  <2> QED  BY <2>1
<1>2. ASSUME NEW m \in P PROVE m + 1 \in P
  <2>1. m \in Nat
    BY <1>2
  <2>2. PICK p : p = [n \in 0..m |-> Line(o, L, p, n)]
    BY <1>2
  <2> DEFINE q == [n \in 0..(m + 1) |-> IF n = m + 1 THEN Line(o, L, p, m + 1) ELSE p[n]]
  <2>3. \A n \in 0..(m + 1) : n # 0 => n - 1 \in 0..m /\ n - 1 \in 0..(m + 1) /\ n - 1 # m + 1
    BY <2>1
  <2>4. \A n \in 0..(m + 1) : n # 0 => q[n - 1] = p[n - 1]
    BY <2>3
  <2>5. \A n \in 0..(m + 1) : Line(o, L, q, n) = Line(o, L, p, n)
    <3> HIDE DEF q
    <3> QED  BY <2>4 DEF Line
  <2>6. \A n \in 0..(m + 1) : q[n] = Line(o, L, p, n)
    <3> SUFFICES ASSUME NEW n \in 0..(m + 1) PROVE q[n] = Line(o, L, p, n)
      OBVIOUS
    <3>1. CASE n = m + 1
      BY <3>1
    <3>2. CASE n # m + 1
      <4>1. n \in 0..m
        BY <2>1, <3>2
      <4>2. p[n] = Line(o, L, p, n)
        BY <2>2, <4>1
      <4> QED  BY <3>2, <4>2
    <3> QED  BY <3>1, <3>2
  <2>7. q = [n \in 0..(m + 1) |-> q[n]]
    OBVIOUS
  <2>8. q = [n \in 0..(m + 1) |-> Line(o, L, q, n)]
    <3> HIDE DEF q
    <3> QED  BY <2>5, <2>6, <2>7
  <2>9. m + 1 \in Nat
    BY <2>1
  <2> QED  BY <2>8, <2>9
<1>3. Len(L) \in P
  <2>1. P \in SUBSET Nat
    OBVIOUS
  <2> HIDE DEF P
  <2> QED  BY <1>1, <1>2, <2>1, InductionOnNat
<1>4. \E p : p = [n \in 0..Len(L) |-> Line(o, L, p, n)]
  BY <1>3
<1>5. Lines(o, L) = [n \in 0..Len(L) |-> Line(o, L, Lines(o, L), n)]
  BY <1>4 DEF Lines
<1>6. \A n \in 0..Len(L) : Lines(o, L)[n] = Line(o, L, Lines(o, L), n)
  BY <1>5
<1>7. 0 \in 0..Len(L) /\ \A n \in 1..Len(L) : n \in 0..Len(L) /\ n # 0
  OBVIOUS
<1> QED  BY <1>6, <1>7 DEF Line

\* What is printed are the lines shown, in the order of the list: at[j] is where the
\* j-th comes from.
From(o, L, n, M, at) ==
    /\ M \in Seq(All) /\ at \in [1..Len(M) -> 1..n]
    /\ \A j \in 1..Len(M) : M[j] = L[at[j]] /\ Shown(o, L, at[j])
    /\ \A j, k \in 1..Len(M) : j < k => at[j] < at[k]
    /\ \A l \in 1..n : Shown(o, L, l) => \E j \in 1..Len(M) : at[j] = l

\* Such places there are, for any options and any list.
LEMMA PrintedFrom ==
    ASSUME NEW o, NEW L \in Seq(All)
    PROVE  \E at : From(o, L, Len(L), Printed(o, L), at)
<1> DEFINE F == Lines(o, L)
           P == {n \in Nat : n <= Len(L) => \E at : From(o, L, n, F[n], at)}
<1>1. /\ Len(L) \in Nat /\ F[0] = << >>
      /\ \A n \in 1..Len(L) :
            F[n] = IF Shown(o, L, n) THEN Append(F[n - 1], L[n]) ELSE F[n - 1]
  BY LinesAre
<1>2. 0 \in P
  <2>1. From(o, L, 0, F[0], [j \in 1..0 |-> 0])
    <3>1. 1..0 = {} /\ Len(<< >>) = 0 /\ << >> \in Seq(All)
      OBVIOUS
    <3>2. [j \in 1..0 |-> 0] \in [1..0 -> 1..0]
      BY <3>1
    <3> QED  BY <1>1, <3>1, <3>2 DEF From
  <2> QED  BY <2>1
<1>3. ASSUME NEW m \in P PROVE m + 1 \in P
  <2> DEFINE n == m + 1
  <2>1. m \in Nat /\ n \in Nat /\ n - 1 = m /\ m <= n
    BY <1>3
  <2>2. SUFFICES ASSUME n <= Len(L) PROVE \E at : From(o, L, n, F[n], at)
    BY <2>1
  <2>3. PICK at : From(o, L, m, F[m], at)
    <3>1. m <= Len(L)
      BY <1>1, <2>1, <2>2
    <3> QED  BY <1>3, <3>1
  <2>4. /\ n \in 1..Len(L) /\ L[n] \in All
        /\ F[n] = IF Shown(o, L, n) THEN Append(F[m], L[n]) ELSE F[m]
    <3>1. n \in 1..Len(L)
      BY <1>1, <2>1, <2>2
    <3> QED  BY <1>1, <2>1, <3>1
  <2> DEFINE M == F[m]
             z == Len(M)
  <2>5. /\ M \in Seq(All) /\ z \in Nat /\ at \in [1..z -> 1..m]
        /\ \A j \in 1..z : M[j] = L[at[j]] /\ Shown(o, L, at[j])
        /\ \A j, k \in 1..z : j < k => at[j] < at[k]
        /\ \A l \in 1..m : Shown(o, L, l) => \E j \in 1..z : at[j] = l
    BY <2>3 DEF From
  <2> HIDE DEF F, n
  <2>6. CASE ~Shown(o, L, n)
    <3>1. F[n] = M
      BY <2>4, <2>6
    <3>2. at \in [1..z -> 1..n]
      <4>1. 1..m \subseteq 1..n
        BY <2>1
      <4> QED  BY <2>5, <4>1
    <3>3. \A l \in 1..n : Shown(o, L, l) => \E j \in 1..z : at[j] = l
      <4>1. \A l \in 1..n : l = n \/ l \in 1..m
        BY <2>1
      <4> QED  BY <2>5, <2>6, <4>1
    <3>4. From(o, L, n, M, at)
      BY <2>5, <3>2, <3>3 DEF From
    <3> QED  BY <3>1, <3>4
  <2>7. CASE Shown(o, L, n)
    <3> DEFINE A == Append(M, L[n])
               b == [j \in 1..(z + 1) |-> IF j = z + 1 THEN n ELSE at[j]]
    <3>1. /\ A \in Seq(All) /\ Len(A) = z + 1 /\ A[z + 1] = L[n]
          /\ \A j \in 1..z : A[j] = M[j]
      BY <2>4, <2>5
    <3>2. b[z + 1] = n /\ \A j \in 1..z : b[j] = at[j] /\ at[j] \in 1..m
      <4>1. z + 1 \in 1..(z + 1)
        BY <2>5
      <4>2. \A j \in 1..z : j \in 1..(z + 1) /\ j # z + 1 /\ at[j] \in 1..m
        BY <2>5
      <4> HIDE DEF z
      <4> QED  BY <4>1, <4>2
    <3>3. b \in [1..(z + 1) -> 1..n]
      <4>1. \A j \in 1..(z + 1) : j = z + 1 \/ j \in 1..z
        BY <2>5
      <4>2. n \in 1..n /\ 1..m \subseteq 1..n
        BY <2>1
      <4> QED  BY <3>2, <4>1, <4>2
    <3> HIDE DEF A, b, z
    <3>4. \A j \in 1..(z + 1) : j = z + 1 \/ j \in 1..z
      BY <2>5
    <3>5. \A j \in 1..(z + 1) : A[j] = L[b[j]] /\ Shown(o, L, b[j])
      BY <2>5, <2>7, <3>1, <3>2, <3>4
    <3>6. \A j, k \in 1..(z + 1) : j < k => b[j] < b[k]
      <4> SUFFICES ASSUME NEW j \in 1..(z + 1), NEW k \in 1..(z + 1), j < k
                   PROVE  b[j] < b[k]
        OBVIOUS
      <4>1. j \in 1..z
        BY <2>5
      <4>2. CASE k = z + 1
        <5>1. at[j] \in 1..m /\ b[j] = at[j] /\ b[k] = n
          BY <3>2, <4>1, <4>2
        <5> QED  BY <2>1, <5>1
      <4>3. CASE k \in 1..z
        BY <2>5, <3>2, <4>1, <4>3
      <4> QED  BY <3>4, <4>2, <4>3
    <3>7. \A l \in 1..n : Shown(o, L, l) => \E j \in 1..(z + 1) : b[j] = l
      <4>1. \A l \in 1..n : l = n \/ l \in 1..m
        BY <2>1
      <4>2. z + 1 \in 1..(z + 1) /\ \A j \in 1..z : j \in 1..(z + 1)
        BY <2>5
      <4> QED  BY <2>5, <3>2, <4>1, <4>2
    <3>8. From(o, L, n, A, b)
      BY <3>1, <3>3, <3>5, <3>6, <3>7 DEF From
    <3>9. F[n] = A
      BY <2>4, <2>7 DEF A
    <3> QED  BY <3>8, <3>9
  <2> QED  BY <2>6, <2>7
<1>4. Len(L) \in P
  <2>1. P \in SUBSET Nat
    OBVIOUS
  <2> HIDE DEF P
  <2> QED  BY <1>1, <1>2, <1>3, <2>1, InductionOnNat
<1> QED  BY <1>1, <1>4, PrintedByRecursion

\* A list of which every line is shown is printed as it is.
LEMMA PrintedWhole ==
    ASSUME NEW o, NEW L \in Seq(All), \A n \in 1..Len(L) : Shown(o, L, n)
    PROVE  Printed(o, L) = L
<1>1. PICK at : From(o, L, Len(L), Printed(o, L), at)
  BY PrintedFrom
<1> DEFINE M == Printed(o, L)
           m == Len(M)
           n == Len(L)
<1>2. /\ M \in Seq(All) /\ at \in [1..m -> 1..n] /\ m \in Nat /\ n \in Nat
      /\ \A j \in 1..m : M[j] = L[at[j]]
      /\ \A j, k \in 1..m : j < k => at[j] < at[k]
      /\ \A l \in 1..n : \E j \in 1..m : at[j] = l
  BY <1>1 DEF From
<1> HIDE DEF M, m, n
<1>3. \A j \in Nat : j \in 1..m => at[j] = j
  <2> DEFINE Off == {j \in 1..m : at[j] # j}
  <2>1. SUFFICES ASSUME Off # {} PROVE FALSE
    OBVIOUS
  <2>2. Off \in SUBSET Nat
    OBVIOUS
  <2>3. PICK j \in Off : \A k \in Off : j <= k
    BY <2>1, <2>2, Least
  <2>4. j \in 1..m /\ at[j] # j /\ at[j] \in 1..n
    BY <1>2, <2>3
  <2>5. \A k \in 1..m : k < j => at[k] = k
    BY <2>3
  <2>6. CASE at[j] < j
    <3>1. at[j] \in 1..m
      BY <1>2, <2>4, <2>6
    <3>2. at[at[j]] = at[j]
      BY <2>5, <2>6, <3>1
    <3>3. at[at[j]] < at[j]
      BY <1>2, <2>4, <2>6, <3>1
    <3> QED  BY <2>4, <3>2, <3>3
  <2>7. CASE at[j] > j
    <3>1. j \in 1..n
      BY <1>2, <2>4, <2>7
    <3>2. PICK k \in 1..m : at[k] = j
      BY <1>2, <3>1
    <3>3. CASE k < j
      BY <2>5, <3>2, <3>3
    <3>4. CASE k = j
      BY <2>4, <3>2, <3>4
    <3>5. CASE k > j
      <4>1. at[j] < at[k]
        BY <1>2, <2>4, <3>2, <3>5
      <4> QED  BY <2>4, <2>7, <3>2, <4>1
    <3> QED  BY <2>4, <3>3, <3>4, <3>5
  <2> QED  BY <2>4, <2>6, <2>7
<1>4. \A j \in 1..m : at[j] = j /\ M[j] = L[j]
  BY <1>2, <1>3
<1>5. m = n
  <2>1. m <= n
    <3>1. CASE m = 0
      BY <1>2, <3>1
    <3>2. CASE m # 0
      <4>1. m \in 1..m
        BY <1>2, <3>2
      <4>2. at[m] = m /\ at[m] \in 1..n
        BY <1>2, <1>4, <4>1
      <4> QED  BY <1>2, <4>2
    <3> QED  BY <3>1, <3>2
  <2>2. n <= m
    <3>1. CASE n = 0
      BY <1>2, <3>1
    <3>2. CASE n # 0
      <4>1. n \in 1..n
        BY <1>2, <3>2
      <4>2. PICK j \in 1..m : at[j] = n
        BY <1>2, <4>1
      <4> QED  BY <1>2, <1>4, <4>2
    <3> QED  BY <3>1, <3>2
  <2> QED  BY <1>2, <2>1, <2>2
<1>6. M = L
  <2>1. Len(M) = Len(L)
    BY <1>5 DEF m, n
  <2>2. \A j \in 1..Len(L) : M[j] = L[j]
    <3>1. 1..Len(L) = 1..m
      BY <1>5 DEF n
    <3> QED  BY <1>4, <3>1
  <2>3. \A S \in Seq(All) : S = [j \in 1..Len(S) |-> S[j]]
    OBVIOUS
  <2>4. M = [j \in 1..Len(L) |-> M[j]] /\ L = [j \in 1..Len(L) |-> L[j]]
    BY <1>2, <2>1, <2>3
  <2> QED  BY <2>2, <2>4
<1> QED  BY <1>6 DEF M

\* A list sorted as qsort does it: by speed, equal speeds by decreasing power.
SortedList(L) ==
    /\ L \in Seq(All)
    /\ \A p \in 1..Len(L) : L[p].speed \in Nat /\ L[p].power \in Nat
    /\ \A p, q \in 1..Len(L) : p < q =>
          /\ L[p].speed <= L[q].speed
          /\ L[p].speed = L[q].speed => L[p].power >= L[q].power

\* The entries AsFast(n) of it have the speed of n.
LEMMA AsFastIn ==
    ASSUME NEW L, SortedList(L), NEW n \in 1..Len(L)
    PROVE  \A k : k \in Of(L)!AsFast(n) <=>
              k \in 1..Len(L) /\ 2 <= k /\ k < n /\ L[k].speed = L[n].speed
<1>1. /\ Len(L) \in Nat /\ n \in Nat
      /\ \A p \in 1..Len(L) : L[p].speed \in Nat
      /\ \A p, q \in 1..Len(L) : p < q => L[p].speed <= L[q].speed
  BY DEF SortedList
<1>2. ASSUME NEW k \in Of(L)!AsFast(n)
      PROVE  k \in 1..Len(L) /\ 2 <= k /\ k < n /\ L[k].speed = L[n].speed
  <2>1. k \in 2..(n - 1) /\ \A l \in k..(n - 1) : L[l].speed >= L[n].speed
    BY <1>2 DEF Of!AsFast
  <2>2. k \in 1..Len(L) /\ 2 <= k /\ k < n /\ k \in k..(n - 1)
    BY <1>1, <2>1
  <2>3. L[k].speed >= L[n].speed /\ L[k].speed <= L[n].speed
    BY <1>1, <2>1, <2>2
  <2> QED  BY <1>1, <2>2, <2>3
<1>3. ASSUME NEW k \in 1..Len(L), 2 <= k, k < n, L[k].speed = L[n].speed
      PROVE  k \in Of(L)!AsFast(n)
  <2>1. k \in 2..(n - 1)
    BY <1>1, <1>3
  <2>2. ASSUME NEW l \in k..(n - 1) PROVE L[l].speed >= L[n].speed
    <3>1. l \in 1..Len(L) /\ (k = l \/ k < l)
      BY <1>1, <2>1
    <3>2. L[k].speed <= L[l].speed
      BY <1>1, <3>1
    <3> QED  BY <1>1, <1>3, <3>1, <3>2
  <2> QED  BY <2>1, <2>2 DEF Of!AsFast
<1> QED  BY <1>2, <1>3

\* Some lines of a sorted list are a sorted list.
LEMMA SomeLinesSorted ==
    ASSUME NEW o, NEW L, SortedList(L), NEW M, NEW at, From(o, L, Len(L), M, at)
    PROVE  SortedList(M)
<1>1. /\ M \in Seq(All) /\ at \in [1..Len(M) -> 1..Len(L)]
      /\ \A j \in 1..Len(M) : M[j] = L[at[j]]
      /\ \A j, k \in 1..Len(M) : j < k => at[j] < at[k]
  BY DEF From
<1>2. \A j \in 1..Len(M) : M[j].speed \in Nat /\ M[j].power \in Nat
  BY <1>1 DEF SortedList
<1>3. ASSUME NEW p \in 1..Len(M), NEW q \in 1..Len(M), p < q
      PROVE  /\ M[p].speed <= M[q].speed
             /\ M[p].speed = M[q].speed => M[p].power >= M[q].power
  <2>1. /\ at[p] \in 1..Len(L) /\ at[q] \in 1..Len(L) /\ at[p] < at[q]
        /\ M[p] = L[at[p]] /\ M[q] = L[at[q]]
    BY <1>1, <1>3
  <2> QED  BY <2>1 DEF SortedList
<1> QED  BY <1>1, <1>2, <1>3 DEF SortedList
-----------------------------------------------------------------------------
(* What powerstates prints: its sort *)

\* The lines that may come next, and the recursion of Resorted.
First(L, left) == {k \in left : \A l \in left : ~MS!Before(L[l], L[k])}
OrderStep(L, g, n) ==
    IF n = 0 THEN {<< >>}
    ELSE UNION {{Append(order, k) : k \in First(L, DOMAIN L \ Range(order))} :
                   order \in g[n - 1]}
Orders(L) == CHOOSE g : g = [n \in 0..Len(L) |-> OrderStep(L, g, n)]

\* The lists that are sorted again follow the last of its values.
LEMMA ResortedByRecursion ==
    ASSUME NEW L
    PROVE  Resorted(L) = {[n \in DOMAIN L |-> L[order[n]]] : order \in Orders(L)[Len(L)]}
BY DEF Resorted, Orders, OrderStep, First

\* The recursion has a solution, from no line placed on.
LEMMA OrdersAre ==
    ASSUME NEW L, Len(L) \in Nat
    PROVE  \A n \in 0..Len(L) : Orders(L)[n] = OrderStep(L, Orders(L), n)
<1> DEFINE P == {m \in Nat : \E g : g = [n \in 0..m |-> OrderStep(L, g, n)]}
<1>1. 0 \in P
  <2> DEFINE g == [n \in 0..0 |-> {<< >>}]
  <2>1. g = [n \in 0..0 |-> OrderStep(L, g, n)]
    <3>1. \A n \in 0..0 : n = 0
      OBVIOUS
    <3> QED  BY <3>1 DEF OrderStep
  <2> QED  BY <2>1
<1>2. ASSUME NEW m \in P PROVE m + 1 \in P
  <2>1. m \in Nat
    BY <1>2
  <2>2. PICK g : g = [n \in 0..m |-> OrderStep(L, g, n)]
    BY <1>2
  <2> DEFINE h == [n \in 0..(m + 1) |-> IF n = m + 1 THEN OrderStep(L, g, m + 1) ELSE g[n]]
  <2>3. \A n \in 0..(m + 1) : n # 0 => n - 1 \in 0..m /\ n - 1 \in 0..(m + 1) /\ n - 1 # m + 1
    BY <2>1
  <2>4. \A n \in 0..(m + 1) : n # 0 => h[n - 1] = g[n - 1]
    BY <2>3
  <2>5. \A n \in 0..(m + 1) : OrderStep(L, h, n) = OrderStep(L, g, n)
    <3> HIDE DEF h
    <3> QED  BY <2>4 DEF OrderStep
  <2>6. \A n \in 0..(m + 1) : h[n] = OrderStep(L, g, n)
    <3> SUFFICES ASSUME NEW n \in 0..(m + 1) PROVE h[n] = OrderStep(L, g, n)
      OBVIOUS
    <3>1. CASE n = m + 1
      BY <3>1
    <3>2. CASE n # m + 1
      <4>1. n \in 0..m
        BY <2>1, <3>2
      <4>2. g[n] = OrderStep(L, g, n)
        BY <2>2, <4>1
      <4> QED  BY <3>2, <4>2
    <3> QED  BY <3>1, <3>2
  <2>7. h = [n \in 0..(m + 1) |-> h[n]]
    OBVIOUS
  <2>8. h = [n \in 0..(m + 1) |-> OrderStep(L, h, n)]
    <3> HIDE DEF h
    <3> QED  BY <2>5, <2>6, <2>7
  <2>9. m + 1 \in Nat
    BY <2>1
  <2> QED  BY <2>8, <2>9
<1>3. Len(L) \in P
  <2>1. P \in SUBSET Nat
    OBVIOUS
  <2> HIDE DEF P
  <2> QED  BY <1>1, <1>2, <2>1, InductionOnNat
<1>4. \E g : g = [n \in 0..Len(L) |-> OrderStep(L, g, n)]
  BY <1>3
<1>5. Orders(L) = [n \in 0..Len(L) |-> OrderStep(L, Orders(L), n)]
  BY <1>4 DEF Orders
<1> QED  BY <1>5

\* An order of n lines: none is placed twice, and each comes before no line that is
\* placed later or not yet.
OrderOf(L, n, order) ==
    /\ order \in Seq(1..Len(L)) /\ Len(order) = n
    /\ \A p, q \in 1..n : p # q => order[p] # order[q]
    /\ \A p \in 1..n : \A k \in 1..Len(L) :
          (\A q \in 1..p : order[q] # k) => ~MS!Before(L[k], L[order[p]])

\* One more line is placed.
LEMMA OneMorePlaced ==
    ASSUME NEW L, NEW n \in Nat, NEW order, OrderOf(L, n, order), Len(L) \in Nat,
           NEW k \in 1..Len(L), \A q \in 1..n : order[q] # k,
           \A l \in 1..Len(L) : (\A q \in 1..n : order[q] # l) => ~MS!Before(L[l], L[k])
    PROVE  OrderOf(L, n + 1, Append(order, k))
<1> DEFINE A == Append(order, k)
<1>1. /\ order \in Seq(1..Len(L)) /\ Len(order) = n
      /\ \A p, q \in 1..n : p # q => order[p] # order[q]
      /\ \A p \in 1..n : \A l \in 1..Len(L) :
            (\A q \in 1..p : order[q] # l) => ~MS!Before(L[l], L[order[p]])
  BY DEF OrderOf
<1>2. /\ A \in Seq(1..Len(L)) /\ Len(A) = n + 1 /\ A[n + 1] = k
      /\ \A p \in 1..n : A[p] = order[p]
  BY <1>1
<1>3. \A p \in 1..(n + 1) : p = n + 1 \/ p \in 1..n
  OBVIOUS
<1> HIDE DEF A
<1>4. \A p, q \in 1..(n + 1) : p # q => A[p] # A[q]
  BY <1>1, <1>2, <1>3
<1>5. ASSUME NEW p \in 1..(n + 1), NEW l \in 1..Len(L), \A q \in 1..p : A[q] # l
      PROVE  ~MS!Before(L[l], L[A[p]])
  <2>1. CASE p = n + 1
    <3>1. \A q \in 1..n : order[q] # l
      <4>1. \A q \in 1..n : q \in 1..p
        BY <2>1
      <4> QED  BY <1>2, <1>5, <4>1
    <3> QED  BY <1>2, <2>1, <3>1
  <2>2. CASE p \in 1..n
    <3>1. \A q \in 1..p : q \in 1..n
      BY <2>2
    <3>2. \A q \in 1..p : order[q] # l
      BY <1>2, <1>5, <3>1
    <3> QED  BY <1>1, <1>2, <2>2, <3>2
  <2> QED  BY <1>3, <2>1, <2>2
<1> QED  BY <1>2, <1>4, <1>5 DEF OrderOf, A

\* So it goes on to the last line.
LEMMA OrdersPlace ==
    ASSUME NEW L \in Seq(All)
    PROVE  \A order \in Orders(L)[Len(L)] : OrderOf(L, Len(L), order)
<1> DEFINE G == Orders(L)
           P == {n \in Nat : n <= Len(L) => \A order \in G[n] : OrderOf(L, n, order)}
<1>1. /\ Len(L) \in Nat /\ DOMAIN L = 1..Len(L)
      /\ \A n \in 0..Len(L) : G[n] = OrderStep(L, G, n)
  BY OrdersAre
<1> HIDE DEF G
<1>2. 0 \in P
  <2>1. 0 \in 0..Len(L)
    BY <1>1
  <2>2. G[0] = {<< >>}
    BY <1>1, <2>1 DEF OrderStep
  <2>3. OrderOf(L, 0, << >>)
    <3>1. << >> \in Seq(1..Len(L)) /\ Len(<< >>) = 0 /\ 1..0 = {}
      OBVIOUS
    <3> QED  BY <3>1 DEF OrderOf
  <2> QED  BY <2>2, <2>3
<1>3. ASSUME NEW n \in P PROVE n + 1 \in P
  <2>1. n \in Nat /\ n + 1 \in Nat /\ n + 1 # 0 /\ (n + 1) - 1 = n
    BY <1>3
  <2>2. SUFFICES ASSUME n + 1 <= Len(L), NEW A \in G[n + 1] PROVE OrderOf(L, n + 1, A)
    BY <2>1
  <2>3. n <= Len(L) /\ n + 1 \in 0..Len(L)
    BY <1>1, <2>1, <2>2
  <2>4. G[n + 1] = UNION {{Append(order, k) : k \in First(L, DOMAIN L \ Range(order))} :
                             order \in G[n]}
    BY <1>1, <2>1, <2>3 DEF OrderStep
  <2>5. PICK order \in G[n] : \E k \in First(L, DOMAIN L \ Range(order)) : A = Append(order, k)
    BY <2>2, <2>4
  <2>6. PICK k \in First(L, DOMAIN L \ Range(order)) : A = Append(order, k)
    BY <2>5
  <2>7. OrderOf(L, n, order)
    BY <1>3, <2>3, <2>5
  <2>8. Range(order) = {order[q] : q \in 1..n}
    <3>1. order \in Seq(1..Len(L)) /\ Len(order) = n
      BY <2>7 DEF OrderOf
    <3>2. DOMAIN order = 1..n
      BY <3>1
    <3> QED  BY <3>2 DEF Range
  <2>9. /\ k \in 1..Len(L) /\ \A q \in 1..n : order[q] # k
        /\ \A l \in 1..Len(L) : (\A q \in 1..n : order[q] # l) => ~MS!Before(L[l], L[k])
    BY <1>1, <2>6, <2>8 DEF First
  <2> QED  BY <1>1, <2>1, <2>6, <2>7, <2>9, OneMorePlaced
<1>4. Len(L) \in P
  <2>1. P \in SUBSET Nat
    OBVIOUS
  <2> HIDE DEF P
  <2> QED  BY <1>1, <1>2, <1>3, <2>1, InductionOnNat
<1> QED  BY <1>1, <1>4 DEF G

\* R is the list M in another order: at[n] is where line n of it was.
Rearranged(M, R, at) ==
    /\ Len(R) = Len(M) /\ at \in [1..Len(M) -> 1..Len(M)]
    /\ \A n \in 1..Len(M) : R[n] = M[at[n]]
    /\ \A p, q \in 1..Len(M) : p # q => at[p] # at[q]
    /\ \A l \in 1..Len(M) : \E n \in 1..Len(M) : at[n] = l

\* What qsort makes of a list is sorted, has the same lines, and loses none.
LEMMA ResortedIs ==
    ASSUME NEW M \in Seq(All), NEW R \in Resorted(M),
           \A p \in 1..Len(M) : M[p].speed \in Nat /\ M[p].power \in Nat
    PROVE  SortedList(R) /\ \E at : Rearranged(M, R, at)
<1>1. PICK at \in Orders(M)[Len(M)] : R = [n \in DOMAIN M |-> M[at[n]]]
  BY ResortedByRecursion
<1> DEFINE z == Len(M)
<1>2. OrderOf(M, z, at)
  BY <1>1, OrdersPlace
<1>3. /\ at \in Seq(1..z) /\ Len(at) = z /\ z \in Nat /\ DOMAIN M = 1..z
      /\ \A p, q \in 1..z : p # q => at[p] # at[q]
      /\ \A p \in 1..z : \A k \in 1..z :
            (\A q \in 1..p : at[q] # k) => ~MS!Before(M[k], M[at[p]])
  BY <1>2 DEF OrderOf
<1> HIDE DEF z
<1>4. at \in [1..z -> 1..z]
  BY <1>3
<1>5. \A n \in 1..z : R[n] = M[at[n]] /\ at[n] \in 1..z
  BY <1>1, <1>3, <1>4
<1>6. R \in Seq(All) /\ Len(R) = z
  <2>1. \A n \in 1..z : M[n] \in All
    BY <1>3 DEF z
  <2>2. R = [n \in 1..z |-> R[n]] /\ \A n \in 1..z : R[n] \in All
    BY <1>1, <1>3, <1>5, <2>1
  <2>3. \A S \in [1..z -> All] : S \in Seq(All) /\ Len(S) = z
    <3>1. z \in Nat
      BY <1>3
    <3> HIDE DEF All
    <3> QED  BY ONLY <3>1
  <2>4. R \in [1..z -> All]
    <3> HIDE DEF All
    <3> QED  BY <2>2
  <2> QED  BY <2>3, <2>4
<1>7. \A l \in 1..z : \E n \in 1..z : at[n] = l
  <2>1. at \in Injection(1..z, 1..z)
    BY <1>3, <1>4 DEF Injection, IsInjective
  <2>2. IsFiniteSet(1..z)
    <3>1. 1 \in Int /\ z \in Int
      BY <1>3
    <3> QED  BY <3>1, FS_Interval
  <2>3. at \in Surjection(1..z, 1..z)
    BY <2>1, <2>2, FS_Injection
  <2> QED  BY <2>3 DEF Surjection
<1>8. \A p \in 1..z : M[p].speed \in Nat /\ M[p].power \in Nat
  BY DEF z
<1>9. ASSUME NEW p \in 1..z, NEW q \in 1..z, p < q
      PROVE  /\ R[p].speed <= R[q].speed
             /\ R[p].speed = R[q].speed => R[p].power >= R[q].power
  <2>1. \A l \in 1..p : l # q /\ l \in 1..z
    BY <1>3, <1>9
  <2>2. \A l \in 1..p : at[l] # at[q]
    BY <1>3, <2>1
  <2>3. ~MS!Before(M[at[q]], M[at[p]])
    BY <1>3, <1>5, <2>2
  <2>4. /\ R[p] = M[at[p]] /\ R[q] = M[at[q]]
        /\ R[p].speed \in Nat /\ R[p].power \in Nat
        /\ R[q].speed \in Nat /\ R[q].power \in Nat
    BY <1>5, <1>8
  <2> QED  BY <2>3, <2>4 DEF MS!Before
<1>10. SortedList(R)
  BY <1>5, <1>6, <1>8, <1>9 DEF SortedList
<1>11. Rearranged(M, R, at)
  BY <1>3, <1>4, <1>5, <1>6, <1>7 DEF Rearranged, z
<1> QED  BY <1>10, <1>11
-----------------------------------------------------------------------------
(* What was printed, printed again *)

\* In a sorted list pareto_optimal compares with all that is as fast: of what comes
\* before, it looks at some, but none of the others needs less power.
LEMMA ParetoMeans ==
    ASSUME NEW L, SortedList(L), NEW n \in 1..Len(L)
    PROVE  Of(L)!pareto_optimal(n) <=>
              \A q \in 1..Len(L) : L[q].speed >= L[n].speed => L[q].power >= L[n].power
<1>1. /\ Len(L) \in Nat /\ n \in Nat
      /\ \A p \in 1..Len(L) : L[p].speed \in Nat /\ L[p].power \in Nat
      /\ \A p, q \in 1..Len(L) : p < q =>
            /\ L[p].speed <= L[q].speed
            /\ L[p].speed = L[q].speed => L[p].power >= L[q].power
  BY DEF SortedList
<1>2. ASSUME Of(L)!pareto_optimal(n), NEW q \in 1..Len(L), L[q].speed >= L[n].speed
      PROVE  L[q].power >= L[n].power
  <2>1. CASE q > n
    <3>1. q \in (n + 1)..Len(L)
      BY <1>1, <2>1
    <3> QED  BY <1>2, <3>1 DEF Of!pareto_optimal
  <2>2. CASE q < n
    <3>1. L[q].speed = L[n].speed
      BY <1>1, <1>2, <2>2
    <3> QED  BY <1>1, <2>2, <3>1
  <2>3. CASE q = n
    BY <1>1, <2>3
  <2> QED  BY <1>1, <2>1, <2>2, <2>3
<1>3. ASSUME \A q \in 1..Len(L) : L[q].speed >= L[n].speed => L[q].power >= L[n].power
      PROVE  Of(L)!pareto_optimal(n)
  <2> SUFFICES ASSUME NEW k \in Of(L)!AsFast(n) \cup (n + 1)..Len(L)
               PROVE  L[k].power >= L[n].power
    BY DEF Of!pareto_optimal
  <2>1. k \in 1..Len(L) /\ L[k].speed >= L[n].speed
    <3>1. CASE k \in Of(L)!AsFast(n)
      <4>1. k \in 1..Len(L) /\ L[k].speed = L[n].speed
        BY <3>1, AsFastIn
      <4> QED  BY <1>1, <4>1
    <3>2. CASE k \in (n + 1)..Len(L)
      <4>1. k \in 1..Len(L) /\ n < k
        BY <1>1, <3>2
      <4> QED  BY <1>1, <4>1
    <3> QED  BY <3>1, <3>2
  <2> QED  BY <1>3, <2>1
<1> QED  BY <1>2, <1>3

\* The first line has a speed of its own, as that of the machine that is off has.
FirstAlone(L) == \A n \in 1..Len(L) : n # 1 => L[n].speed # L[1].speed

\* Of two lines that drop_equivalent has left, the speed or the power differs.
LEMMA NoneEquivalent ==
    ASSUME NEW o, NEW L, SortedList(L), FirstAlone(L), NEW M, NEW at,
           From(o, L, Len(L), M, at), "u" \in o,
           NEW a \in 1..Len(M), NEW b \in 1..Len(M), a < b,
           M[a].speed = M[b].speed
    PROVE  M[a].power # M[b].power
<1>1. /\ at \in [1..Len(M) -> 1..Len(L)] /\ Len(L) \in Nat
      /\ \A k \in 1..Len(M) : M[k] = L[at[k]] /\ Shown(o, L, at[k])
      /\ \A p, q \in 1..Len(M) : p < q => at[p] < at[q]
  BY DEF From, SortedList
<1> DEFINE p == at[a]  q == at[b]
<1>2. /\ p \in 1..Len(L) /\ q \in 1..Len(L) /\ p < q /\ M[a] = L[p] /\ M[b] = L[q]
      /\ Shown(o, L, q)
  BY <1>1
<1> HIDE DEF p, q
<1>3. q # 1 /\ L[q].speed = L[p].speed
  BY <1>1, <1>2
<1>4. p # 1
  BY <1>2, <1>3 DEF FirstAlone
<1>5. 2 <= p
  BY <1>1, <1>2, <1>4
<1>6. p \in Of(L)!AsFast(q)
  BY <1>2, <1>3, <1>5, AsFastIn
<1>7. ~Of(L)!drop_equivalent(q)
  BY <1>2 DEF Shown
<1>8. L[p].power # L[q].power
  BY <1>6, <1>7 DEF Of!drop_equivalent
<1> QED  BY <1>2, <1>8

\* Printed again, wherever the sort puts it, each line is shown: what a test finds among
\* the lines that are left it found among all.
LEMMA ShownAgain ==
    ASSUME NEW o, NEW L, SortedList(L), FirstAlone(L), NEW M, NEW at,
           From(o, L, Len(L), M, at),
           NEW R, SortedList(R), NEW to, Rearranged(M, R, to),
           NEW j \in 1..Len(R)
    PROVE  Shown(o, R, j)
<1>1. /\ M \in Seq(All) /\ at \in [1..Len(M) -> 1..Len(L)]
      /\ Len(M) \in Nat /\ Len(L) \in Nat
      /\ \A k \in 1..Len(M) : M[k] = L[at[k]] /\ Shown(o, L, at[k])
  BY DEF From, SortedList
<1>2. /\ Len(R) = Len(M) /\ to \in [1..Len(M) -> 1..Len(M)]
      /\ \A k \in 1..Len(M) : R[k] = M[to[k]]
      /\ \A p, q \in 1..Len(M) : p # q => to[p] # to[q]
  BY DEF Rearranged
<1> DEFINE n == at[to[j]]
<1>3. /\ n \in 1..Len(L) /\ R[j] = L[n] /\ j \in Nat /\ j \in 1..Len(M)
      /\ "r" \in o => ~Of(L)!redundant_state(L[n])
      /\ "p" \in o => Of(L)!pareto_optimal(n)
  BY <1>1, <1>2 DEF Shown
<1> HIDE DEF n
<1>4. "r" \in o => ~Of(R)!redundant_state(R[j])
  BY <1>3 DEF Of!redundant_state, Of!Cores
<1>5. "u" \in o => ~Of(R)!drop_equivalent(j)
  <2> SUFFICES ASSUME "u" \in o, NEW k \in Of(R)!AsFast(j), R[k].power = R[j].power
               PROVE  FALSE
    BY DEF Of!drop_equivalent
  <2>1. k \in 1..Len(R) /\ k # j /\ R[k].speed = R[j].speed
    <3>1. k \in 1..Len(R) /\ k < j /\ R[k].speed = R[j].speed
      BY AsFastIn
    <3> QED  BY <1>3, <3>1
  <2> DEFINE a == to[k]  b == to[j]
  <2>2. /\ a \in 1..Len(M) /\ b \in 1..Len(M) /\ a # b
        /\ M[a].speed = M[b].speed /\ M[a].power = M[b].power
    BY <1>2, <1>3, <2>1
  <2> HIDE DEF a, b
  <2>3. a < b \/ b < a
    BY <2>2
  <2>4. CASE a < b
    BY <2>2, <2>4, NoneEquivalent
  <2>5. CASE b < a
    BY <2>2, <2>5, NoneEquivalent
  <2> QED  BY <2>3, <2>4, <2>5
<1>6. "p" \in o => Of(R)!pareto_optimal(j)
  <2> SUFFICES ASSUME "p" \in o PROVE Of(R)!pareto_optimal(j)
    OBVIOUS
  <2>1. \A q \in 1..Len(L) : L[q].speed >= L[n].speed => L[q].power >= L[n].power
    BY <1>3, ParetoMeans
  <2>2. \A k \in 1..Len(R) : at[to[k]] \in 1..Len(L) /\ R[k] = L[at[to[k]]]
    BY <1>1, <1>2
  <2>3. \A k \in 1..Len(R) : R[k].speed >= R[j].speed => R[k].power >= R[j].power
    BY <1>3, <2>1, <2>2
  <2> QED  BY <2>3, ParetoMeans
<1> QED  BY <1>4, <1>5, <1>6 DEF Shown

\* What was printed of a sorted list prints again as it was sorted again.
LEMMA PrintedTwice ==
    ASSUME NEW L, SortedList(L), FirstAlone(L), NEW o, NEW R \in Resorted(Printed(o, L))
    PROVE  Printed(o, R) = R
<1> DEFINE M == Printed(o, L)
<1>1. PICK at : From(o, L, Len(L), M, at)
  BY PrintedFrom DEF SortedList
<1> HIDE DEF M
<1>2. SortedList(M)
  BY <1>1, SomeLinesSorted
<1>3. SortedList(R) /\ \E to : Rearranged(M, R, to)
  <2>1. M \in Seq(All) /\ \A p \in 1..Len(M) : M[p].speed \in Nat /\ M[p].power \in Nat
    BY <1>2 DEF SortedList
  <2>2. R \in Resorted(M)
    BY DEF M
  <2> QED  BY <2>1, <2>2, ResortedIs
<1>4. PICK to : Rearranged(M, R, to)
  BY <1>3
<1>5. \A j \in 1..Len(R) : Shown(o, R, j)
  BY <1>1, <1>3, <1>4, ShownAgain
<1>6. R \in Seq(All)
  BY <1>3 DEF SortedList
<1> QED  BY <1>5, <1>6, PrintedWhole
-----------------------------------------------------------------------------
(* Permutations: a state that none can be dropped for *)

\* Every frequency is 10 MHz at least: speed, in units of 10 MHz, is 0 with all cores
\* off only.
FromTenMHz == \A m \in Machines : \A k \in DOMAIN m.freqs : m.freqs[k] >= 10000

\* The state of speed 0: no core is on, and it needs no power.
LEMMA OffIs ==
    ASSUME MS!MachinesOK, machine \in Machines, FromTenMHz, NEW s \in All, s.speed = 0
    PROVE  s = MS!calculate_state_properties([c \in MS!Cores |-> 0]) /\ s.power = 0
<1> DEFINE g == s.core
           z == [c \in MS!Cores |-> 0]
<1>1. /\ g \in Assignments /\ s = MS!calculate_state_properties(g)
      /\ IsFiniteSet(MS!Cores) /\ Total(g) \in Nat
  BY StateFacts
<1>2. DOMAIN g = MS!Cores
      /\ \A c \in MS!Cores : g[c] \in Nat /\ (g[c] = 0 \/ g[c] >= 10000)
  <2>1. /\ \A c \in MS!Cores : g[c] \in MS!Range(machine.freqs) \cup {0}
        /\ DOMAIN g = MS!Cores
    BY <1>1 DEF Assignments
  <2>2. MS!Range(machine.freqs) \subseteq Nat
    BY StateFacts
  <2>3. \A x \in MS!Range(machine.freqs) : x >= 10000
    BY DEF FromTenMHz, MS!Range
  <2> HIDE DEF g
  <2> QED  BY <2>1, <2>2, <2>3, SMT
<1> HIDE DEF g
<1>3. Total(g) \div 10000 = 0
  <2>1. s.speed = Total(g) \div 10000
    BY <1>1, Properties, SMT
  <2> QED  BY <2>1
<1>4. Total(g) < 10000
  BY <1>1, <1>3, SMT
<1>5. ASSUME NEW c \in MS!Cores PROVE g[c] = 0
  <2>1. /\ Total(g) = g[c] + SumFunctionOnSet(g, MS!Cores \ {c})
        /\ SumFunctionOnSet(g, MS!Cores \ {c}) \in Nat
    <3>1. IsFiniteSet(MS!Cores \ {c}) /\ \A x \in MS!Cores : g[x] \in Int
      BY <1>1, <1>2, FS_Subset
    <3>2. \A x \in MS!Cores \ {c} : g[x] \in Nat
      BY <1>2
    <3> QED  BY <1>1, <1>2, <3>1, <3>2, SumRemove, SumNat DEF Total
  <2>2. g[c] \in Nat /\ (g[c] = 0 \/ g[c] >= 10000)
    BY <1>2
  <2> QED  BY <1>4, <2>1, <2>2, SMT
<1>6. g = z
  <2>1. g = [c \in MS!Cores |-> g[c]]
    BY <1>1 DEF Assignments
  <2> QED  BY <1>5, <2>1
<1>7. s.power = 0
  <2>1. On(g) = {}
    BY <1>2, <1>5 DEF On
  <2>2. Cardinality(On(g)) = 0 /\ Total(g) = 0
    BY <1>1, <1>2, <1>5, <2>1, FS_EmptySet, SumOfZeros DEF Total
  <2>3. s.power = (0 + 0 * 1000000) \div 10000
    BY <1>1, <2>2, Properties, SMT
  <2> QED  BY <2>3, SMT
<1> QED  BY <1>1, <1>6, <1>7

\* It is no permutation.
LEMMA OffNotRedundant ==
    ASSUME MS!MachinesOK, machine \in Machines, FromTenMHz, NEW s \in All, s.speed = 0
    PROVE  ~MS!redundant_state(s)
<1>1. s.core = [c \in MS!Cores |-> 0]
  BY OffIs, Properties, SMT
<1>2. machine.cores \in Nat /\ MS!Cores = 0..(machine.cores - 1)
  BY StateFacts DEF MS!Cores
<1>3. \A c \in MS!Cores : c > 0 => c - 1 \in MS!Cores
  BY <1>2
<1>4. \A c \in MS!Cores : s.core[c] = 0
  BY <1>1
<1> QED  BY <1>3, <1>4 DEF MS!redundant_state

\* How far the frequencies are from the order redundant_state asks for.
Weighted(core) == [c \in DOMAIN core |-> c * core[c]]
Weight(core)   == SumFunctionOnSet(Weighted(core), DOMAIN core)

\* Two cores change places: the rest of the sum stays as it is.
LEMMA WeightOfSwap ==
    ASSUME NEW g, NEW h, NEW S, IsFiniteSet(S), DOMAIN g = S, DOMAIN h = S,
           NEW b \in S, NEW c \in S, c # b,
           \A x \in S : x * g[x] \in Int /\ x * h[x] \in Int,
           \A x \in S \ {c, b} : h[x] = g[x]
    PROVE  \E r \in Int : /\ Weight(g) = c * g[c] + (b * g[b] + r)
                          /\ Weight(h) = c * h[c] + (b * h[b] + r)
<1>1. PICK u, v : u = Weighted(g) /\ v = Weighted(h)
  OBVIOUS
<1>2. /\ Weight(g) = SumFunctionOnSet(u, S) /\ Weight(h) = SumFunctionOnSet(v, S)
      /\ \A x \in S : u[x] = x * g[x] /\ v[x] = x * h[x]
  BY <1>1 DEF Weighted, Weight
<1>3. \A x \in S : u[x] \in Int /\ v[x] \in Int
  BY <1>2
<1>4. \A x \in S \ {c, b} : v[x] = u[x]
  BY <1>2
<1>5. PICK r \in Int : /\ SumFunctionOnSet(u, S) = u[c] + (u[b] + r)
                       /\ SumFunctionOnSet(v, S) = v[c] + (v[b] + r)
  BY <1>3, <1>4, SumsButTwo
<1> QED  BY <1>2, <1>5

\* If they are neighbours in the wrong order, this brings them nearer to the right one.
LEMMA SwapLighter ==
    ASSUME NEW b \in Nat, NEW x \in Nat, NEW y \in Nat, x > y
    PROVE  (b + 1) * y + (b * x) < (b + 1) * x + (b * y)
<1>1. \A z, n \in Nat : n * z \in Nat /\ (n + 1) * z = n * z + z
  OBVIOUS
<1>2. /\ b * x \in Nat /\ b * y \in Nat
      /\ (b + 1) * x = b * x + x /\ (b + 1) * y = b * y + y
  BY <1>1
<1> QED  BY <1>2

\* Each speed and power that there is is that of a state that redundant_state keeps.
LEMMA SomeNotRedundant ==
    ASSUME MS!MachinesOK, machine \in Machines, NEW s \in All
    PROVE  \E o \in All : /\ o.speed = s.speed /\ o.power = s.power
                          /\ ~MS!redundant_state(o)
<1> DEFINE Kind == {o \in All : o.speed = s.speed /\ o.power = s.power}
           Weights == {Weight(o.core) : o \in Kind}
<1>1. /\ IsFiniteSet(MS!Cores) /\ MS!Cores \in SUBSET Nat
      /\ \A o \in All : o.core \in [MS!Cores -> Nat]
  <2>1. MS!Range(machine.freqs) \subseteq Nat /\ \A o \in All : o.core \in Assignments
    BY StateFacts
  <2> QED  BY <2>1, StateFacts DEF Assignments
<1>2. ASSUME NEW core \in [MS!Cores -> Nat] PROVE Weight(core) \in Nat
  <2>1. \A x \in MS!Cores : Weighted(core)[x] \in Nat
    <3>1. \A x, y \in Nat : x * y \in Nat
      OBVIOUS
    <3> QED  BY <1>1, <3>1 DEF Weighted
  <2> QED  BY <1>1, <2>1, SumNat DEF Weight
<1>3. Weights \in SUBSET Nat /\ Weights # {}
  BY <1>1, <1>2
<1>4. PICK w \in Weights : \A x \in Weights : w <= x
  <2> HIDE DEF Weights
  <2> QED  BY <1>3, Least
<1>5. PICK o \in Kind : w = Weight(o.core)
  BY <1>4
<1>6. \A x \in Kind : Weight(o.core) <= Weight(x.core)
  BY <1>4, <1>5
<1>7. SUFFICES ASSUME NEW c \in MS!Cores, c > 0, o.core[c] > o.core[c - 1]
               PROVE  FALSE
  BY <1>5 DEF MS!redundant_state
<1>8. PICK x \in All : /\ x.speed = o.speed /\ x.power = o.power
                       /\ x.core[c] = o.core[c - 1] /\ x.core[c - 1] = o.core[c]
                       /\ \A d \in MS!Cores \ {c - 1, c} : x.core[d] = o.core[d]
  BY <1>5, <1>7, Swapped
<1>9. x \in Kind /\ o \in All
  BY <1>5, <1>8
<1> HIDE DEF Kind, Weights
<1>10. PICK b \in MS!Cores : b = c - 1 /\ c = b + 1 /\ c # b
  BY <1>7, StateFacts DEF MS!Cores
<1> DEFINE g == o.core
           h == x.core
<1>11. /\ h \in [MS!Cores -> Nat] /\ g \in [MS!Cores -> Nat]
       /\ g[c] > g[b] /\ h[c] = g[b] /\ h[b] = g[c]
       /\ \A d \in MS!Cores \ {c, b} : h[d] = g[d]
  BY <1>1, <1>7, <1>8, <1>9, <1>10
<1> HIDE DEF g, h
<1>12. PICK r \in Int : /\ Weight(g) = c * g[c] + (b * g[b] + r)
                        /\ Weight(h) = c * h[c] + (b * h[b] + r)
  <2>1. \A d \in MS!Cores : d * g[d] \in Int /\ d * h[d] \in Int
    <3>1. \A n, z \in Nat : n * z \in Int
      OBVIOUS
    <3> QED  BY <1>1, <1>11, <3>1
  <2>2. DOMAIN g = MS!Cores /\ DOMAIN h = MS!Cores
    BY <1>11
  <2>3. \A d \in MS!Cores \ {c, b} : h[d] = g[d]
    BY <1>11
  <2>4. IsFiniteSet(MS!Cores) /\ b \in MS!Cores /\ c \in MS!Cores /\ c # b
    BY <1>1, <1>7, <1>10
  <2>5. \E r \in Int : /\ Weight(g) = c * g[c] + (b * g[b] + r)
                       /\ Weight(h) = c * h[c] + (b * h[b] + r)
    BY <2>1, <2>2, <2>3, <2>4, WeightOfSwap, SMTT(30)
  <2> QED  BY <2>5
<1>13. Weight(h) < Weight(g)
  <2>1. b \in Nat /\ g[c] \in Nat /\ g[b] \in Nat
    BY <1>1, <1>10, <1>11
  <2>2. c * g[b] + (b * g[c]) < c * g[c] + (b * g[b])
    BY <1>10, <1>11, <2>1, SwapLighter
  <2>3. c * g[b] \in Int /\ b * g[c] \in Int /\ c * g[c] \in Int /\ b * g[b] \in Int
    <3>1. \A n, z \in Int : n * z \in Int
      OBVIOUS
    <3> QED  BY <1>10, <2>1, <3>1
  <2> QED  BY <1>11, <1>12, <2>2, <2>3
<1>14. Weight(g) \in Nat /\ Weight(h) \in Nat
  BY <1>2, <1>11
<1> QED  BY <1>6, <1>9, <1>13, <1>14 DEF g, h
-----------------------------------------------------------------------------
(* What it prints is the table *)

\* -r -p -u
AllOptions == {"r", "p", "u"}

\* Each state is once in the list, and what the filter has passed so far is what main
\* has printed by then, after its first line.
PrintInv ==
    /\ \A p, q \in DOMAIN sorted : p # q => sorted[p] # sorted[q]
    /\ \A p \in DOMAIN sorted : sorted[p] \notin unsorted
    /\ in_state = 1 => states = << >>
    /\ in_state > 1 => Lines(AllOptions, sorted)[in_state - 1] = <<sorted[1]>> \o states

\* From the second entry on, all states have a core on.
LEMMA OthersAreOn ==
    ASSUME TableInv, PrintInv, FromTenMHz, NEW n \in DOMAIN sorted, n # 1
    PROVE  sorted[n].speed > 0
<1>1. machine \in Machines /\ MS!MachinesOK
  BY MachineStatesAssumption DEF TableInv, BuildTypes
<1>2. /\ sorted[n] \in All /\ sorted[n].speed \in Nat /\ sorted # << >>
      /\ \A p \in DOMAIN sorted : sorted[p] \in All
  BY ListOrder
<1>3. 1 \in DOMAIN sorted /\ sorted[1].speed = 0
  BY <1>2, FirstIsOff
<1>4. sorted[n] # sorted[1]
  BY <1>3 DEF PrintInv
<1>5. sorted[n].speed # 0
  BY <1>1, <1>2, <1>3, <1>4, OffIs
<1> QED  BY <1>2, <1>5

\* With all options main prints what the filter lets pass, and the first line.
LEMMA AllShown ==
    ASSUME TableInv, PrintInv, FromTenMHz, NEW n \in DOMAIN sorted
    PROVE  /\ Shown(AllOptions, sorted, n) <=> n = 1 \/ Kept(n)
           /\ n = 1 => ~Kept(n)
<1>1. Shown(AllOptions, sorted, n) <=> /\ ~MS!redundant_state(sorted[n])
                                       /\ ~MS!drop_equivalent(n)
                                       /\ MS!pareto_optimal(n)
  BY DEF Shown, AllOptions, Of!redundant_state, MS!redundant_state, Of!Cores, MS!Cores,
         Of!drop_equivalent, MS!drop_equivalent, Of!pareto_optimal, MS!pareto_optimal,
         Of!AsFast, MS!AsFast
<1>2. CASE n # 1
  <2>1. sorted[n].speed > 0
    BY <1>2, OthersAreOn
  <2> QED  BY <1>1, <1>2, <2>1 DEF Kept
<1>3. CASE n = 1
  <2>1. /\ machine \in Machines /\ MS!MachinesOK /\ sorted[1] \in All /\ sorted # << >>
        /\ \A p \in DOMAIN sorted : sorted[p].power \in Nat
        /\ DOMAIN sorted = 1..Len(sorted) /\ Len(sorted) \in Nat
    BY <1>3, ListOrder, MachineStatesAssumption DEF TableInv, BuildTypes
  <2>2. sorted[1].speed = 0 /\ sorted[1].power = 0 /\ ~MS!redundant_state(sorted[1])
    BY <2>1, FirstIsOff, OffIs, OffNotRedundant
  <2>3. MS!AsFast(1) = {}
    BY DEF MS!AsFast
  <2>4. ~MS!drop_equivalent(1)
    BY <2>3 DEF MS!drop_equivalent
  <2>5. MS!pareto_optimal(1)
    <3>1. \A k \in (1 + 1)..Len(sorted) : k \in DOMAIN sorted
      BY <2>1
    <3>2. \A k \in (1 + 1)..Len(sorted) : sorted[k].power >= sorted[1].power
      BY <2>1, <2>2, <3>1
    <3> QED  BY <2>3, <3>2 DEF MS!pareto_optimal
  <2>6. ~Kept(1)
    BY <2>2 DEF Kept
  <2> QED  BY <1>1, <1>3, <2>2, <2>4, <2>5, <2>6
<1> QED  BY <1>2, <1>3

\* Nothing is sorted yet.
LEMMA PrintBegins == MS!Init => PrintInv
<1> SUFFICES ASSUME MS!Init PROVE PrintInv
  OBVIOUS
<1>1. sorted = << >> /\ in_state = 1 /\ states = << >>
  BY DEF MS!Init
<1>2. DOMAIN sorted = {}
  BY <1>1
<1> QED  BY <1>1, <1>2 DEF PrintInv

\* qsort takes the state it places out of the others.
LEMMA PrintSort == ASSUME TableInv, PrintInv, MS!Sort PROVE PrintInv'
<1>1. /\ init_pc = "sort" /\ in_state' = in_state /\ states' = states
  BY DEF MS!Sort
<1>2. PICK s \in unsorted : sorted' = Append(sorted, s) /\ unsorted' = unsorted \ {s}
  BY DEF MS!Sort
<1>3. sorted \in Seq(All) /\ s \in All /\ states = << >> /\ in_state = 1
  BY <1>1 DEF TableInv, BuildTypes, Phases
<1> DEFINE z == Len(sorted)
<1>4. /\ z \in Nat /\ DOMAIN sorted = 1..z /\ DOMAIN sorted' = 1..(z + 1)
      /\ sorted'[z + 1] = s /\ \A p \in DOMAIN sorted : sorted'[p] = sorted[p]
  BY <1>2, <1>3
<1> HIDE DEF z
<1>5. \A p \in DOMAIN sorted' : p \in DOMAIN sorted \/ p = z + 1
  BY <1>4
<1>6. /\ \A p, q \in DOMAIN sorted : p # q => sorted[p] # sorted[q]
      /\ \A p \in DOMAIN sorted : sorted[p] \notin unsorted
  BY DEF PrintInv
<1>7. \A p, q \in DOMAIN sorted' : p # q => sorted'[p] # sorted'[q]
  <2>1. \A p \in DOMAIN sorted : sorted'[p] # s
    BY <1>2, <1>4, <1>6
  <2> QED  BY <1>4, <1>5, <1>6, <2>1
<1>8. \A p \in DOMAIN sorted' : sorted'[p] \notin unsorted'
  BY <1>2, <1>4, <1>5, <1>6
<1>9. in_state' = 1 /\ states' = << >> /\ ~(in_state' > 1)
  BY <1>1, <1>3
<1> QED  BY <1>7, <1>8, <1>9 DEF PrintInv

\* The filter and the loop of main look at the same entry.
LEMMA PrintFilter ==
    ASSUME TableInv, PrintInv, FromTenMHz, MS!Filter
    PROVE  PrintInv'
<1> DEFINE n == in_state
           F == Lines(AllOptions, sorted)
<1>1. /\ init_pc = "filter" /\ unsorted' = unsorted /\ sorted' = sorted
      /\ machine' = machine /\ in_state' = n + 1
      /\ states' = IF Kept(n) THEN Append(states, sorted[n]) ELSE states
  BY DEF MS!Filter, Kept
<1>2. n \in DOMAIN sorted /\ n \in Nat \ {0} /\ sorted \in Seq(All) /\ states \in Seq(All)
  BY <1>1 DEF TableInv, BuildTypes, Phases
<1>3. Lines(AllOptions, sorted)' = F
  BY <1>1 DEF Lines, Line, Shown, Of!redundant_state, Of!Cores, Of!drop_equivalent,
              Of!pareto_optimal, Of!AsFast
<1>4. n \in 1..Len(sorted) /\ Len(sorted) \in Nat /\ 1 \in DOMAIN sorted /\ sorted[1] \in All
      /\ sorted[n] \in All
  BY <1>2
<1>5. /\ F[0] = << >>
      /\ F[n] = IF Shown(AllOptions, sorted, n) THEN Append(F[n - 1], sorted[n]) ELSE F[n - 1]
  BY <1>4, LinesAre
<1>6. /\ Shown(AllOptions, sorted, n) <=> n = 1 \/ Kept(n)
      /\ n = 1 => ~Kept(n)
  BY <1>2, AllShown
<1>7. /\ n = 1 => states = << >>
      /\ n > 1 => F[n - 1] = <<sorted[1]>> \o states
  BY DEF PrintInv
<1> HIDE DEF F
<1>8. F[n] = <<sorted[1]>> \o states'
  <2>1. CASE n = 1
    <3>1. F[n] = Append(<< >>, sorted[1])
      <4>1. n - 1 = 0
        BY <2>1
      <4> QED  BY <1>5, <1>6, <2>1, <4>1
    <3>2. states' = << >>
      BY <1>1, <1>6, <1>7, <2>1
    <3>3. Append(<< >>, sorted[1]) = <<sorted[1]>> \o << >>
      OBVIOUS
    <3> QED  BY <3>1, <3>2, <3>3
  <2>2. CASE n # 1 /\ Kept(n)
    <3>1. n > 1
      BY <1>2, <2>2
    <3>2. F[n] = Append(<<sorted[1]>> \o states, sorted[n])
      BY <1>5, <1>6, <1>7, <2>2, <3>1
    <3>3. states' = Append(states, sorted[n])
      BY <1>1, <2>2
    <3>4. \A x, y \in All : \A S \in Seq(All) :
             Append(<<x>> \o S, y) = <<x>> \o Append(S, y)
      OBVIOUS
    <3> QED  BY <1>2, <1>4, <3>2, <3>3, <3>4
  <2>3. CASE n # 1 /\ ~Kept(n)
    <3>1. n > 1
      BY <1>2, <2>3
    <3> QED  BY <1>1, <1>5, <1>6, <1>7, <2>3, <3>1
  <2> QED  BY <2>1, <2>2, <2>3
<1>9. in_state' # 1 /\ in_state' - 1 = n
  BY <1>1, <1>2
<1>10. /\ \A p, q \in DOMAIN sorted : p # q => sorted[p] # sorted[q]
       /\ \A p \in DOMAIN sorted : sorted[p] \notin unsorted
  BY DEF PrintInv
<1>11. (Lines(AllOptions, sorted)[in_state - 1] = <<sorted[1]>> \o states)'
  BY <1>1, <1>3, <1>8, <1>9
<1> QED  BY <1>1, <1>9, <1>10, <1>11 DEF PrintInv

\* The search leaves both as they are.
LEMMA PrintStays == ASSUME PrintInv, UNCHANGED building PROVE PrintInv'
<1>1. UNCHANGED <<machine, unsorted, sorted, in_state, states>>
  BY DEF building
<1>2. Lines(AllOptions, sorted)' = Lines(AllOptions, sorted)
  BY <1>1 DEF Lines, Line, Shown, Of!redundant_state, Of!Cores, Of!drop_equivalent,
              Of!pareto_optimal, Of!AsFast
<1> QED  BY <1>1, <1>2 DEF PrintInv

\* At every entry, the filter has passed what main has printed, the first line aside.
THEOREM PrintInvariance == ASSUME FromTenMHz PROVE ActuatorSpec => [](ActuatorInv /\ PrintInv)
<1>1. ActuatorInit => PrintInv
  BY PrintBegins DEF ActuatorInit
<1>2. ASSUME ActuatorInv, PrintInv, [Build \/ Ask \/ Search]_<<building, vars>>
      PROVE  PrintInv'
  <2>1. CASE Build
    <3>1. TableInv
      BY <1>2 DEF ActuatorInv
    <3> QED  BY <1>2, <2>1, <3>1, PrintSort, PrintFilter DEF Build
  <2>2. CASE ~Build
    <3>1. UNCHANGED building
      BY <1>2, <2>2 DEF Ask, Search
    <3> QED  BY <1>2, <3>1, PrintStays
  <2> QED  BY <2>1, <2>2
<1> QED  BY <1>1, <1>2, ActuatorInvariance, PTL DEF ActuatorSpec
-----------------------------------------------------------------------------
(* One pass, the same again, or two *)

\* The list of the service is one that qsort sorted.
LEMMA SortedIsSorted == ASSUME TableInv PROVE SortedList(sorted)
<1>1. sorted \in Seq(All)
  BY DEF TableInv, BuildTypes
<1> QED  BY <1>1, ListOrder DEF SortedList

\* Its first line is the machine that is off, and the only one of speed 0.
LEMMA FirstIsAlone ==
    ASSUME TableInv, PrintInv, FromTenMHz
    PROVE  FirstAlone(sorted)
<1> SUFFICES ASSUME NEW n \in 1..Len(sorted), n # 1 PROVE sorted[n].speed # sorted[1].speed
  BY DEF FirstAlone
<1>1. n \in DOMAIN sorted /\ sorted # << >> /\ sorted[n].speed \in Nat
  <2>1. sorted \in Seq(All)
    BY DEF TableInv, BuildTypes
  <2>2. n \in DOMAIN sorted /\ sorted # << >>
    BY <2>1
  <2> QED  BY <2>2, ListOrder
<1>2. sorted[1].speed = 0
  BY <1>1, FirstIsOff
<1>3. sorted[n].speed > 0
  BY <1>1, OthersAreOn
<1> QED  BY <1>1, <1>2, <1>3

\* A speed that is worth its power is left by two passes: the first keeps a state for
\* it that no permutation can be dropped for, and of these the second keeps the first.
LEMMA TwoPasses ==
    ASSUME TableInv, unsorted = {}, NEW s \in MS!Range(sorted), MS!Frugal(s),
           NEW M \in Resorted(Printed({"r"}, sorted))
    PROVE  \E l \in MS!Range(Printed({"p", "u"}, M)) : l.speed = s.speed /\ l.power = s.power
<1> DEFINE L == sorted
           O == Printed({"r"}, L)
           N == Printed({"p", "u"}, M)
<1>1. /\ machine \in Machines /\ MS!MachinesOK /\ s \in All
      /\ L \in Seq(All) /\ MS!Range(sorted) = All /\ DOMAIN sorted = 1..Len(L)
  <2>1. sorted \in Seq(All) /\ machine \in Machines /\ unsorted \cup MS!Range(sorted) = All
    BY DEF TableInv, BuildTypes
  <2> QED  BY <2>1, MachineStatesAssumption
<1>2. SortedList(L)
  BY SortedIsSorted
<1>3. PICK at : From({"r"}, L, Len(L), O, at)
  BY <1>1, PrintedFrom
<1>r. SortedList(M) /\ \E by : Rearranged(O, M, by)
  <2>1. M \in Resorted(O)
    OBVIOUS
  <2> HIDE DEF O, L
  <2>2. SortedList(O)
    BY <1>2, <1>3, SomeLinesSorted
  <2>3. O \in Seq(All) /\ \A p \in 1..Len(O) : O[p].speed \in Nat /\ O[p].power \in Nat
    BY <2>2 DEF SortedList
  <2> QED  BY <2>1, <2>3, ResortedIs
<1>4. SortedList(M)
  BY <1>r
<1>b. PICK by : Rearranged(O, M, by)
  BY <1>r
<1>5. PICK to : From({"p", "u"}, M, Len(M), N, to)
  <2>1. M \in Seq(All)
    BY <1>4 DEF SortedList
  <2> QED  BY <2>1, PrintedFrom
<1> HIDE DEF L, N, O
<1> DEFINE Kind == {j \in 1..Len(M) : M[j].speed = s.speed /\ M[j].power = s.power}
<1>6. Kind # {}
  <2>1. PICK o \in All : /\ o.speed = s.speed /\ o.power = s.power
                         /\ ~MS!redundant_state(o)
    BY <1>1, SomeNotRedundant
  <2>2. PICK p \in 1..Len(L) : L[p] = o
    BY <1>1 DEF MS!Range, L
  <2>3. Shown({"r"}, L, p)
    <3>1. ~Of(L)!redundant_state(L[p])
      BY <2>1, <2>2 DEF Of!redundant_state, Of!Cores, MS!redundant_state, MS!Cores
    <3>2. "u" \notin {"r"} /\ "p" \notin {"r"}
      OBVIOUS
    <3> QED  BY <3>1, <3>2 DEF Shown
  <2>4. PICK h \in 1..Len(O) : at[h] = p
    BY <1>3, <2>3 DEF From
  <2>5. O[h] = o
    BY <1>3, <2>2, <2>4 DEF From
  <2>6. PICK j \in 1..Len(M) : by[j] = h
    BY <1>b, <2>4 DEF Rearranged
  <2>7. M[j] = o
    BY <1>b, <2>5, <2>6 DEF Rearranged
  <2> QED  BY <2>1, <2>7
<1>7. PICK m \in Kind : \A j \in Kind : m <= j
  <2>1. Kind \in SUBSET Nat
    OBVIOUS
  <2> HIDE DEF Kind
  <2> QED  BY <1>6, <2>1, Least
<1>8. m \in 1..Len(M) /\ M[m].speed = s.speed /\ M[m].power = s.power
  BY <1>7
<1>9. \A j \in 1..Len(M) : M[j].speed = s.speed /\ M[j].power = s.power => m <= j
  BY <1>7
<1> HIDE DEF Kind
<1>10. ~Of(M)!drop_equivalent(m)
  <2>1. SUFFICES ASSUME NEW k \in Of(M)!AsFast(m), M[k].power = M[m].power
                 PROVE  FALSE
    BY DEF Of!drop_equivalent
  <2>2. k \in 1..Len(M) /\ k < m /\ M[k].speed = M[m].speed
    BY <1>4, <1>8, AsFastIn
  <2>3. m <= k
    BY <1>8, <1>9, <2>1, <2>2
  <2> QED  BY <1>8, <2>2, <2>3
<1>11. Of(M)!pareto_optimal(m)
  <2>1. ASSUME NEW k \in 1..Len(M), M[k].speed >= M[m].speed PROVE M[k].power >= M[m].power
    <3>1. M[k] \in MS!Range(sorted)
      BY <1>1, <1>4 DEF SortedList
    <3> QED  BY <1>8, <2>1, <3>1 DEF MS!Frugal
  <2> QED  BY <1>4, <1>8, <2>1, ParetoMeans
<1>12. Shown({"p", "u"}, M, m)
  <2>1. "r" \notin {"p", "u"}
    OBVIOUS
  <2> QED  BY <1>10, <1>11, <2>1 DEF Shown
<1>13. PICK j \in 1..Len(N) : to[j] = m
  BY <1>5, <1>8, <1>12 DEF From
<1>14. N[j] = M[m] /\ N \in Seq(All)
  BY <1>5, <1>13 DEF From
<1>15. N[j] \in MS!Range(N)
  <2>1. j \in DOMAIN N
    BY <1>14
  <2> QED  BY <2>1 DEF MS!Range
<1> QED  BY <1>8, <1>14, <1>15 DEF N

\* For every machine whose frequencies are 10 MHz at least, and any order in which the
\* first qsort, and the second of a run that reads the output again, may leave equal
\* states: what powerstates prints can stand for the table of machine_speed_init, also
\* when it is read and sorted again or made in two passes (powerstates.c:142-172).
THEOREM PrinterCorrect == ASSUME FromTenMHz PROVE ActuatorSpec => []PrinterAgrees
<1>1. ActuatorInv /\ PrintInv => PrinterAgrees
  <2> SUFFICES ASSUME ActuatorInv, PrintInv, init_pc = "done"
               PROVE  PrintsTable /\ PrintsAgain /\ TwoPassesKeep
    BY DEF PrinterAgrees, Built
  <2>1. /\ TableInv /\ unsorted = {} /\ in_state = Len(sorted) + 1
        /\ in_state \in Nat \ {0} /\ sorted \in Seq(All)
    BY DEF ActuatorInv, TableInv, Phases, BuildTypes
  <2>2. PrintsTable
    <3>1. sorted # << >>
      <4>1. MS!Range(sorted) = All
        BY <2>1 DEF TableInv, BuildTypes
      <4>2. All # {}
        BY <2>1, OffState, MachineStatesAssumption DEF TableInv, BuildTypes
      <4> QED  BY <4>1, <4>2 DEF MS!Range
    <3>2. Len(sorted) \in Nat /\ Len(sorted) # 0
      BY <2>1, <3>1
    <3>3. in_state > 1 /\ in_state - 1 = Len(sorted)
      BY <2>1, <3>2
    <3>4. Lines(AllOptions, sorted)[Len(sorted)] = <<sorted[1]>> \o states
      BY <3>3 DEF PrintInv
    <3> QED  BY <3>4, PrintedByRecursion DEF PrintsTable, AllOptions
  <2>3. PrintsAgain
    <3>1. FirstAlone(sorted)
      BY <2>1, FirstIsAlone
    <3> QED  BY <2>1, <3>1, SortedIsSorted, PrintedTwice DEF PrintsAgain
  <2>4. TwoPassesKeep
    BY <2>1, TwoPasses DEF TwoPassesKeep, Range, MS!Range
  <2> QED  BY <2>2, <2>3, <2>4
<1> QED  BY <1>1, PrintInvariance, PTL
=============================================================================
