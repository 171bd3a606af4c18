--------------------------- MODULE MachineStates ----------------------------
(***************************************************************************)
(* machine_states.c and machine_speed_init (combined.c): all assignments   *)
(* of a frequency, or of 0 for "off", to the cores; sorted by speed; then  *)
(* filtered to the table that machine_speed_act searches.  The filter      *)
(* looks at each state and at its neighbours in the sorted list, so what   *)
(* it keeps depends on the order qsort leaves equal states in.             *)
(*                                                                         *)
(* Each Fault_x is a faulty variant of a definition near it: the           *)
(* properties tell it from the code.                                       *)
(***************************************************************************)
EXTENDS Integers, Sequences, FiniteSets, Functions

CONSTANTS Machines,    \* [cores, freqs]: the number of cores, and the list
                       \* of available frequencies in the driver's order
          Sorts        \* "stable": qsort keeps equal states in the order it
                       \* got them; "any": it leaves them in any order

MachinesOK ==
    /\ Sorts \subseteq {"stable", "any"}
    /\ \A m \in Machines : /\ m.cores \in Nat \ {0}
                           /\ m.freqs \in Seq(Nat \ {0})
                           /\ Len(m.freqs) > 0 /\ IsInjective(m.freqs)

VARIABLES machine,    \* the machine the service runs on
          sort,       \* what qsort does with equal states
          unsorted,   \* the states qsort has not placed yet
          sorted,     \* all_states, in the order of qsort
          i,          \* in_state: the entry the filter looks at
          states,     \* out_state: the table
          pc

Cores == 0..(machine.cores - 1)

\* calculate_state_properties: "completely made up!"
calculate_state_properties(core) ==
    LET sum == SumFunction(core)
        on  == Cardinality({c \in DOMAIN core : core[c] > 0})
    IN  [core  |-> core,
         speed |-> sum \div 10000,
         power |-> (sum + on * 1000000) \div 10000]

create_machine_states ==
    {calculate_state_properties(core) : core \in [Cores -> Range(machine.freqs) \cup {0}]}

\* compare_states_on_speed: by speed, equal speeds by decreasing power.
Before(a, b) ==
    \/ a.speed < b.speed
    \/ a.speed = b.speed /\ a.power > b.power

\* generate_machine_states_internal runs through the frequencies of the list
\* and then 0, the last core fastest.
Turn(x) == IF x = 0 THEN Len(machine.freqs) + 1
           ELSE CHOOSE k \in DOMAIN machine.freqs : machine.freqs[k] = x
Generated(a, b) ==
    \E c \in Cores : /\ \A d \in 0..(c - 1) : a.core[d] = b.core[d]
                     /\ Turn(a.core[c]) < Turn(b.core[c])

Init ==
    /\ machine \in Machines /\ sort \in Sorts
    /\ unsorted = create_machine_states
    /\ sorted = << >>
    /\ i = 1
    /\ states = << >>
    /\ pc = "sort"

\* qsort: equal states may come out in any order, unless the sort is stable.
Sort ==
    /\ pc = "sort" /\ unsorted # {}
    /\ \E s \in unsorted :
         /\ \A o \in unsorted \ {s} :
               ~Before(o, s) /\ (sort = "stable" /\ ~Before(s, o) => Generated(s, o))
         /\ sorted' = Append(sorted, s)
         /\ unsorted' = unsorted \ {s}
         /\ pc' = IF unsorted = {s} THEN "filter" ELSE "sort"
    /\ UNCHANGED <<machine, sort, i, states>>

\* "eliminate permutations by requiring that frequencies be monotonically
\* decreasing"
Fault_KeepPermutations(s) == FALSE
redundant_state(s) == \E c \in Cores : c > 0 /\ s.core[c] > s.core[c - 1]

\* The entries before n that are as fast: the loops of drop_equivalent and
\* pareto_optimal go back while the speed stays the same, and never reach the
\* first entry of the list.
AsFast(n) == {k \in 2..(n - 1) : \A l \in k..(n - 1) : sorted[l].speed >= sorted[n].speed}

Fault_NeverDrop(n) == FALSE
Fault_DropCheaper(n) == \E k \in AsFast(n) : sorted[k].power >= sorted[n].power
drop_equivalent(n) == \E k \in AsFast(n) : sorted[k].power = sorted[n].power

Fault_LookBackOnly(n) == \A k \in AsFast(n) : sorted[k].power >= sorted[n].power
Fault_NextOnly(n) ==
    \A k \in AsFast(n) \cup ({n + 1} \cap DOMAIN sorted) : sorted[k].power >= sorted[n].power
pareto_optimal(n) ==
    \A k \in AsFast(n) \cup (n + 1)..Len(sorted) : sorted[k].power >= sorted[n].power

\* One turn of the loop of machine_speed_init.
Fault_OneMore ==
    /\ pc = "filter"
    /\ states' = IF /\ ~redundant_state(sorted[i])
                    /\ ~drop_equivalent(i)
                    /\ pareto_optimal(i)
                    /\ sorted[i].speed > 0
                   THEN Append(states, sorted[i]) ELSE states
    /\ i' = i + 1
    /\ pc' = IF i > Len(sorted) THEN "done" ELSE "filter"
    /\ UNCHANGED <<machine, sort, unsorted, sorted>>
Filter ==
    /\ pc = "filter"
    /\ states' = IF /\ ~redundant_state(sorted[i])
                    /\ ~drop_equivalent(i)
                    /\ pareto_optimal(i)
                    /\ sorted[i].speed > 0
                   THEN Append(states, sorted[i]) ELSE states
    /\ i' = i + 1
    /\ pc' = IF i = Len(sorted) THEN "done" ELSE "filter"
    /\ UNCHANGED <<machine, sort, unsorted, sorted>>

-----------------------------------------------------------------------------
\* The type invariant: the sort and the filter lose and invent no state.
TypeOK ==
    /\ machine \in Machines /\ sort \in Sorts
    /\ unsorted \cup Range(sorted) = create_machine_states
    /\ Range(states) \subseteq Range(sorted)
    /\ pc \in {"sort", "filter", "done"}
    /\ pc = "filter" => i \in DOMAIN sorted

\* No other state is as fast for less power.
Frugal(s) == \A o \in Range(sorted) : o.speed >= s.speed => o.power >= s.power

\* machine_speed_act searches the table by bisection: it must be strictly
\* increasing in speed, although many states have the same speed; and what is
\* faster needs at least the power.
TableIncreasing ==
    \A k \in 2..Len(states) : /\ states[k - 1].speed < states[k].speed
                              /\ states[k - 1].power <= states[k].power

\* machine_speed_act counts the cores that are on up to the first that is off
\* and gives the application that many: every state of the table has its cores
\* on from core 0, and one at least.
CoresFromZero ==
    \A k \in DOMAIN states :
        \E n \in 1..machine.cores : \A c \in Cores : states[k].core[c] > 0 <=> c < n

\* All that is kept is frugal, although the filter compares with neighbours of
\* the sorted list only.
KeptFrugal == \A k \in DOMAIN states : Frugal(states[k])

\* Nothing is lost: for each frugal state, dropped as a permutation or as an
\* equivalent, the table has one of the same speed and power.  In particular the
\* table is never empty, and its last entry is the fastest state.
NothingLost ==
    \A s \in Range(sorted) : s.speed > 0 /\ Frugal(s) =>
        \E k \in DOMAIN states : states[k].speed = s.speed /\ states[k].power = s.power

\* With a sort that keeps equal states in order, nothing is lost, although each
\* test of the filter knows nothing of what the others drop.  In another order
\* drop_equivalent can drop a state for a permutation that redundant_state drops.
StableKept == pc = "done" /\ sort = "stable" => NothingLost
=============================================================================
