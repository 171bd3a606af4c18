---------------------------- MODULE MachineSpeed ----------------------------
(***************************************************************************)
(* machine_speed_act (combined.c) picks, from the table of machine states  *)
(* that machine_speed_init left sorted by speed, the state that implements *)
(* the wanted speed: a binary search that stops as soon as its interval    *)
(* has one entry, which it never looks at, and then a look at one          *)
(* neighbour.  The speeds of the table are a strictly increasing function  *)
(* on 0..state_count-1 (see MachineStates).                                *)
(*                                                                         *)
(* Each Fault_x is a faulty variant of a definition near it: the           *)
(* properties tell it from the code.                                       *)
(***************************************************************************)
EXTENDS SpeedTable

CONSTANTS Tables,    \* the tables considered: functions 0..n -> speeds
          Wanted(_)  \* the values set_value may have for a table

ASSUME MachineSpeedAssumption ==
    \A T \in Tables : /\ LastOf(T) \in Nat /\ T \in [0..LastOf(T) -> Nat]
                      /\ Increasing(T)
                      /\ Wanted(T) \subseteq Int

VARIABLES table,        \* the speeds of data->states
          set_value,    \* act->set_value
          f, t, i,      \* the interval of the search and its last probe
          pc,
          state         \* the entry that is implemented

vars == <<table, set_value, f, t, i, pc, state>>

\* The interval is the whole table.
Init ==
    /\ table \in Tables
    /\ set_value \in Wanted(table)
    /\ f = 0 /\ t = LastOf(table)
    /\ i = 0
    /\ pc = "probe"
    /\ state = 0

\* The call of machine_speed_act, for a table T and a wanted speed v.
Fault_CallWholeCount(T, v) ==
    /\ table' = T /\ set_value' = v
    /\ f' = 0 /\ t' = LastOf(T) + 1
    /\ i' = 0 /\ pc' = "probe"
    /\ UNCHANGED state
Call(T, v) ==
    /\ table' = T /\ set_value' = v
    /\ f' = 0 /\ t' = LastOf(T)
    /\ i' = 0 /\ pc' = "probe"
    /\ UNCHANGED state

\* One turn of the loop: probe the middle, halve, and go on while f < t.
Fault_KeepProbe ==
    /\ pc = "probe"
    /\ i' = (t + f) \div 2
    /\ f' = IF table[i'] < set_value THEN i' ELSE f
    /\ t' = IF table[i'] > set_value THEN i' - 1 ELSE t
    /\ pc' = IF table[i'] # set_value /\ f' < t' THEN "probe" ELSE "settle"
    /\ UNCHANGED <<table, set_value, state>>
Probe ==
    /\ pc = "probe"
    /\ i' = (t + f) \div 2
    /\ f' = IF table[i'] < set_value THEN i' + 1 ELSE f
    /\ t' = IF table[i'] > set_value THEN i' - 1 ELSE t
    /\ pc' = IF table[i'] # set_value /\ f' < t' THEN "probe" ELSE "settle"
    /\ UNCHANGED <<table, set_value, state>>

\* The last probe, or its neighbour.
Fault_NoNeighbour ==
    /\ pc = "settle"
    /\ state' = i
    /\ pc' = "done"
    /\ UNCHANGED <<table, set_value, f, t, i>>
Settle ==
    /\ pc = "settle"
    /\ state' = Closer(table, set_value, i)
    /\ pc' = "done"
    /\ UNCHANGED <<table, set_value, f, t, i>>

Done == pc = "done" /\ UNCHANGED vars

Next == Probe \/ Settle \/ Done

Spec == Init /\ [][Next]_vars
\* The search is straight-line code of one thread: it keeps running.
FairSpec == Spec /\ WF_vars(Probe \/ Settle)
-----------------------------------------------------------------------------
\* The type invariant: the search stays inside the table.
TypeOK ==
    /\ table \in [0..LastOf(table) -> Nat]
    /\ set_value \in Int
    /\ f \in 0..(LastOf(table) + 1) /\ t \in -1..LastOf(table)
    /\ i \in 0..LastOf(table) /\ state \in 0..LastOf(table)
    /\ pc \in {"probe", "settle", "done"}

\* Although the search leaves an entry unread and looks at one neighbour only,
\* no state of the table lies strictly between the one implemented and the
\* wanted speed: it is the next one below or the next one above.
NothingBetween ==
    pc = "done" => \A k \in DOMAIN table :
                      ~ \/ table[state] < table[k] /\ table[k] <= set_value
                        \/ set_value <= table[k] /\ table[k] < table[state]

\* Every search ends, whatever the table.
SearchEnds == pc # "done" ~> pc = "done"

\* The function gives what the loop does.
FunctionAgrees == pc = "done" => state = Implemented(table, set_value)
=============================================================================
