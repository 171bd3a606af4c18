--------------------------- MODULE SpeedActuator ----------------------------
(***************************************************************************)
(* The machine speed actuator of combined.c from end to end:               *)
(* machine_speed_init builds the table of module MachineStates once, and   *)
(* machine_speed_act (module MachineSpeed) then searches it each time a    *)
(* controller changes set_value, which it clips to the speeds of the first *)
(* and the last state.                                                     *)
(*                                                                         *)
(* Each Fault_x is a faulty variant of a definition near it: the           *)
(* properties tell it from the code.                                       *)
(***************************************************************************)
EXTENDS MachineSpeed, Sequences, FiniteSets, Functions

CONSTANTS Machines, Sorts    \* of MachineStates

VARIABLES machine, sort, unsorted, sorted, in_state, states, init_pc

building == <<machine, sort, unsorted, sorted, in_state, states, init_pc>>

MS == INSTANCE MachineStates WITH i <- in_state, pc <- init_pc

ASSUME MachineStatesAssumption == MS!MachinesOK

\* No search has run: set_value is value, the current speed.
ActuatorInit ==
    /\ MS!Init
    /\ table = [k \in {0} |-> 0] /\ set_value = 0
    /\ f = 0 /\ t = 0 /\ i = 0 /\ pc = "done" /\ state = 0

\* data->states, numbered from 0, as far as the search looks at it.
SpeedsOf == [k \in 0..(Len(states) - 1) |-> states[k + 1].speed]

\* A controller asks for any speed from act->min to act->max, of which those of
\* the table and those next to and between them are tried.
Asked ==
    LET last == LastOf(SpeedsOf)
        near == UNION {{SpeedsOf[k] - 1, SpeedsOf[k], SpeedsOf[k] + 1,
                        (SpeedsOf[k] + SpeedsOf[last]) \div 2} : k \in 0..last}
    IN  near \cap SpeedsOf[0]..SpeedsOf[last]

\* An unstable sort can leave an empty table, of which machine_speed_init then
\* reads the first and the last entry: what follows is undefined, and the system
\* stops here.
Ask == /\ init_pc = "done" /\ pc = "done" /\ states # << >>
       /\ \E v \in Asked : Call(SpeedsOf, v)
       /\ UNCHANGED building

Build  == (MS!Sort \/ MS!Filter) /\ UNCHANGED vars
Search == (Probe \/ Settle) /\ UNCHANGED building

ActuatorSpec == /\ ActuatorInit
                /\ [][Build \/ Ask \/ Search]_<<building, vars>>
                /\ WF_<<building, vars>>(Search)
-----------------------------------------------------------------------------
\* The type invariants, and what the filter of module MachineStates leaves: what the
\* search needs, strictly increasing in speed; every state with its cores on from
\* core 0; nothing that another state beats, though the filter compares neighbours
\* only; and, with a stable sort, every speed that is worth its power.
TableSound ==
    /\ MS!TypeOK /\ TypeOK
    /\ MS!TableIncreasing /\ MS!CoresFromZero /\ MS!KeptFrugal /\ MS!StableKept

\* From end to end: of all assignments of frequencies to cores, none that is
\* worth its power lies strictly between the speed asked for and the one that is
\* implemented, though the filter drops most of them, comparing neighbours only,
\* and the search never reads all of what is left.
NothingMissed ==
    pc = "done" /\ table # [k \in {0} |-> 0] /\ sort = "stable" =>
        \A s \in Range(sorted) : MS!Frugal(s) =>
            ~ \/ table[state] < s.speed /\ s.speed <= set_value
              \/ set_value <= s.speed /\ s.speed < table[state]
=============================================================================
