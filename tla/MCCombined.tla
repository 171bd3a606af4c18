----------------------------- MODULE MCCombined -----------------------------
EXTENDS Combined, TLC

\* Two cores, and the table that machine_speed_init makes of their states when
\* a core that is on costs more than the lower frequency saves.
MCFreqArray == 0 :> 4 @@ 1 :> 2
MCStates == 0 :> [on |-> 1, core |-> (0 :> 2), speed |-> 2]
         @@ 1 :> [on |-> 1, core |-> (0 :> 4), speed |-> 4]
         @@ 2 :> [on |-> 2, core |-> (0 :> 4 @@ 1 :> 2), speed |-> 6]
         @@ 3 :> [on |-> 2, core |-> (0 :> 4 @@ 1 :> 4), speed |-> 8]
MCDecisions == Heuristics \cup MachineControllers \cup {"core_p_controller"}
\* Actions do not fail, for the size of the run, under the two whose integral
\* multiplies the states, nor under the one that is two others at once.
MCUnreliable == MCDecisions \ {"uncoordinated_heuristics",
    "machine_state_pseudo_pi_controller", "machine_state_histeresis_pseudo_pi_controller"}
=============================================================================
