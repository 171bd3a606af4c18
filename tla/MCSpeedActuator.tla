-------------------------- MODULE MCSpeedActuator ---------------------------
EXTENDS Powerstates

\* Frequencies of the machine in Test/scaling_available_frequencies, in kHz and
\* the driver's order.  After the division 2668 and 2667 MHz have the same speed,
\* and so have 2668 and twice 1333 MHz, and 1733 + 1200 and twice 1467 MHz.
Small == {[cores |-> 2, freqs |-> <<2668000, 2667000>>],
          [cores |-> 2, freqs |-> <<2668000, 1333000, 1200000>>],
          [cores |-> 2, freqs |-> <<1733000, 1467000, 1200000>>],
          [cores |-> 2, freqs |-> <<2000000, 500000>>],
          [cores |-> 3, freqs |-> <<1600000>>],
          [cores |-> 1, freqs |-> <<1600000>>],
          [cores |-> 1, freqs |-> <<2668000, 2533000, 2400000, 2133000,
                                    2000000, 1867000, 1733000, 1600000>>]}

\* The tables of MachineSpeed's own Init, which the assumption is evaluated on;
\* here each table comes from the filter.
Ascending(S) == [k \in 0..(Cardinality(S) - 1) |->
                    CHOOSE s \in S : Cardinality({r \in S : r < s}) = k]
MCTables == {Ascending(S) : S \in (SUBSET (1..6)) \ {{}}}
MCWanted(T) == T[0]..T[LastOf(T)]
=============================================================================
