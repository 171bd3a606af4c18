------------------------------ MODULE MCScalers -----------------------------
EXTENDS Scalers, TLC

\* In kHz, some of the list of Test/scaling_available_frequencies, its two highest
\* among them.  get_speed makes 2678, 2677 and 1877 MHz of them.
MCFreqArray == 0 :> 2668000 @@ 1 :> 2667000 @@ 2 :> 1867000
=============================================================================
