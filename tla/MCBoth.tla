------------------------------- MODULE MCBoth -------------------------------
EXTENDS Both, TLC

MCFreqArray == 0 :> 4 @@ 1 :> 2
=============================================================================
