---------------------------- MODULE MCHeartRate -----------------------------
EXTENDS HeartRate, TLC

ThreadSymmetry == Permutations(Threads)
=============================================================================
