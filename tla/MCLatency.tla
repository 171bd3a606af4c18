----------------------------- MODULE MCLatency ------------------------------
EXTENDS Latency

\* Any tag of the exchange, and one that is not.
MCGarbage == {-2, -1, 0, 1, Iters, 77}
=============================================================================
