---------------------------- MODULE MCDiscovery -----------------------------
EXTENDS Discovery

Left(f, s, v, a, n, d, l) ==
    [file |-> f, state |-> s, valid |-> v, at |-> a, shown |-> n, first |-> n - a,
     depth |-> d, log |-> l]

\* What a pid may have been left with: nothing; a file, by a process before a
\* reboot; a file and the segments, by one that died after its second beat; the
\* segments of one that finished, with the depth of a later one that died before it
\* reset valid.
MCLeftovers == {Left(FALSE, FALSE, FALSE, 0, 0, 0, 0), Left(TRUE, FALSE, FALSE, 0, 0, 0, 0),
                Left(TRUE, TRUE, TRUE, 1, 1, 2, 2),
                Left(FALSE, TRUE, TRUE, 0, Beats - 1, 2, 1)}
=============================================================================
