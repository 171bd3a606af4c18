---------------------------- MODULE Powerstates -----------------------------
(***************************************************************************)
(* powerstates.c: a command that prints the sorted machine states, each of *)
(* the service's tests behind an option, and that reads what it printed    *)
(* (-f) in place of generating the states.  It is stated next to the table *)
(* of SpeedActuator, on the same sorted list.                              *)
(*                                                                         *)
(* Each Fault_x is a faulty variant of a definition near it: the           *)
(* properties tell it from the code.                                       *)
(***************************************************************************)
EXTENDS SpeedActuator

\* The tests look at a list.
Of(list) == INSTANCE MachineStates WITH sorted <- list, i <- in_state, pc <- init_pc

\* getopt
Options == SUBSET {"r", "p", "u"}

Fault_TakesOne(options, list, n) ==
    /\ "r" \in options => ~Of(list)!redundant_state(list[n])
    /\ "u" \in options => ~Of(list)!drop_equivalent(n)
    /\ "p" \in options /\ "u" \notin options => Of(list)!pareto_optimal(n)
Shown(options, list, n) ==
    /\ "r" \in options => ~Of(list)!redundant_state(list[n])
    /\ "u" \in options => ~Of(list)!drop_equivalent(n)
    /\ "p" \in options => Of(list)!pareto_optimal(n)

\* The loop of main: what is printed of the first n lines, and of all.
Printed(options, list) ==
    LET printed[n \in 0..Len(list)] ==
            IF n = 0 THEN << >>
            ELSE IF Shown(options, list, n) THEN Append(printed[n - 1], list[n])
                 ELSE printed[n - 1]
    IN  printed[Len(list)]

\* qsort on the lines that were read with -f: in order, and those that are equal in any
\* order.  An order lists the numbers of the lines that are placed.
Resorted(list) ==
    LET first(left) ==
            {k \in left : \A l \in left : ~MS!Before(list[l], list[k])}
        orders[n \in 0..Len(list)] ==
            IF n = 0 THEN {<< >>}
            ELSE UNION {{Append(order, k) : k \in first(DOMAIN list \ Range(order))} :
                           order \in orders[n - 1]}
    IN  {[n \in DOMAIN list |-> list[order[n]]] : order \in orders[Len(list)]}

Built == init_pc = "done" /\ table = [k \in {0} |-> 0]
-----------------------------------------------------------------------------
\* With all options it prints the table of the service, after a line of its own
\* for the machine with all cores off.
PrintsTable == Printed({"r", "p", "u"}, sorted) = <<sorted[1]>> \o states

\* Of what was printed, and is read and sorted again, every line is printed again,
\* wherever the second sort put it: the tests, which compare with neighbours only, and
\* never with the first line, need no line that is gone.
PrintsAgain ==
    \A options \in Options :
        \A again \in Resorted(Printed(options, sorted)) : Printed(options, again) = again

\* With the permutations taken out in a first pass, no speed that is worth its
\* power is lost to the order a sort left equal states in, as it may be when all
\* options are given at once.
TwoPassesKeep ==
    \A again \in Resorted(Printed({"r"}, sorted)) :
        LET lines == Range(Printed({"p", "u"}, again))
        IN  \A s \in Range(sorted) : MS!Frugal(s) =>
                \E l \in lines : l.speed = s.speed /\ l.power = s.power

\* What the command prints can stand for the table of the service: it is the same,
\* also in several passes, where it even keeps more.
PrinterAgrees == Built => PrintsTable /\ PrintsAgain /\ TwoPassesKeep
=============================================================================
