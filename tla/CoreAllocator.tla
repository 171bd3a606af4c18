--------------------------- MODULE CoreAllocator ----------------------------
(***************************************************************************)
(* core-allocator.c: one core more for an application that is too slow,    *)
(* one less for one that is too fast, by taskset.  The service never reads *)
(* how many cores the application has: get_current_cores_assigned counts   *)
(* the bits of a variable it never sets (proc is opened and closed, not    *)
(* read), so nprocs starts at any value, and system()'s result is ignored. *)
(*                                                                         *)
(* Each Fault_x is a faulty variant of a definition near it: the           *)
(* properties tell it from the code.                                       *)
(***************************************************************************)
EXTENDS ServiceLoop

CONSTANT Guesses   \* what get_current_cores_assigned may return: 0..32

VARIABLES mask,     \* the cores the application may run on
          nprocs,   \* the number the service believes
          ca,       \* the locals of its loop
          placed    \* history: a taskset of the service has worked

vars == <<application, mask, nprocs, ca, placed>>

Init == /\ Begin
        /\ mask \in (SUBSET Cpus) \ {{}}
        /\ nprocs \in Guesses
        /\ ca = Start
        /\ placed = FALSE

Poll == /\ ca.pc = "poll" /\ rate # 0
        /\ ca' = Polled(ca)
        /\ UNCHANGED <<application, mask, nprocs, placed>>

\* taskset -pc 0-<n-1>: cores the machine does not have are ignored, "0--1" is no
\* list of cores, and an application that has ended cannot be found.
Fault_Cores(n) == 0..n
Cores(n) == 0..(n - 1)
taskset(n) ==
    IF n > 0 /\ app = "up"
      THEN mask' = Cores(n) \cap Cpus /\ placed' = TRUE
      ELSE UNCHANGED <<mask, placed>>

Decide == ca.pc = "decide" /\ ca' = Decided(ca) /\ UNCHANGED application

Add == /\ Decide /\ TooSlow(ca) /\ nprocs < Ncpus
       /\ nprocs' = nprocs + 1
       /\ taskset(nprocs + 1)
Fault_TakeLast ==
    /\ Decide /\ TooFast(ca)
    /\ nprocs' = nprocs - 1
    /\ taskset(nprocs - 1)
Take == /\ Decide /\ TooFast(ca) /\ nprocs > 0
        /\ nprocs' = nprocs - 1
        /\ taskset(nprocs - 1)
Keep == /\ Decide
        /\ TooSlow(ca) => nprocs >= Ncpus
        /\ TooFast(ca) => nprocs <= 0
        /\ UNCHANGED <<mask, nprocs, placed>>

Step == Poll \/ Add \/ Take \/ Keep
-----------------------------------------------------------------------------
\* The type invariant: the application always has a core, the count no more than the
\* guess it starts from allows.
TypeOK == /\ mask \in (SUBSET Cpus) \ {{}}
          /\ nprocs \in (0..32) \cup (0..Ncpus)
          /\ ca \in Loops
          /\ placed \in BOOLEAN

\* The service keeps its own count from a start nobody knows, and goes down to 0,
\* where taskset refuses; still, from the first taskset that works on, the
\* application has exactly the cores of that count, and core 0 at least.
CountKept ==
    placed /\ app = "up" => mask = {c \in Cpus : c < nprocs \/ c = 0}
=============================================================================
