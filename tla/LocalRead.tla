----------------------------- MODULE LocalRead ------------------------------
(***************************************************************************)
(* Module Heartbeat, with a history of where each call of hb_get_current   *)
(* began: before the first heartbeat was published, when there is nothing  *)
(* to read, or after.                                                      *)
(***************************************************************************)
EXTENDS Heartbeat

VARIABLE began      \* history: valid was 1 when the reader's last call began

LocalInit == Init /\ began = [r \in Locals |-> FALSE]

LocalNext ==
    /\ Next
    /\ began' = [r \in Locals |-> IF rpc[r] = "idle" /\ rpc'[r] = "index"
                                    THEN valid = 1 ELSE began[r]]

LocalSpec == LocalInit /\ [][LocalNext]_<<vars, began>>

\* "Returns the record for the current heartbeat / currently may read old data"
\* (heartbeat-shared.c:143): the record may be old, but it is one record, if there
\* was one when the call began.
LocalReadsOneRecord ==
    \A r \in Locals, f, g \in Fields :
        rpc[r] = "return" /\ began[r] => copy[r][f] = copy[r][g]
=============================================================================
