-------------------------- MODULE CommandLifecycle --------------------------
(***************************************************************************)
(* What a command provider promises the consumers that watch the command   *)
(* status instances it writes: for every session a life that opens with    *)
(* ISSUED, follows the transitions CommandStateMachine.h lists under       *)
(* "Valid Transitions", reaches a terminal status, and only then is        *)
(* disposed.  Several sessions may take a step together, and a step may    *)
(* write a terminal status and dispose the instance at once.               *)
(***************************************************************************)
CONSTANTS
    Sessions,
    CompletesEarly   \* whether COMPLETE_EXISTING is a behaviour in use

VARIABLE inst        \* per session: the last status written, and is it alive

NonTerminal == {"ISSUED", "COMMANDED", "EXECUTING"}
Terminal == {"COMPLETED", "CANCELED", "FAILED"}

\* "Valid Transitions": <<from, to, reason>>.
ValidTransitions ==
    (NonTerminal \X {"ISSUED"} \X {"UPDATED"}) \cup
    {<<"ISSUED", "COMMANDED", "SUCCEEDED">>,
     <<"COMMANDED", "EXECUTING", "SUCCEEDED">>,
     <<"EXECUTING", "COMPLETED", "SUCCEEDED">>} \cup
    (NonTerminal \X {"CANCELED"} \X {"CANCELED"}) \cup
    (NonTerminal \X {"FAILED"} \X {"INTERRUPTED", "TIMEOUT", "SERVICE_FAILED"})
    \cup
    {<<"ISSUED", "FAILED", "VALIDATION_FAILED">>,
     <<"ISSUED", "FAILED", "RESOURCE_FAILED">>,
     <<"COMMANDED", "FAILED", "RESOURCE_REJECTED">>,
     <<"EXECUTING", "FAILED", "OBJECTIVE_FAILED">>,
     <<"EXECUTING", "FAILED", "RESOURCE_FAILED">>} \cup
    (IF CompletesEarly
     THEN NonTerminal \X {"COMPLETED"} \X {"SUCCEEDED"} ELSE {})

\* The status of i changes to that of j.
Moves(i, j) == <<i.st, j.st, j.why>> \in ValidTransitions
SameStatus(i, j) == i.st = j.st /\ i.why = j.why

\* A session opens; or it opens and is refused in the same step.
Opens(i, j) ==
    /\ ~i.alive
    /\ \/ j.alive /\ j.st = "ISSUED" /\ j.why = "SUCCEEDED"
       \/ ~j.alive /\ j.st = "FAILED" /\ j.why = "SERVICE_FAILED"

Reports(i, j) == i.alive /\ j.alive /\ Moves(i, j)

\* Disposed only with a terminal status, written before or in this step.
Closes(i, j) ==
    /\ i.alive /\ ~j.alive
    /\ j.st \in Terminal
    /\ SameStatus(i, j) \/ Moves(i, j)

Init == inst = [s \in Sessions |-> [st |-> "NONE", why |-> "NONE",
                                    alive |-> FALSE]]

Next ==
    \A s \in Sessions :
        \/ inst'[s] = inst[s]
        \/ Opens(inst[s], inst'[s])
        \/ Reports(inst[s], inst'[s])
        \/ Closes(inst[s], inst'[s])

Spec == Init /\ [][Next]_inst
=============================================================================
