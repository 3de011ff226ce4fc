------------------------- MODULE MCCommandProvider -------------------------
(* Constants for model-checking CommandProvider. *)
EXTENDS CommandProvider, TLC

\* Sessions differ only by name: GUIDs are random and never compared by the
\* provider except for equality and for the order of the loops, which the
\* specification leaves open.
SessionSymmetry == Permutations(Sessions)

\* Consumers that update a command only while it is active and its last sample
\* was read.  A command updated while it is queued is queued twice, and only
\* one of the entries is canceled (ProviderQueueResend.cfg).
PatientSend(s) ==
    /\ client[s] = "open" => /\ IsActive(active, s)
                             /\ \A i \in DOMAIN inbox : inbox[i].id # s
    /\ Send(s)

PatientNext ==
    \/ Cycle
    \/ \E b \in Behaviors : SetBehavior(b)
    \/ \E s \in Sessions : PatientSend(s) \/ Close(s)

PatientSpec == Init /\ [][PatientNext]_vars
=============================================================================
