----------------------------- MODULE MCThreads -----------------------------
(***************************************************************************)
(* The classes that start threads of their own or serve those of others,   *)
(* which do not use each other: a behaviour is one of the UDP thread, of   *)
(* the health reports, of an asynchronous command session or of a DDS      *)
(* reader.                                                                 *)
(***************************************************************************)
EXTENDS UdpThread, HealthStatus, AsyncSession, DataReader

VARIABLE part   \* the class at work

vars == <<part, udpVars, healthVars, sessionVars, readerVars>>

MCItems == 1 .. 4

\* No action that a fairness condition is about is enabled in the initial state
\* of a class that is not at work.
Init ==
    /\ part \in {"udp", "health", "session", "reader"}
    /\ InitUdp /\ InitHealth /\ InitSession /\ InitReader
    /\ part # "reader" => use = "latest" /\ ~filtered

Next ==
    \/ /\ part = "udp" /\ NextUdp
       /\ UNCHANGED <<part, healthVars, sessionVars, readerVars>>
    \/ /\ part = "health" /\ NextHealth
       /\ UNCHANGED <<part, udpVars, sessionVars, readerVars>>
    \/ /\ part = "session" /\ NextSession
       /\ UNCHANGED <<part, udpVars, healthVars, readerVars>>
    \/ /\ part = "reader" /\ NextReader
       /\ UNCHANGED <<part, udpVars, healthVars, sessionVars>>

Spec == Init /\ [][Next]_vars /\ UdpFairness /\ HealthFairness
             /\ SessionFairness /\ ReaderFairness
=============================================================================
