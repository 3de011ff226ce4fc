----------------------------- MODULE UdpThread -----------------------------
(***************************************************************************)
(* UdpThread: a thread that sends the commands and receives the datagrams  *)
(* of an application through two ring buffers.  A step is what a thread    *)
(* does under one lock, or between two.                                    *)
(*                                                                         *)
(* The owner starts, stops and destroys the object; a producer adds        *)
(* commands; readers take the last datagram received.  The worker is       *)
(* runUdpConnection().  The two mutexes are taken inside a step, except in *)
(* stopUdpThread(), which keeps both while it waits for the worker.        *)
(*                                                                         *)
(* Commands and datagrams are numbered as they are made.                   *)
(***************************************************************************)
EXTENDS DataRingBuffer, FiniteSets

CONSTANTS
    Readers,    \* the threads that call returnStatData()
    Limit,      \* 100: addUdpCommand() clears a buffer that holds more
    MaxStarts   \* bound on the calls of startUdpThread()

ASSUME UdpAssumption ==
    /\ IsFiniteSet(Items) /\ Items = 1 .. Cardinality(Items) /\ Blank = 0
    /\ Limit \in Nat /\ MaxStarts \in Nat

VARIABLES
    owner,      \* where the owner is: idle, created, stopping, closed
    starts,     \* calls of startUdpThread() so far
    running,    \* isRunning_
    worker,     \* where the worker is; "none": there is none, or it has left
    command,    \* the command the worker has taken
    datagram,   \* listenBuffer_
    producer,   \* where addUdpCommand() is: idle, push
    reader,     \* per reader, where returnStatData() is: idle, take
    added,      \* commands added so far
    arrived,    \* datagrams that came in so far
    myCmdData,  \* myCmdData_
    myStatData, \* myStatData_
    external,   \* myExternalStatData_
    sent        \* the commands sent, in order

ownerVars == <<owner, starts, running>>
workerVars == <<worker, command, datagram>>
appVars == <<producer, reader, added>>
dataVars == <<arrived, myCmdData, myStatData, external, sent>>
udpVars == <<ownerVars, workerVars, appVars, dataVars>>

\* Whether the worker or a reader can lock its mutex, and whether the output
\* mutex, which a producer keeps for two steps, is free.
Unlocked == owner # "stopping"
OutputUnlocked == Unlocked /\ producer = "idle"

-----------------------------------------------------------------------------
(* The owner.                                                              *)

\* startUdpThread() creates the thread ...
Start ==
    /\ owner = "idle" /\ ~running /\ starts < MaxStarts
    /\ owner' = "created" /\ starts' = starts + 1
    /\ worker' = "loop"
    /\ UNCHANGED <<running, command, datagram, appVars, dataVars>>

\* ... and then sets isRunning_.
Started ==
    /\ owner = "created"
    /\ owner' = "idle" /\ running' = TRUE
    /\ UNCHANGED <<starts, workerVars, appVars, dataVars>>

\* stopUdpThread() locks both mutexes and clears isRunning_ ...
Stop ==
    /\ owner = "idle" /\ running /\ OutputUnlocked
    /\ owner' = "stopping" /\ running' = FALSE
    /\ UNCHANGED <<starts, workerVars, appVars, dataVars>>

\* Faulty variant of stopUdpThread(): the thread is not joined.
Detached ==
    /\ owner = "stopping"
    /\ owner' = "idle"
    /\ UNCHANGED <<starts, running, workerVars, appVars, dataVars>>

\* ... and joins the thread.
Joined ==
    /\ owner = "stopping" /\ worker = "none"
    /\ owner' = "idle"
    /\ UNCHANGED <<starts, running, workerVars, appVars, dataVars>>

\* ~UdpThread(), after stopUdpThread(): the sockets are closed.  By then the
\* application's other threads do not use the object any more.
CloseSockets ==
    /\ owner = "idle" /\ ~running
    /\ producer = "idle" /\ \A t \in Readers : reader[t] = "idle"
    /\ owner' = "closed"
    /\ UNCHANGED <<starts, running, workerVars, appVars, dataVars>>

-----------------------------------------------------------------------------
(* The worker: one command out and one datagram in per turn of its loop.   *)

LoopTest ==
    /\ worker = "loop"
    /\ worker' = IF ~running THEN "none"
                 ELSE IF IsEmpty(myCmdData) THEN "receive" ELSE "get"
    /\ UNCHANGED <<ownerVars, command, datagram, appVars, dataVars>>

GetCommand ==
    /\ worker = "get"
    /\ command' = Got(myCmdData)
    /\ myCmdData' = Popped(myCmdData)
    /\ worker' = "send"
    /\ UNCHANGED <<ownerVars, datagram, appVars, arrived, myStatData, external,
                   sent>>

SendCommand ==
    /\ worker = "send"
    /\ sent' = Append(sent, command)
    /\ worker' = "sent"
    /\ UNCHANGED <<ownerVars, command, datagram, appVars, arrived, myCmdData,
                   myStatData, external>>

\* outputProtectionMutex_ is locked for the message about a failed send.
LogSent ==
    /\ worker = "sent" /\ OutputUnlocked
    /\ worker' = "receive"
    /\ UNCHANGED <<ownerVars, command, datagram, appVars, dataVars>>

\* recvfrom() does not block: it finds a datagram or it does not.
Receive ==
    /\ worker = "receive"
    /\ \/ /\ arrived < Cardinality(Items)
          /\ arrived' = arrived + 1
          /\ datagram' = arrived + 1
          /\ worker' = "push"
       \/ /\ worker' = "loop"
          /\ UNCHANGED <<arrived, datagram>>
    /\ UNCHANGED <<ownerVars, command, appVars, myCmdData, myStatData, external,
                   sent>>

PushDatagram ==
    /\ worker = "push" /\ Unlocked
    /\ myStatData' = Push(myStatData, datagram)
    /\ worker' = "loop"
    /\ UNCHANGED <<ownerVars, command, datagram, appVars, arrived, myCmdData,
                   external, sent>>

-----------------------------------------------------------------------------
(* The threads of the application.                                         *)

\* addUdpCommand(): with its mutex held, which the worker does not take to
\* test and to pop the buffer, it clears a buffer that is too long ...
CheckSize ==
    /\ OutputUnlocked /\ owner # "closed"
    /\ added < Cardinality(Items)
    /\ myCmdData' = IF Size(myCmdData) > Limit THEN Cleared(myCmdData)
                    ELSE myCmdData
    /\ producer' = "push"
    /\ UNCHANGED <<ownerVars, workerVars, reader, added, arrived, myStatData,
                   external, sent>>

\* ... and then pushes the command.
PushCommand ==
    /\ producer = "push"
    /\ added' = added + 1
    /\ myCmdData' = Push(myCmdData, added + 1)
    /\ producer' = "idle"
    /\ UNCHANGED <<ownerVars, workerVars, reader, arrived, myStatData, external,
                   sent>>

\* Faulty variant of returnStatData(): it does not look for data.
TakeAnyway(t) ==
    /\ reader[t] = "idle" /\ Unlocked /\ owner # "closed"
    /\ reader' = [reader EXCEPT ![t] = "take"]
    /\ UNCHANGED <<ownerVars, workerVars, producer, added, dataVars>>

\* returnStatData(): checkStatData() under the lock ...
CheckStatData(t) ==
    /\ reader[t] = "idle" /\ Unlocked /\ owner # "closed"
    /\ ~IsEmpty(myStatData)
    /\ reader' = [reader EXCEPT ![t] = "take"]
    /\ UNCHANGED <<ownerVars, workerVars, producer, added, dataVars>>

\* ... and back() and clear() when it is locked again.
TakeStatData(t) ==
    /\ reader[t] = "take" /\ Unlocked
    /\ external' = Back(myStatData)
    /\ myStatData' = Cleared(myStatData)
    /\ reader' = [reader EXCEPT ![t] = "idle"]
    /\ UNCHANGED <<ownerVars, workerVars, producer, added, arrived, myCmdData,
                   sent>>

-----------------------------------------------------------------------------
InitUdp ==
    /\ owner = "idle" /\ starts = 0 /\ running = FALSE
    /\ worker = "none" /\ command = Blank /\ datagram = Blank
    /\ producer = "idle" /\ reader = [t \in Readers |-> "idle"] /\ added = 0
    /\ arrived = 0
    /\ myCmdData = NewRing /\ myStatData = NewRing
    /\ external = Blank /\ sent = <<>>

Worker ==
    \/ LoopTest \/ GetCommand \/ SendCommand \/ LogSent
    \/ Receive \/ PushDatagram

NextUdp ==
    \/ Start \/ Started \/ Stop \/ Joined \/ CloseSockets
    \/ Worker
    \/ CheckSize \/ PushCommand
    \/ \E t \in Readers : CheckStatData(t) \/ TakeStatData(t)

SpecUdp == InitUdp /\ [][NextUdp]_udpVars
UdpFairness ==
    WF_udpVars(Worker) /\ WF_udpVars(Started) /\ WF_udpVars(Joined)
FairUdp == SpecUdp /\ UdpFairness

-----------------------------------------------------------------------------
(* Properties.                                                             *)

\* Commands leave in the order they were added, each at most once, whatever
\* is dropped when the buffer is full and however often the thread is stopped
\* and started.
SentInOrder ==
    \A i, j \in DOMAIN sent : i < j => sent[i] < sent[j]

\* A buffer that is not cleared holds the newest commands, as many as there is
\* room for and the worker has not taken, in the order they were added.
KeepsNewest ==
    LET oldest == 1 + IF command > added - Capacity THEN command
                      ELSE added - Capacity
    IN  Limit >= Capacity =>
          Contents(myCmdData) = [i \in 1 .. added + 1 - oldest |-> oldest + i - 1]

\* Commands neither change their order nor are dropped while there is room.
CommandsKept == SentInOrder /\ KeepsNewest

\* A single reader never gets a datagram older than one it has been given.
NothingStale == [][external' >= external]_udpVars

\* When the sockets are closed the worker has left: it never uses a closed
\* socket, nor an object that is gone.
NoUseAfterClose == owner = "closed" => worker = "none"

\* stopUdpThread() returns.
StopReturns == owner = "stopping" ~> owner # "stopping"

\* A thread that startUdpThread() said is running receives, until it is
\* stopped.
StartedRuns == running => worker # "none"
=============================================================================
