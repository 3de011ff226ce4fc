---------------------------- MODULE AsyncSession ----------------------------
(***************************************************************************)
(* AsyncCommandSession: what the thread that executes a command and the    *)
(* threads that follow it share: an acknowledgement, a cancel request, a   *)
(* status and the future of the last status, under one mutex with one      *)
(* condition variable.  A step is what a thread does while it holds the    *)
(* mutex; notify_all() comes after the mutex is released.                  *)
(*                                                                         *)
(* What a thread can wait for is "ack", "cancel" or a status.  The reason  *)
(* of the status and the session's identifier, which nothing waits for but *)
(* whose setters notify as well, are "other".                              *)
(***************************************************************************)
EXTENDS Naturals

CONSTANTS
    Setters,    \* threads that call the setters
    Waiters,    \* threads that wait, and get the future
    Statuses,   \* the statuses of a command
    MaxSets,    \* bound on the calls of the setters
    GetEarly    \* whether get() may be called before the future is ready

VARIABLES
    setter,     \* per setter: [at : {"idle", "lock", "notify"}, op]
    sets,       \* calls of the setters so far
    ack,        \* ack_
    cancelled,  \* cancelRequested_
    status,     \* status_; "none": nullopt
    waiter,     \* per waiter: [at, on], see Waiting
    locked,     \* the waiter that keeps sessionMutex_ in get(); "none"
    fulfilled,  \* whether the promise of future_ has been given its value
    valid       \* future_.valid()

valueVars == <<ack, cancelled, status>>
futureVars == <<locked, fulfilled, valid>>
sessionVars == <<setter, sets, valueVars, waiter, futureVars>>

Conditions == {"ack", "cancel"} \cup Statuses

\* The predicate of a wait.
Holds(c) ==
    \/ c = "ack" /\ ack
    \/ c = "cancel" /\ cancelled
    \/ c \in Statuses /\ status = c

Free == locked = "none"
AtRest == [at |-> "idle", on |-> "none"]

\* A waiter is blocked on the condition variable, or takes the mutex again to
\* test its predicate ("check").
Waiting(t, on) == waiter[t].on = on /\ waiter[t].at \in {"blocked", "check"}

-----------------------------------------------------------------------------
(* The setters.                                                            *)

CallSetter(p, op) ==
    /\ setter[p].at = "idle" /\ sets < MaxSets
    /\ sets' = sets + 1
    /\ setter' = [setter EXCEPT ![p] = [at |-> "lock", op |-> op]]
    /\ UNCHANGED <<valueVars, waiter, futureVars>>

\* setAsAcknowledged(), requestCancel(), setStatus(), setStatusReason() and
\* setSessionId(), with the mutex.
Assign(p) ==
    /\ setter[p].at = "lock" /\ Free
    /\ ack' = (ack \/ setter[p].op = "ack")
    /\ cancelled' = (cancelled \/ setter[p].op = "cancel")
    /\ status' = IF setter[p].op \in Statuses THEN setter[p].op ELSE status
    /\ setter' = [setter EXCEPT ![p].at = "notify"]
    /\ UNCHANGED <<sets, waiter, futureVars>>

\* Faulty variant: notify_one().
NotifyOne(p) ==
    /\ setter[p].at = "notify"
    /\ setter' = [setter EXCEPT ![p].at = "idle"]
    /\ \/ \E t \in Waiters :
            /\ waiter[t].at = "blocked"
            /\ waiter' = [waiter EXCEPT ![t].at = "check"]
       \/ /\ \A t \in Waiters : waiter[t].at # "blocked"
          /\ UNCHANGED waiter
    /\ UNCHANGED <<sets, valueVars, futureVars>>

NotifyAll(p) ==
    /\ setter[p].at = "notify"
    /\ setter' = [setter EXCEPT ![p].at = "idle"]
    /\ waiter' = [t \in Waiters |->
                    IF waiter[t].at = "blocked"
                    THEN [waiter[t] EXCEPT !.at = "check"] ELSE waiter[t]]
    /\ UNCHANGED <<sets, valueVars, futureVars>>

\* The promise is kept outside the session: giving it its value takes no mutex.
Fulfil ==
    /\ ~fulfilled
    /\ fulfilled' = TRUE
    /\ UNCHANGED <<setter, sets, valueVars, waiter, locked, valid>>

-----------------------------------------------------------------------------
(* The waiters.                                                            *)

\* waitForAck(), waitForStatus() and waitForCancel(), alone or with _for or
\* _until: the predicate is tested before anything is waited for.
WaitFor(t, on) ==
    /\ waiter[t].at = "idle" /\ Free
    /\ ~Holds(on)
    /\ waiter' = [waiter EXCEPT ![t] = [at |-> "blocked", on |-> on]]
    /\ UNCHANGED <<setter, sets, valueVars, futureVars>>

\* A wait that was woken up, by a notification or for no reason.
Spurious(t) ==
    /\ waiter[t].at = "blocked"
    /\ waiter' = [waiter EXCEPT ![t].at = "check"]
    /\ UNCHANGED <<setter, sets, valueVars, futureVars>>

TestAgain(t) ==
    /\ waiter[t].at = "check" /\ Free
    /\ waiter' = [waiter EXCEPT ![t] = IF Holds(@.on) THEN AtRest
                                       ELSE [@ EXCEPT !.at = "blocked"]]
    /\ UNCHANGED <<setter, sets, valueVars, futureVars>>

\* A timed wait, as any may be, ends, with what the predicate is when the mutex is taken again.
Expire(t) ==
    /\ waiter[t].at \in {"blocked", "check"} /\ Free
    /\ waiter' = [waiter EXCEPT ![t] = AtRest]
    /\ UNCHANGED <<setter, sets, valueVars, futureVars>>

\* Faulty variant of wait(): wait_for(), whose answer is not looked at.
WaitForFuture(t) ==
    /\ waiter[t].at = "idle" /\ valid
    /\ waiter' = [waiter EXCEPT ![t].at = "ready"]
    /\ UNCHANGED <<setter, sets, valueVars, futureVars>>

\* wait(), and wait_for() and wait_until() that found the future ready: they
\* take no mutex.
WaitFuture(t) ==
    /\ waiter[t].at = "idle" /\ valid
    /\ fulfilled \/ GetEarly
    /\ waiter' = [waiter EXCEPT ![t].at = "ready"]
    /\ UNCHANGED <<setter, sets, valueVars, futureVars>>

\* get() takes the mutex, and keeps it until the future has its value ...
Get(t) ==
    /\ waiter[t].at = "ready" /\ Free /\ valid
    /\ locked' = t
    /\ waiter' = [waiter EXCEPT ![t].at = "get"]
    /\ UNCHANGED <<setter, sets, valueVars, fulfilled, valid>>

\* ... which it takes away.
FutureGot(t) ==
    /\ waiter[t].at = "get" /\ fulfilled
    /\ locked' = "none" /\ valid' = FALSE
    /\ waiter' = [waiter EXCEPT ![t] = AtRest]
    /\ UNCHANGED <<setter, sets, valueVars, fulfilled>>

\* A future that another thread has taken: get() throws, the mutex is released.
Throw(t) ==
    /\ waiter[t].at = "ready" /\ Free /\ ~valid
    /\ waiter' = [waiter EXCEPT ![t] = AtRest]
    /\ UNCHANGED <<setter, sets, valueVars, futureVars>>

-----------------------------------------------------------------------------
InitSession ==
    /\ setter = [p \in Setters |-> [at |-> "idle", op |-> "other"]] /\ sets = 0
    /\ ack = FALSE /\ cancelled = FALSE /\ status = "none"
    /\ waiter = [t \in Waiters |-> AtRest]
    /\ locked = "none" /\ fulfilled = FALSE /\ valid = TRUE

\* What a thread that is inside a call does.
Run == \/ \E p \in Setters : Assign(p) \/ NotifyAll(p)
       \/ \E t \in Waiters : TestAgain(t) \/ Get(t) \/ FutureGot(t) \/ Throw(t)

NextSession ==
    \/ Run
    \/ Fulfil
    \/ \E p \in Setters : \E op \in Conditions \cup {"other"} : CallSetter(p, op)
    \/ \E t \in Waiters :
          \/ \E on \in Conditions : WaitFor(t, on)
          \/ Spurious(t) \/ Expire(t) \/ WaitFuture(t)

SpecSession == InitSession /\ [][NextSession]_sessionVars
SessionFairness ==
    /\ \A p \in Setters : WF_sessionVars(Assign(p)) /\ WF_sessionVars(NotifyAll(p))
    /\ \A t \in Waiters :
          /\ WF_sessionVars(TestAgain(t))
          /\ WF_sessionVars(Get(t)) /\ WF_sessionVars(FutureGot(t)) /\ WF_sessionVars(Throw(t))
FairSession == SpecSession /\ SessionFairness

-----------------------------------------------------------------------------
(* Properties.                                                             *)

\* No wake-up is lost: a thread that sleeps although what it waits for has come
\* has a notification on its way.
NoLostWakeup ==
    \A t \in Waiters :
        waiter[t].at = "blocked" /\ Holds(waiter[t].on) =>
            \E p \in Setters : setter[p].at = "notify"

\* A wait for something that comes and stays ends.
WaitsEnd ==
    \A t \in Waiters : \A on \in Conditions :
        ~ <>[](Waiting(t, on) /\ Holds(on))

\* A setter returns, whatever the other threads do.
SettersReturn == \A p \in Setters : setter[p].at # "idle" ~> setter[p].at = "idle"

\* Neither the provider's threads nor the consumer's are blocked for ever.
NobodyStuck == WaitsEnd /\ SettersReturn

\* AsyncCommandSession.h:104: the wait for a status ends when the session
\* receives it.
StatusIsSeen ==
    \A t \in Waiters : \A s \in Statuses :
        Waiting(t, s) /\ status = s ~> waiter[t].at = "idle"
=============================================================================
