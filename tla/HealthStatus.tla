---------------------------- MODULE HealthStatus ----------------------------
(***************************************************************************)
(* HealthStatusControl: the health reports of the resources of a service,  *)
(* sent when they change and again with every heartbeat.                   *)
(*                                                                         *)
(* Two threads use the map of the reports and no lock guards it: the       *)
(* application's, which registers, updates and deregisters and owns the    *)
(* object, and the heartbeat, which walks over the map.  A step is an      *)
(* access of one of them to the map, to the flag or to the writer.         *)
(*                                                                         *)
(* Undefined behaviour.  An insertion or a removal may rearrange the map   *)
(* under the walk, which then goes on over any of the entries there are;   *)
(* an entry the walk has in hand when it is replaced or removed is sent as *)
(* it was.  That the process may also crash is left out.                   *)
(***************************************************************************)
EXTENDS Naturals, FiniteSets

CONSTANTS
    Resources,  \* the keys of the map: a resource and an error code
    MaxReports  \* bound on the reports built

VARIABLES
    app,        \* the call the application is in, and how far: [at, key, report]
    left,       \* the entries the destructor has still to dispose
    built,      \* reports built so far; a report is its number
    recent,     \* mostRecentHealthReports_; 0: no entry
    instance,   \* what a subscriber sees of each resource; 0: disposed, or never sent
    beating,    \* isThreadRunning_
    beat,       \* where the heartbeat is; "none": there is none, or it has left
    todo,       \* the entries the walk has not come to
    held,       \* the entry it has in hand: [key, report]
    raced,      \* history: resources deregistered while there was a heartbeat
    quiet       \* history: no heartbeat when the destructor was entered

healthVars == <<app, left, built, recent, instance, beating, beat, todo, held, raced,
                quiet>>
heartVars == <<beat, held>>
historyVars == <<raced, quiet, left>>

NoKey == "none"
AppAt(at, k, n) == [at |-> at, key |-> k, report |-> n]
Idle == AppAt("idle", NoKey, 0)
Entries == {k \in Resources : recent[k] # 0}

\* An entry comes or goes: what is left of a walk that is under way.
Rearranged ==
    IF beat \in {"walk", "send"} THEN \E s \in SUBSET Entries' : todo' = s
    ELSE UNCHANGED todo

-----------------------------------------------------------------------------
(* The application.                                                        *)

\* registerResource(): a resource that has an entry keeps it ...
Register(k) ==
    /\ app = Idle /\ recent[k] = 0 /\ built < MaxReports
    /\ built' = built + 1
    /\ recent' = [recent EXCEPT ![k] = built']
    /\ app' = AppAt("send", k, built')
    /\ Rearranged
    /\ UNCHANGED <<instance, beating, heartVars, historyVars>>

\* updateSystemHealth(): a resource that has no entry gets one ...
Update(k) ==
    /\ app = Idle /\ built < MaxReports
    /\ built' = built + 1
    /\ recent' = [recent EXCEPT ![k] = built']
    /\ app' = AppAt("send", k, built')
    /\ IF recent[k] = 0 THEN Rearranged ELSE UNCHANGED todo
    /\ UNCHANGED <<instance, beating, heartVars, historyVars>>

\* ... and both send the report.
SendNew ==
    /\ app.at = "send"
    /\ instance' = [instance EXCEPT ![app.key] = app.report]
    /\ app' = Idle
    /\ UNCHANGED <<built, recent, beating, heartVars, todo, historyVars>>

\* deregisterResource(): the instance is disposed ...
Deregister(k) ==
    /\ app = Idle /\ recent[k] # 0
    /\ instance' = [instance EXCEPT ![k] = 0]
    /\ app' = AppAt("erase", k, 0)
    /\ raced' = IF beat = "none" THEN raced ELSE raced \cup {k}
    /\ UNCHANGED <<built, recent, beating, heartVars, todo, quiet, left>>

\* ... and the entry erased.
Erase ==
    /\ app.at = "erase"
    /\ recent' = [recent EXCEPT ![app.key] = 0]
    /\ app' = Idle
    /\ Rearranged
    /\ UNCHANGED <<built, instance, beating, heartVars, historyVars>>

StartThread ==
    /\ app = Idle /\ ~beating
    /\ beating' = TRUE /\ beat' = "test"
    /\ UNCHANGED <<app, built, recent, instance, todo, held, historyVars>>

\* stopThread(), called by the application or by the destructor, then at
\* "stop" and in the end at "ended": the flag is cleared ...
StopThread ==
    /\ app.at \in {"idle", "stop"} /\ beating
    /\ beating' = FALSE
    /\ app' = [app EXCEPT !.at = IF @ = "idle" THEN "join" ELSE "last join"]
    /\ UNCHANGED <<built, recent, instance, heartVars, todo, historyVars>>

\* Faulty variant: the thread is not joined.
DetachThread ==
    /\ app.at \in {"join", "last join"}
    /\ app' = [app EXCEPT !.at = IF @ = "join" THEN "idle" ELSE "ended"]
    /\ UNCHANGED <<built, recent, instance, beating, heartVars, todo,
                   historyVars>>

\* ... and the thread joined.
JoinThread ==
    /\ app.at \in {"join", "last join"} /\ beat = "none"
    /\ app' = [app EXCEPT !.at = IF @ = "join" THEN "idle" ELSE "ended"]
    /\ UNCHANGED <<built, recent, instance, beating, heartVars, todo,
                   historyVars>>

\* ~HealthStatusControl() disposes every entry ...
Destroy ==
    /\ app = Idle
    /\ app' = AppAt("dispose", NoKey, 0)
    /\ left' = Entries
    /\ quiet' = (beat = "none")
    /\ UNCHANGED <<built, recent, instance, beating, heartVars, todo, raced>>

DisposeOne ==
    /\ app.at = "dispose"
    /\ \E k \in left :
          /\ instance' = [instance EXCEPT ![k] = 0]
          /\ left' = left \ {k}
    /\ UNCHANGED <<app, built, recent, beating, heartVars, todo, raced, quiet>>

\* Faulty variant of the destructor: the map is cleared without more ado.
ClearOnly ==
    /\ app.at = "dispose"
    /\ recent' = [k \in Resources |-> 0]
    /\ app' = AppAt(IF beating THEN "stop" ELSE "ended", NoKey, 0)
    /\ Rearranged
    /\ UNCHANGED <<built, instance, beating, heartVars, historyVars>>

\* ... clears the map, and calls stopThread().
ClearReports ==
    /\ app.at = "dispose" /\ left = {}
    /\ recent' = [k \in Resources |-> 0]
    /\ app' = AppAt(IF beating THEN "stop" ELSE "ended", NoKey, 0)
    /\ Rearranged
    /\ UNCHANGED <<built, instance, beating, heartVars, historyVars>>

-----------------------------------------------------------------------------
(* The heartbeat: healthReportThread() and sendAllReports().               *)

BeatTest ==
    /\ beat = "test"
    /\ beat' = IF beating THEN "walk" ELSE "none"
    /\ todo' = IF beating THEN Entries ELSE {}
    /\ UNCHANGED <<app, built, recent, instance, beating, held, historyVars>>

\* Faulty variant of the walk: a report that was sent by a call and has not
\* changed since is not sent again.
TakeChanged ==
    /\ beat = "walk"
    /\ \E k \in todo :
          /\ held' = IF instance[k] = 0 THEN [key |-> k, report |-> recent[k]]
                     ELSE [key |-> k, report |-> instance[k]]
          /\ todo' = todo \ {k}
    /\ beat' = "send"
    /\ UNCHANGED <<app, built, recent, instance, beating, historyVars>>

\* The walk comes to an entry, whose report it reads ...
TakeEntry ==
    /\ beat = "walk"
    /\ \E k \in todo :
          /\ held' = [key |-> k, report |-> recent[k]]
          /\ todo' = todo \ {k}
    /\ beat' = "send"
    /\ UNCHANGED <<app, built, recent, instance, beating, historyVars>>

\* ... and sends.
SendEntry ==
    /\ beat = "send"
    /\ instance' = [instance EXCEPT ![held.key] = held.report]
    /\ beat' = "walk"
    /\ UNCHANGED <<app, built, recent, beating, todo, held, historyVars>>

\* The end of the walk and the sleep.
BeatSleep ==
    /\ beat = "walk" /\ todo = {}
    /\ beat' = "test"
    /\ UNCHANGED <<app, built, recent, instance, beating, todo, held,
                   historyVars>>

-----------------------------------------------------------------------------
InitHealth ==
    /\ app = Idle /\ left = {} /\ built = 0
    /\ recent = [k \in Resources |-> 0] /\ instance = recent
    /\ beating = FALSE /\ beat = "none" /\ todo = {}
    /\ held = [key |-> NoKey, report |-> 0]
    /\ raced = {} /\ quiet = FALSE

\* The calls the application may or may not make, and what follows from them.
Calls ==
    \/ \E k \in Resources : Register(k) \/ Update(k) \/ Deregister(k)
    \/ StartThread
    \/ app = Idle /\ StopThread
    \/ Destroy

Returns ==
    \/ SendNew \/ Erase \/ JoinThread \/ DisposeOne \/ ClearReports
    \/ app # Idle /\ StopThread

Heartbeat == BeatTest \/ TakeEntry \/ SendEntry \/ BeatSleep

NextHealth == Calls \/ Returns \/ Heartbeat

SpecHealth == InitHealth /\ [][NextHealth]_healthVars
HealthFairness == WF_healthVars(Returns) /\ WF_healthVars(Heartbeat)
FairHealth == SpecHealth /\ HealthFairness

-----------------------------------------------------------------------------
(* Properties.                                                             *)

\* A report that the heartbeat overtook, sending the one before it last, does
\* not stay overtaken: while the heartbeat runs, what subscribers see of a
\* resource ends up being its last report.
LastReportStands ==
    \A k \in Resources : \A n \in 1 .. MaxReports :
        <>[](beating /\ app = Idle /\ recent[k] = n) => <>[](instance[k] = n)

\* An object that had no heartbeat when it was destroyed leaves nothing on the
\* bus, but for resources deregistered under a heartbeat.
QuietEndIsClean ==
    app.at = "ended" /\ quiet => \A k \in Resources \ raced : instance[k] = 0

\* When the destructor returns, the heartbeat, which uses the object, is gone.
NoThreadLeft == app.at = "ended" => beat = "none"

\* The end of an object without heartbeat is the end of all it started.
EndInv == QuietEndIsClean /\ NoThreadLeft

\* HealthStatusControl.h:87: reports are disposed upon destruction.
EndIsClean == app.at = "ended" => \A k \in Resources : instance[k] = 0

\* HealthStatusControl.h:96: a deregistered resource is off the bus.
DeregisteredIsGone ==
    \A k \in Resources :
        <>[](app = Idle /\ recent[k] = 0) => <>[](instance[k] = 0)
=============================================================================
