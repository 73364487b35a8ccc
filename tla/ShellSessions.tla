--------------------------- MODULE ShellSessions ---------------------------
(***************************************************************************)
(* The registry of remote shell sessions (session/shell.go), its users in  *)
(* app/daemon_shell.go and app/daemon.go, and the count of spawned shells. *)
(*                                                                         *)
(*   "msg"   messageLoop handles the spawn, stop and pong messages         *)
(*   "dbus"  dbusEventLoop terminates all sessions                         *)
(*   "main"  the main loop terminates the expired sessions                 *)
(*   s       the healthcheck goroutine of session s                        *)
(*                                                                         *)
(* sessionsMutex guards the two maps and nothing else: stopping a shell    *)
(* takes seconds and happens between two holds of the mutex, so every      *)
(* actor may meet sessions that another one is stopping, has stopped or    *)
(* has started again.  Deletion goes by session id, not by session.        *)
(*                                                                         *)
(* A session is an object; its id is a string from the server and may be   *)
(* used again.  Time is abstracted: a session may be expired, and a        *)
(* healthcheck may time out, at any moment.  ShellCommand and ResizeShell  *)
(* change none of this state.  "alive" are the processes not yet reaped.   *)
(***************************************************************************)
EXTENDS Integers, FiniteSets

CONSTANTS Sessions,         \* session objects, created at most once each
          SessionIds, UserIds,
          None,
          MaxUserSessions,  \* sessions one user may have
          MaxShellsSpawned, \* config.MaxShellsSpawned
          MaxUint,          \* the largest uint, the type of d.shellsSpawned
          SweepSessions,    \* whether an expiration timeout is configured
          MaxSpawns,        \* bound: shell processes of a behaviour
          MaxBatches,       \* bound: runs of TerminateAll and TerminateExpired
          MaxPongs,         \* bound: pong messages
          MaxFaults         \* bound: shells that fail to start or to die

ASSUME NoneAssumption == None \notin Sessions \cup SessionIds \cup UserIds
ASSUME ActorAssumption == {"msg", "dbus", "main"} \cap (Sessions \cup {None}) = {}
ASSUME FiniteAssumption == IsFiniteSet(Sessions)
ASSUME LimitAssumption == /\ MaxUserSessions \in Nat \ {0}
                          /\ MaxUint \in Nat /\ MaxShellsSpawned \in 0..MaxUint
                          /\ SweepSessions \in BOOLEAN
                          /\ MaxSpawns \in Nat /\ MaxBatches \in Nat
                          /\ MaxPongs \in Nat /\ MaxFaults \in Nat

VARIABLES sessionsMap,   \* session id -> session or None
          byUser,        \* sessionsByUserIdMap, each list as a set
          sid, user,     \* s.id, s.userId
          status,        \* "free" before the session exists, then s.status
          pid,           \* s.shellPid; 0 while s.shell is nil
          stopClosed,    \* s.stop is closed
          pong,          \* the one slot of s.pong is taken
          shellsSpawned, \* d.shellsSpawned
          alive,         \* shell processes that exist
          pc, job,       \* where each actor is, and its local variables
          spawns, batches, pongs, faults \* how much of the bounds is used

sessionVars == <<sid, user, status, pid, stopClosed, pong>>
mapVars == <<sessionsMap, byUser>>
bounds == <<spawns, batches, pongs, faults>>
vars == <<sessionsMap, byUser, sid, user, status, pid, stopClosed, pong,
          shellsSpawned, alive, pc, job, spawns, batches, pongs, faults>>

Batchers == {"dbus", "main"}
Actors == {"msg"} \cup Batchers \cup Sessions

\* obj: the session being stopped; proc, ok: its process, StopShell's result;
\* ret: where StopShell returns to; todo, batch: sessions still to stop and to
\* delete; cnt: the counter of a batch, or the value of d.shellsSpawned that is
\* still to be stored; err: the error a batch returns.
NoJob == [obj |-> None, proc |-> 0, ok |-> FALSE, ret |-> "idle",
          todo |-> {}, batch |-> {}, cnt |-> 0, err |-> FALSE]

Init ==
    /\ sessionsMap = [i \in SessionIds |-> None]
    /\ byUser = [u \in UserIds |-> {}]
    /\ sid = [s \in Sessions |-> None] /\ user = [s \in Sessions |-> None]
    /\ status = [s \in Sessions |-> "free"]
    /\ pid = [s \in Sessions |-> 0]
    /\ stopClosed = [s \in Sessions |-> FALSE]
    /\ pong = [s \in Sessions |-> FALSE]
    /\ shellsSpawned = 0 /\ alive = {}
    /\ pc = [a \in Actors |-> "idle"] /\ job = [a \in Actors |-> NoJob]
    /\ spawns = 0 /\ batches = 0 /\ pongs = 0 /\ faults = 0

Goto(a, l) == pc' = [pc EXCEPT ![a] = l]
Finish(a) == Goto(a, "idle") /\ job' = [job EXCEPT ![a] = NoJob]

\* Arithmetic of Go's uint.
Wrap(n) == n % (MaxUint + 1)

-----------------------------------------------------------------------------
(* StopShell of session job[a].obj, called by actor a.                     *)

ReturnStop(a, ok) ==
    /\ Goto(a, job[a].ret)
    /\ job' = [job EXCEPT ![a].ok = ok, ![a].proc = 0]

\* The call and StopShell's look at the status; another actor may come between
\* this and the next step.
CallStop(a, s, ret, todo) ==
    /\ Goto(a, IF status[s] = "active" THEN "stopMark" ELSE ret)
    /\ job' = [job EXCEPT ![a] = [@ EXCEPT !.obj = s, !.ret = ret, !.ok = FALSE,
                                           !.todo = todo]]

\* Closes s.stop, sets the status, and signals the process of the moment,
\* which fails when that process is gone.
StopMark(a) ==
    /\ pc[a] = "stopMark"
    /\ LET s == job[a].obj
       IN /\ status' = [status EXCEPT ![s] = "empty"]
          /\ stopClosed' = [stopClosed EXCEPT ![s] = TRUE]
          /\ IF pid[s] \in alive
               THEN /\ Goto(a, "stopWait")
                    /\ job' = [job EXCEPT ![a].proc = pid[s]]
               ELSE ReturnStop(a, FALSE)
    /\ UNCHANGED <<mapVars, sid, user, pid, pong, shellsSpawned, alive, bounds>>

\* procps.TerminateAndWait: the process ends in the expected way, or in
\* another one, or another actor reaps it first, or it does not end in time.
StopWait(a) ==
    /\ pc[a] = "stopWait"
    /\ LET p == job[a].proc
       IN \/ /\ p \in alive /\ alive' = alive \ {p} /\ UNCHANGED faults
             /\ \E ok \in BOOLEAN : ReturnStop(a, ok)
          \/ p \notin alive /\ ReturnStop(a, FALSE) /\ UNCHANGED <<alive, faults>>
          \/ /\ p \in alive /\ faults < MaxFaults /\ faults' = faults + 1
             /\ ReturnStop(a, FALSE) /\ UNCHANGED alive
    /\ UNCHANGED <<mapVars, sessionVars, shellsSpawned, spawns, batches, pongs>>

-----------------------------------------------------------------------------
(* messageLoop: routeMessageSpawnShell.                                    *)

\* NewMenderShellSession, after the global limit and the lookup of the id.
SpawnNew(i, u, s) ==
    /\ pc["msg"] = "idle"
    /\ shellsSpawned < MaxShellsSpawned /\ spawns < MaxSpawns
    /\ sessionsMap[i] = None
    /\ Cardinality(byUser[u]) < MaxUserSessions
    /\ status[s] = "free"
    /\ sessionsMap' = [sessionsMap EXCEPT ![i] = s]
    /\ byUser' = [byUser EXCEPT ![u] = @ \cup {s}]
    /\ sid' = [sid EXCEPT ![s] = i] /\ user' = [user EXCEPT ![s] = u]
    /\ status' = [status EXCEPT ![s] = "new"]
    /\ Goto("msg", "start") /\ job' = [job EXCEPT !["msg"].obj = s]
    /\ UNCHANGED <<pid, stopClosed, pong, shellsSpawned, alive, bounds>>

\* The id has a session already.
SpawnAgain(i) ==
    /\ pc["msg"] = "idle"
    /\ shellsSpawned < MaxShellsSpawned /\ spawns < MaxSpawns
    /\ sessionsMap[i] # None
    /\ Goto("msg", "start") /\ job' = [job EXCEPT !["msg"].obj = sessionsMap[i]]
    /\ UNCHANGED <<mapVars, sessionVars, shellsSpawned, alive, bounds>>

\* StartShell starts a process and a healthcheck goroutine, which returns at
\* once when s.stop is closed.
StartShell ==
    /\ pc["msg"] = "start"
    /\ LET s == job["msg"].obj
       IN /\ status[s] # "active"
          /\ spawns' = spawns + 1 /\ alive' = alive \cup {spawns'}
          /\ pid' = [pid EXCEPT ![s] = spawns']
          /\ status' = [status EXCEPT ![s] = "active"]
          /\ pc' = [pc EXCEPT !["msg"] = "countSpawn",
                              ![s] = IF stopClosed[s] THEN @ ELSE "watch"]
          /\ job' = [job EXCEPT !["msg"] = NoJob]
    /\ UNCHANGED <<mapVars, sid, user, stopClosed, pong, shellsSpawned, batches,
                   pongs, faults>>

\* The session's shell is running already, or the shell cannot be executed:
\* the session stays as it is.
StartShellFails ==
    /\ pc["msg"] = "start"
    /\ \/ status[job["msg"].obj] = "active" /\ UNCHANGED faults
       \/ /\ status[job["msg"].obj] # "active"
          /\ faults < MaxFaults /\ faults' = faults + 1
    /\ Finish("msg")
    /\ UNCHANGED <<mapVars, sessionVars, shellsSpawned, alive, spawns, batches,
                   pongs>>

\* d.shellsSpawned++ reads the count without the mutex; StoreCount writes it.
CountSpawn ==
    /\ pc["msg"] = "countSpawn"
    /\ Goto("msg", "storeCount")
    /\ job' = [job EXCEPT !["msg"].cnt = Wrap(shellsSpawned + 1)]
    /\ UNCHANGED <<mapVars, sessionVars, shellsSpawned, alive, bounds>>

-----------------------------------------------------------------------------
(* messageLoop: routeMessageStopShell and routeMessagePongShell.           *)

\* A stop message with a session id.
StopById(i) ==
    /\ pc["msg"] = "idle" /\ sessionsMap[i] # None
    /\ CallStop("msg", sessionsMap[i], "oneStopped", {})
    /\ UNCHANGED <<mapVars, sessionVars, shellsSpawned, alive, bounds>>

\* A stop message with a user id only, MenderShellStopByUserId: the sessions
\* whose shell was never started are passed over.
StopByUserId(u) ==
    /\ pc["msg"] = "idle" /\ byUser[u] # {}
    /\ Goto("msg", "many")
    /\ job' = [job EXCEPT !["msg"].todo = {s \in byUser[u] : pid[s] # 0}]
    /\ UNCHANGED <<mapVars, sessionVars, shellsSpawned, alive, bounds>>

\* Mutant: the send blocks, and the healthcheck does not read any more.
PongBlocks(i) ==
    /\ pc["msg"] = "idle" /\ sessionsMap[i] # None
    /\ pongs < MaxPongs /\ pongs' = pongs + 1
    /\ IF pong[sessionsMap[i]] /\ pc[sessionsMap[i]] # "watch"
         THEN Goto("msg", "pong") /\ UNCHANGED pong
         ELSE UNCHANGED pc /\ pong' = [pong EXCEPT ![sessionsMap[i]] = TRUE]
    /\ UNCHANGED <<mapVars, sid, user, status, pid, stopClosed, shellsSpawned,
                   alive, job, spawns, batches, faults>>

\* routeMessagePongShell; HealthcheckPong drops the pong when the slot is taken.
Pong(i) ==
    /\ pc["msg"] = "idle" /\ sessionsMap[i] # None
    /\ pongs < MaxPongs /\ pongs' = pongs + 1
    /\ pong' = [pong EXCEPT ![sessionsMap[i]] = TRUE]
    /\ UNCHANGED <<mapVars, sid, user, status, pid, stopClosed, shellsSpawned,
                   alive, pc, job, spawns, batches, faults>>

-----------------------------------------------------------------------------
(* The healthcheck goroutine of session s.                                 *)

HealthcheckGotPong(s) ==
    /\ pc[s] = "watch" /\ pong[s]
    /\ pong' = [pong EXCEPT ![s] = FALSE]
    /\ UNCHANGED <<mapVars, sid, user, status, pid, stopClosed, shellsSpawned,
                   alive, pc, job, bounds>>

HealthcheckReturns(s) ==
    /\ pc[s] = "watch" /\ stopClosed[s]
    /\ Finish(s)
    /\ UNCHANGED <<mapVars, sessionVars, shellsSpawned, alive, bounds>>

\* pongTimer fired: MenderShellStopById looks the session up by its id.
HealthcheckTimeout(s) ==
    /\ pc[s] = "watch"
    /\ LET v == sessionsMap[sid[s]]
       IN IF v = None \/ pid[v] = 0 THEN Finish(s)
                                    ELSE CallStop(s, v, "oneStopped", {})
    /\ UNCHANGED <<mapVars, sessionVars, shellsSpawned, alive, bounds>>

-----------------------------------------------------------------------------
(* One shell was stopped, for a stop message or a healthcheck.             *)

\* The shell could not be stopped: the session stays.
GiveUpOne(a) ==
    /\ pc[a] = "oneStopped" /\ ~job[a].ok /\ pid[job[a].obj] \in alive
    /\ Finish(a)
    /\ UNCHANGED <<mapVars, sessionVars, shellsSpawned, alive, bounds>>

\* Otherwise the session is deleted; only messageLoop counts the shell, if the
\* count is not 0.
StoppedOne(a) ==
    /\ pc[a] = "oneStopped" /\ (job[a].ok \/ pid[job[a].obj] \notin alive)
    /\ Goto(a, IF a = "msg" /\ shellsSpawned # 0 THEN "countStop" ELSE "delete")
    /\ job' = [job EXCEPT ![a] = [NoJob EXCEPT !.batch = {job[a].obj}]]
    /\ UNCHANGED <<mapVars, sessionVars, shellsSpawned, alive, bounds>>

\* d.shellsSpawned-- reads the count once more, without the mutex: it may be 0
\* by now.
CountStop ==
    /\ pc["msg"] = "countStop"
    /\ Goto("msg", "storeStop")
    /\ job' = [job EXCEPT !["msg"].cnt = Wrap(shellsSpawned - 1)]
    /\ UNCHANGED <<mapVars, sessionVars, shellsSpawned, alive, bounds>>

-----------------------------------------------------------------------------
(* MenderSessionTerminateAll, MenderSessionTerminateExpired and            *)
(* MenderShellStopByUserId: snapshot, stop one by one, delete, count.      *)

StartBatch(a, S) ==
    /\ pc[a] = "idle" /\ S # {} /\ batches < MaxBatches
    /\ batches' = batches + 1
    /\ Goto(a, "many")
    /\ job' = [job EXCEPT ![a].todo = S, ![a].batch = S]
    /\ UNCHANGED <<mapVars, sessionVars, shellsSpawned, alive, spawns, pongs,
                   faults>>

Registered == {sessionsMap[i] : i \in SessionIds} \ {None}

TerminateAll == StartBatch("dbus", Registered)

\* timeToSweepSessions is never true without an expiration timeout.
TerminateExpired ==
    SweepSessions /\ \E S \in SUBSET Registered : StartBatch("main", S)

StopNext(a) ==
    /\ pc[a] = "many" /\ job[a].todo # {}
    /\ \E s \in job[a].todo :
         CallStop(a, s, "manyStopped", job[a].todo \ {s})
    /\ UNCHANGED <<mapVars, sessionVars, shellsSpawned, alive, bounds>>

\* Mutant: a shell that could not be stopped is tried again.
StoppedManyRetries(a) ==
    /\ pc[a] = "manyStopped"
    /\ Goto(a, "many")
    /\ LET s == job[a].obj
           gone == job[a].ok \/ (a = "msg" /\ pid[s] \notin alive)
       IN job' = [job EXCEPT ![a] = [NoJob EXCEPT
                    !.todo = IF gone THEN job[a].todo ELSE job[a].todo \cup {s},
                    !.cnt = IF gone THEN job[a].cnt + 1 ELSE job[a].cnt,
                    !.batch = IF a = "msg" /\ gone THEN job[a].batch \cup {s}
                                                   ELSE job[a].batch]]
    /\ UNCHANGED <<mapVars, sessionVars, shellsSpawned, alive, bounds>>

\* TerminateAll and TerminateExpired count what they stopped and delete all;
\* StopByUserId counts and deletes what is not running any more.
StoppedMany(a) ==
    /\ pc[a] = "manyStopped"
    /\ Goto(a, "many")
    /\ LET s == job[a].obj
           gone == job[a].ok \/ (a = "msg" /\ pid[s] \notin alive)
       IN job' = [job EXCEPT ![a] = [NoJob EXCEPT
                    !.todo = job[a].todo,
                    !.cnt = IF gone THEN job[a].cnt + 1 ELSE job[a].cnt,
                    !.err = job[a].err \/ ~gone,
                    !.batch = IF a = "msg" /\ gone THEN job[a].batch \cup {s}
                                                   ELSE job[a].batch]]
    /\ UNCHANGED <<mapVars, sessionVars, shellsSpawned, alive, bounds>>

\* Mutant: the session that had the id when it was looked up leaves its list,
\* whatever session has the id now.
DeleteByIdsStale(ids) ==
    /\ sessionsMap' = [i \in SessionIds |->
                         IF i \in ids THEN None ELSE sessionsMap[i]]
    /\ byUser' = [u \in UserIds |->
                    {s \in byUser[u] : ~ \E a \in Actors : s \in job[a].batch}]

\* menderShellDeleteByIdLocked for every id of ids, in one hold of the mutex.
DeleteByIds(ids) ==
    /\ sessionsMap' = [i \in SessionIds |->
                         IF i \in ids THEN None ELSE sessionsMap[i]]
    /\ byUser' = [u \in UserIds |->
                    {s \in byUser[u] :
                       ~ \E i \in ids : /\ sid[s] = i
                                        /\ sessionsMap[i] # None
                                        /\ user[sessionsMap[i]] = u}]

\* An id that is gone is an error for TerminateAll and TerminateExpired.  After
\* TerminateAll the shells it stopped are counted, error or not; the others
\* count when nothing went wrong, TerminateExpired the sessions it deleted.
Delete(a) ==
    /\ pc[a] = "delete" \/ (pc[a] = "many" /\ job[a].todo = {})
    /\ DeleteByIds({sid[s] : s \in job[a].batch})
    /\ LET found == {s \in job[a].batch : sessionsMap[sid[s]] # None}
           cnt == IF a = "main" THEN Cardinality(found) ELSE job[a].cnt
           counts == CASE a = "dbus" -> cnt > 0
                       [] a = "main" -> cnt > 0 /\ ~job[a].err /\ found = job[a].batch
                       [] OTHER -> ~job[a].err
       IN IF pc[a] = "delete" \/ ~counts
            THEN Finish(a)
            ELSE /\ Goto(a, IF a = "msg" THEN "checkStopped" ELSE "decrease")
                 /\ job' = [job EXCEPT ![a] = [NoJob EXCEPT !.cnt = cnt]]
    /\ UNCHANGED <<sessionVars, shellsSpawned, alive, bounds>>

-----------------------------------------------------------------------------
(* d.shellsSpawned after a batch.  spawnedShellsMutex keeps the calls of   *)
(* DecreaseSpawnedShellsCount apart; messageLoop counts without it.        *)

CountOnly == UNCHANGED <<mapVars, sessionVars, alive, bounds>>

\* Where an actor is about to write the count; "storeLess" under the mutex.
Storing == {"storeCount", "storeStop", "storeLess"}
HoldsMutex(a) == pc[a] \in {"compare", "subtract", "storeLess"}

\* routeMessageStopShell: more shells stopped than counted.
CheckStopped ==
    /\ pc["msg"] = "checkStopped"
    /\ IF job["msg"].cnt > shellsSpawned
         THEN Goto("msg", "storeCount") /\ job' = [job EXCEPT !["msg"].cnt = 0]
         ELSE Goto("msg", "decrease") /\ UNCHANGED job
    /\ CountOnly /\ UNCHANGED shellsSpawned

\* DecreaseSpawnedShellsCount, three looks at the count: is it 0,
Decrease(a) ==
    /\ pc[a] = "decrease" /\ ~ \E b \in Actors : HoldsMutex(b)
    /\ \/ shellsSpawned = 0 /\ Finish(a)
       \/ shellsSpawned # 0 /\ Goto(a, "compare") /\ UNCHANGED job
    /\ CountOnly /\ UNCHANGED shellsSpawned

\* is it not more than what is taken off,
Compare(a) ==
    /\ pc[a] = "compare"
    /\ IF job[a].cnt >= shellsSpawned
         THEN Goto(a, "storeLess") /\ job' = [job EXCEPT ![a].cnt = 0]
         ELSE Goto(a, "subtract") /\ UNCHANGED job
    /\ CountOnly /\ UNCHANGED shellsSpawned

\* and what is it less that.
Subtract(a) ==
    /\ pc[a] = "subtract"
    /\ Goto(a, "storeLess")
    /\ job' = [job EXCEPT ![a].cnt = Wrap(shellsSpawned - @)]
    /\ CountOnly /\ UNCHANGED shellsSpawned

\* Mutant: the count is not taken for an unsigned one.
StoreSigned(a) ==
    /\ pc[a] \in Storing
    /\ shellsSpawned' = IF pc[a] = "storeStop" THEN shellsSpawned - 1 ELSE job[a].cnt
    /\ IF pc[a] = "storeStop"
         THEN Goto(a, "delete") /\ job' = [job EXCEPT ![a].cnt = 0]
         ELSE Finish(a)
    /\ CountOnly

\* The end of any change of the count: the value computed before is written,
\* whatever the count is by now.
StoreCount(a) ==
    /\ pc[a] \in Storing
    /\ shellsSpawned' = job[a].cnt
    /\ IF pc[a] = "storeStop"
         THEN Goto(a, "delete") /\ job' = [job EXCEPT ![a].cnt = 0]
         ELSE Finish(a)
    /\ CountOnly

-----------------------------------------------------------------------------
\* What actor a does on its own once it has begun something.
Step(a) == \/ StopMark(a) \/ StopWait(a)
           \/ GiveUpOne(a) \/ StoppedOne(a) \/ Delete(a)

CountStep(a) == Decrease(a) \/ Compare(a) \/ Subtract(a) \/ StoreCount(a)

BatchStep(a) == StopNext(a) \/ StoppedMany(a) \/ CountStep(a)

MsgStep == \/ StartShell \/ StartShellFails \/ CountSpawn \/ CountStop
           \/ CheckStopped \/ Step("msg") \/ BatchStep("msg")

\* Messages from the server.
Receive ==
    \/ \E i \in SessionIds :
         \/ \E u \in UserIds, s \in Sessions : SpawnNew(i, u, s)
         \/ SpawnAgain(i) \/ StopById(i) \/ Pong(i)
    \/ \E u \in UserIds : StopByUserId(u)

Healthcheck(s) == \/ HealthcheckGotPong(s) \/ HealthcheckReturns(s)
                  \/ HealthcheckTimeout(s) \/ Step(s)

Next == \/ Receive \/ MsgStep
        \/ TerminateAll \/ TerminateExpired
        \/ \E a \in Batchers : Step(a) \/ BatchStep(a)
        \/ \E s \in Sessions : Healthcheck(s)

Spec == Init /\ [][Next]_vars

-----------------------------------------------------------------------------
Jobs == [obj : Sessions \cup {None}, proc : Nat, ok : BOOLEAN,
         ret : {"idle", "oneStopped", "manyStopped"},
         todo : SUBSET Sessions, batch : SUBSET Sessions,
         cnt : Nat, err : BOOLEAN]

\* Every variable has its type.  That is all that holds of d.shellsSpawned, which
\* messageLoop may take from 0 to the largest uint.
TypeOK ==
    /\ sessionsMap \in [SessionIds -> Sessions \cup {None}]
    /\ byUser \in [UserIds -> SUBSET Sessions]
    /\ sid \in [Sessions -> SessionIds \cup {None}]
    /\ user \in [Sessions -> UserIds \cup {None}]
    /\ status \in [Sessions -> {"free", "new", "active", "empty"}]
    /\ pid \in [Sessions -> Nat]
    /\ stopClosed \in [Sessions -> BOOLEAN]
    /\ pong \in [Sessions -> BOOLEAN]
    /\ shellsSpawned \in 0..MaxUint
    /\ alive \subseteq 1 .. spawns
    /\ pc \in [Actors -> {"idle", "start", "countSpawn", "watch",
                          "stopMark", "stopWait", "oneStopped",
                          "countStop", "storeStop", "many", "manyStopped",
                          "delete", "checkStopped", "decrease", "compare",
                          "subtract", "storeLess", "storeCount"}]
    /\ job \in [Actors -> Jobs]
    /\ \A a \in Actors : pc[a] \in Storing => job[a].cnt \in 0..MaxUint
    /\ spawns \in Nat /\ batches \in Nat /\ pongs \in Nat /\ faults \in Nat

\* sessionsMap and sessionsByUserIdMap always tell the same: a session that is
\* found by its id is in the list of its user, a session in the list of a user
\* is found by its id, in spite of deletions by id that race with re-creations.
MapsAgree ==
    /\ \A i \in SessionIds : sessionsMap[i] # None =>
         /\ sid[sessionsMap[i]] = i
         /\ user[sessionsMap[i]] \in UserIds
         /\ sessionsMap[i] \in byUser[user[sessionsMap[i]]]
    /\ \A u \in UserIds : \A s \in byUser[u] :
         /\ user[s] = u
         /\ sid[s] \in SessionIds
         /\ sessionsMap[sid[s]] = s

\* "maxUserSessions controls how many sessions user can have"
\* (app/daemon_test.go:382).
UserLimit == \A u \in UserIds : Cardinality(byUser[u]) <= MaxUserSessions

\* messageLoop always has a next step of its own on the way back to its next
\* message, whatever the other goroutines do, or waits for spawnedShellsMutex,
\* whose one holder has a next step: in particular a pong for a session whose
\* healthcheck does not listen any more does not block it
\* (TestLatePongDuringHealthcheckStop).
MessageLoopNeverBlocks ==
    pc["msg"] # "idle" =>
        \/ ENABLED MsgStep
        \/ \E b \in Batchers : /\ HoldsMutex(b) /\ ENABLED CountStep(b)
                               /\ \A d \in Actors : HoldsMutex(d) => d = b

\* At most how many steps of its own loop a is away from its next message,
\* signal or tick.
Stage(l) == CASE l \in {"idle", "watch"} -> 0
              [] l \in {"delete", "storeCount", "storeLess"} -> 1
              [] l \in {"countSpawn", "storeStop", "subtract"} -> 2
              [] l \in {"start", "countStop", "compare"} -> 3
              [] l \in {"oneStopped", "decrease"} -> 4
              [] l = "checkStopped" -> 5
              [] l = "many" -> 6
              [] l = "manyStopped" -> 7
              [] l = "stopWait" -> 8
              [] l = "stopMark" -> 9
StepsLeft(a) == 4 * Cardinality(job[a].todo) + Stage(pc[a])

\* Each step of a loop brings it nearer to its end, and no other goroutine takes
\* it back, although the sessions it works on are stopped, deleted and started
\* again meanwhile: a message, TerminateAll and TerminateExpired take a bounded
\* number of steps (MenderShellStopByUserId, MenderSessionTerminateAll and
\* MenderSessionTerminateExpired go through a snapshot).
LoopsAdvance ==
    [][\A a \in {"msg"} \cup Batchers : pc[a] # "idle" =>
         \/ pc'[a] = pc[a] /\ job'[a] = job[a]
         \/ StepsLeft(a)' < StepsLeft(a)]_vars

Registry == INSTANCE SessionRegistry WITH registered <- sessionsMap, owner <- user

\* To those who only create and delete sessions the registry is one table: the
\* limit that NewMenderShellSession takes from the list of a user is the limit of
\* the sessions that can be found by id, an id is never taken from a session that
\* has it, and menderShellDeleteByIdLocked only ever removes, however stops,
\* deletions and creations interleave.
IsSessionRegistry == Registry!Spec

-----------------------------------------------------------------------------
(* What the code says and does not keep.                                   *)

Quiet == \A a \in Actors : pc[a] \in {"idle", "watch"}

\* "too many shells spawned", ErrSessionTooManyShellsAlreadyRunning
\* (session/shell.go:65): the count that refuses a shell is the count of
\* shells that run.
CountedShellsRun == Quiet => shellsSpawned = Cardinality(alive)

\* "terminating all sessions" (app/daemon.go:282): a shell that runs belongs to
\* a session that can be found and stopped.
RunningShellsAreRegistered ==
    Quiet => \A p \in alive : \E s \in Registered : pid[s] = p
=============================================================================
