------------------------ MODULE ShellSessionsProofs ------------------------
(***************************************************************************)
(* Proofs about ShellSessions: for any number of sessions, ids and users   *)
(* the two maps agree, the limit of a user holds, the loops advance, and   *)
(* the registry implements SessionRegistry.                                *)
(***************************************************************************)
EXTENDS ShellSessions, FiniteSetTheorems, TLAPS

(***************************************************************************)
(* The registry.  MapsAgree survives a deletion by id because the session  *)
(* that has the id is the only one with that id in its user's list; it     *)
(* survives a creation because the new session was in no list before,      *)
(* which has to be part of the invariant.                                  *)
(***************************************************************************)
RegistryTypes ==
    /\ sessionsMap \in [SessionIds -> Sessions \cup {None}]
    /\ byUser \in [UserIds -> SUBSET Sessions]
    /\ sid \in [Sessions -> SessionIds \cup {None}]
    /\ user \in [Sessions -> UserIds \cup {None}]
    /\ status \in [Sessions -> {"free", "new", "active", "empty"}]

FreeIsUnlisted ==
    \A s \in Sessions : status[s] = "free" => \A u \in UserIds : s \notin byUser[u]

RegistryInv == RegistryTypes /\ MapsAgree /\ FreeIsUnlisted /\ UserLimit

\* A step that leaves the maps alone and frees no session.
LeavesRegistry ==
    /\ UNCHANGED <<sessionsMap, byUser, sid, user>>
    /\ status' \in [Sessions -> {"free", "new", "active", "empty"}]
    /\ \A s \in Sessions : status'[s] = "free" => status[s] = "free"

\* The initial states satisfy it.
LEMMA InitRegistry == Init => RegistryInv
<1> SUFFICES ASSUME Init PROVE RegistryInv
  OBVIOUS
<1>1. RegistryTypes /\ MapsAgree /\ FreeIsUnlisted
  BY DEF Init, RegistryTypes, MapsAgree, FreeIsUnlisted
<1>2. UserLimit
  BY FS_EmptySet, LimitAssumption DEF Init, UserLimit
<1> QED
  BY <1>1, <1>2 DEF RegistryInv

\* A step that leaves the registry alone preserves the invariant.
LEMMA LeavesRegistryInv == RegistryInv /\ LeavesRegistry => RegistryInv'
  BY DEF RegistryInv, LeavesRegistry, RegistryTypes, MapsAgree, FreeIsUnlisted,
         UserLimit

\* A user's list is finite.
LEMMA ListFinite == ASSUME RegistryTypes, NEW u \in UserIds
                    PROVE  IsFiniteSet(byUser[u])
  BY FiniteAssumption, FS_Subset DEF RegistryTypes

\* NewMenderShellSession preserves the invariant.
LEMMA SpawnNewRegistry ==
    ASSUME RegistryInv, NEW i \in SessionIds, NEW u \in UserIds,
           NEW s \in Sessions, SpawnNew(i, u, s)
    PROVE  RegistryInv'
<1> USE NoneAssumption DEF RegistryInv
<1>1. RegistryTypes'
  BY DEF SpawnNew, RegistryTypes
<1>2. MapsAgree'
  <2>1. ASSUME NEW j \in SessionIds, sessionsMap'[j] # None
        PROVE  /\ sid'[sessionsMap'[j]] = j
               /\ user'[sessionsMap'[j]] \in UserIds
               /\ sessionsMap'[j] \in byUser'[user'[sessionsMap'[j]]]
    <3>1. CASE j = i
      BY <3>1 DEF SpawnNew, RegistryTypes
    <3>2. CASE j # i
      <4>1. sessionsMap'[j] = sessionsMap[j] /\ sessionsMap[j] \in Sessions
        BY <2>1, <3>2 DEF SpawnNew, RegistryTypes
      <4>2. sessionsMap[j] # s
        BY <4>1 DEF SpawnNew, RegistryTypes, MapsAgree, FreeIsUnlisted
      <4> QED
        BY <4>1, <4>2 DEF SpawnNew, RegistryTypes, MapsAgree
    <3> QED
      BY <3>1, <3>2
  <2>2. ASSUME NEW v \in UserIds, NEW t \in byUser'[v]
        PROVE  user'[t] = v /\ sid'[t] \in SessionIds /\ sessionsMap'[sid'[t]] = t
    <3>1. CASE t = s
      <4>1. v = u
        BY <2>2, <3>1 DEF SpawnNew, RegistryTypes, FreeIsUnlisted
      <4> QED
        BY <3>1, <4>1 DEF SpawnNew, RegistryTypes
    <3>2. CASE t # s
      <4>1. t \in byUser[v] /\ t \in Sessions
        BY <2>2, <3>2 DEF SpawnNew, RegistryTypes
      <4>2. sid[t] # i
        BY <4>1, NoneAssumption DEF SpawnNew, RegistryTypes, MapsAgree
      <4> QED
        BY <3>2, <4>1, <4>2 DEF SpawnNew, RegistryTypes, MapsAgree
    <3> QED
      BY <3>1, <3>2
  <2> QED
    BY <2>1, <2>2 DEF MapsAgree
<1>3. FreeIsUnlisted'
  BY DEF SpawnNew, RegistryTypes, FreeIsUnlisted
<1>4. UserLimit'
  <2> SUFFICES ASSUME NEW v \in UserIds
               PROVE  Cardinality(byUser'[v]) <= MaxUserSessions
    BY DEF UserLimit
  <2>1. IsFiniteSet(byUser[v])
    BY ListFinite
  <2>2. Cardinality(byUser[v]) \in Nat
    BY <2>1, FS_CardinalityType
  <2>3. CASE v = u
    <3>1. byUser'[v] = byUser[v] \cup {s}
      BY <2>3 DEF SpawnNew, RegistryTypes
    <3>0. s \notin byUser[v]
      BY DEF SpawnNew, FreeIsUnlisted
    <3>2. Cardinality(byUser[v] \cup {s}) = Cardinality(byUser[v]) + 1
      BY <2>1, <3>0, FS_AddElement
    <3>3. Cardinality(byUser[v]) < MaxUserSessions
      BY <2>3 DEF SpawnNew
    <3>4. Cardinality(byUser[v] \cup {s}) \in Nat
      BY <2>1, FS_AddElement, FS_CardinalityType
    <3> QED
      BY <2>2, <3>1, <3>2, <3>3, <3>4, LimitAssumption
  <2>4. CASE v # u
    BY <2>4 DEF SpawnNew, RegistryTypes, UserLimit
  <2> QED
    BY <2>3, <2>4
<1> QED
  BY <1>1, <1>2, <1>3, <1>4

\* Deleting any set of ids preserves the invariant.
LEMMA DeleteByIdsRegistry ==
    ASSUME RegistryInv, NEW ids, DeleteByIds(ids), UNCHANGED sessionVars
    PROVE  RegistryInv'
<1> USE NoneAssumption DEF RegistryInv
<1>0. UNCHANGED <<sid, user, status>>
  BY DEF sessionVars
<1>1. RegistryTypes'
  BY <1>0 DEF DeleteByIds, RegistryTypes
<1>s. \A u \in UserIds : byUser'[u] \subseteq byUser[u]
  BY DEF DeleteByIds
<1>2. MapsAgree'
  <2>1. ASSUME NEW j \in SessionIds, sessionsMap'[j] # None
        PROVE  /\ sid'[sessionsMap'[j]] = j
               /\ user'[sessionsMap'[j]] \in UserIds
               /\ sessionsMap'[j] \in byUser'[user'[sessionsMap'[j]]]
    <3>1. j \notin ids /\ sessionsMap'[j] = sessionsMap[j]
      BY <2>1 DEF DeleteByIds
    <3>2. /\ sid[sessionsMap[j]] = j /\ user[sessionsMap[j]] \in UserIds
          /\ sessionsMap[j] \in byUser[user[sessionsMap[j]]]
      BY <2>1, <3>1 DEF MapsAgree
    <3> QED
      BY <1>0, <3>1, <3>2 DEF DeleteByIds
  <2>2. ASSUME NEW v \in UserIds, NEW t \in byUser'[v]
        PROVE  user'[t] = v /\ sid'[t] \in SessionIds /\ sessionsMap'[sid'[t]] = t
    <3>1. t \in byUser[v] /\ t \in Sessions
      BY <1>s DEF RegistryTypes
    <3>2. user[t] = v /\ sid[t] \in SessionIds /\ sessionsMap[sid[t]] = t
      BY <3>1 DEF MapsAgree
    <3>3. sid[t] \notin ids
      BY <3>1, <3>2, <2>2 DEF DeleteByIds
    <3> QED
      BY <1>0, <3>2, <3>3 DEF DeleteByIds
  <2> QED
    BY <2>1, <2>2 DEF MapsAgree
<1>3. FreeIsUnlisted'
  BY <1>0, <1>s DEF FreeIsUnlisted
<1>4. UserLimit'
  <2> SUFFICES ASSUME NEW v \in UserIds
               PROVE  Cardinality(byUser'[v]) <= MaxUserSessions
    BY DEF UserLimit
  <2>1. IsFiniteSet(byUser[v]) /\ byUser'[v] \in SUBSET byUser[v]
    BY <1>s, ListFinite
  <2>2. /\ Cardinality(byUser'[v]) <= Cardinality(byUser[v])
        /\ IsFiniteSet(byUser'[v])
    BY <2>1, FS_Subset
  <2>3. Cardinality(byUser[v]) \in Nat /\ Cardinality(byUser'[v]) \in Nat
    BY <2>1, <2>2, FS_CardinalityType
  <2>4. Cardinality(byUser[v]) <= MaxUserSessions
    BY DEF UserLimit
  <2> QED
    BY <2>2, <2>3, <2>4, LimitAssumption
<1> QED
  BY <1>1, <1>2, <1>3, <1>4

\* A step creates a session, deletes some, or leaves the registry alone.
Moves == \/ \E i \in SessionIds, u \in UserIds, s \in Sessions : SpawnNew(i, u, s)
         \/ \E a \in Actors : Delete(a)
         \/ LeavesRegistry

LEMMA NextMoves == ASSUME RegistryTypes, [Next]_vars PROVE Moves
<1> USE DEF mapVars, sessionVars
<1>1. ASSUME NEW a \in Actors,
             StopWait(a) \/ GiveUpOne(a) \/ StoppedOne(a) \/ BatchStep(a)
      PROVE  LeavesRegistry
  BY <1>1 DEF StopWait, GiveUpOne, StoppedOne, BatchStep, StopNext,
              StoppedMany, CountStep, Decrease, Compare, Subtract, StoreCount,
              CountOnly, LeavesRegistry, RegistryTypes
<1>2. ASSUME NEW a \in Actors, StopMark(a)
      PROVE  LeavesRegistry
  BY <1>2 DEF StopMark, LeavesRegistry, RegistryTypes
<1>3. ASSUME NEW i \in SessionIds, SpawnAgain(i) \/ StopById(i) \/ Pong(i)
      PROVE  LeavesRegistry
  BY <1>3 DEF SpawnAgain, StopById, Pong, LeavesRegistry, RegistryTypes
<1>4. ASSUME NEW u \in UserIds, StopByUserId(u)
      PROVE  LeavesRegistry
  BY <1>4 DEF StopByUserId, LeavesRegistry, RegistryTypes
<1>5. CASE StartShell
  BY <1>5 DEF StartShell, LeavesRegistry, RegistryTypes, Moves
<1>6. CASE StartShellFails \/ CountSpawn \/ CountStop \/ CheckStopped
  BY <1>6 DEF StartShellFails, CountSpawn, CountStop, CheckStopped, CountOnly,
              LeavesRegistry, RegistryTypes, Moves
<1>7. CASE TerminateAll \/ TerminateExpired
  BY <1>7 DEF TerminateAll, TerminateExpired, StartBatch, LeavesRegistry,
              RegistryTypes, Moves
<1>8. ASSUME NEW s \in Sessions,
              \/ HealthcheckGotPong(s) \/ HealthcheckReturns(s)
              \/ HealthcheckTimeout(s)
       PROVE  LeavesRegistry
  BY <1>8 DEF HealthcheckGotPong, HealthcheckReturns, HealthcheckTimeout,
               LeavesRegistry, RegistryTypes
<1>9. CASE UNCHANGED vars
  BY <1>9 DEF vars, LeavesRegistry, RegistryTypes, Moves
<1>10. ASSUME NEW a \in Actors, Step(a) PROVE Moves
  BY <1>10, <1>1, <1>2 DEF Step, Moves
<1>11. ASSUME NEW a \in Actors, BatchStep(a) PROVE Moves
  BY <1>11, <1>1 DEF Moves
<1>12. CASE Receive
  BY <1>12, <1>3, <1>4 DEF Receive, Moves
<1>13. CASE MsgStep
  BY <1>13, <1>5, <1>6, <1>10, <1>11 DEF MsgStep, Actors, Moves
<1>14. ASSUME NEW s \in Sessions, Healthcheck(s) PROVE Moves
  BY <1>14, <1>8, <1>10 DEF Healthcheck, Actors, Moves
<1>15. ASSUME NEW a \in Batchers, Step(a) \/ BatchStep(a) PROVE Moves
  BY <1>15, <1>10, <1>11 DEF Actors
<1> QED
  BY <1>7, <1>9, <1>12, <1>13, <1>14, <1>15 DEF Next, Moves

\* Every step preserves the invariant.
LEMMA NextRegistry == RegistryInv /\ [Next]_vars => RegistryInv'
<1> SUFFICES ASSUME RegistryInv, [Next]_vars PROVE RegistryInv'
  OBVIOUS
<1>1. Moves
  BY NextMoves DEF RegistryInv
<1>2. ASSUME NEW a \in Actors, Delete(a) PROVE RegistryInv'
  BY <1>2, DeleteByIdsRegistry DEF Delete
<1> QED
  BY <1>1, <1>2, SpawnNewRegistry, LeavesRegistryInv DEF Moves

\* The registry invariant holds in every reachable state.
THEOREM RegistryHolds == Spec => []RegistryInv
  BY InitRegistry, NextRegistry, PTL DEF Spec

\* sessionsMap and sessionsByUserIdMap agree, whatever the number of actors
\* that stop, delete and re-create sessions at the same time.
THEOREM MapsAgreeHolds == Spec => []MapsAgree
<1>1. RegistryInv => MapsAgree
  BY DEF RegistryInv
<1> QED
  BY RegistryHolds, <1>1, PTL

\* No user ever has more than MaxUserSessions sessions.
THEOREM UserLimitHolds == Spec => []UserLimit
<1>1. RegistryInv => UserLimit
  BY DEF RegistryInv
<1> QED
  BY RegistryHolds, <1>1, PTL

-----------------------------------------------------------------------------
(***************************************************************************)
(* ShellSessions implements SessionRegistry.                               *)
(***************************************************************************)

\* A session gets its user when it is created.
OwnerInv == \A s \in Sessions : status[s] = "free" => user[s] = None

LEMMA NextOwner == ASSUME RegistryInv, OwnerInv, [Next]_vars PROVE OwnerInv'
<1> USE DEF RegistryInv, RegistryTypes, OwnerInv
<1>1. ASSUME NEW i \in SessionIds, NEW u \in UserIds, NEW s \in Sessions, SpawnNew(i, u, s)
      PROVE  OwnerInv'
  BY <1>1 DEF SpawnNew
<1>2. ASSUME NEW a \in Actors, Delete(a) PROVE OwnerInv'
  BY <1>2 DEF Delete, sessionVars
<1>3. CASE LeavesRegistry
  BY <1>3 DEF LeavesRegistry
<1> QED BY <1>1, <1>2, <1>3, NextMoves DEF Moves

\* The list of a user is the set of its sessions that can be found by their id.
LEMMA ListIsOwned == ASSUME RegistryInv, NEW u \in UserIds PROVE byUser[u] = Registry!Owned(u)
<1> USE NoneAssumption DEF RegistryInv, RegistryTypes, MapsAgree, Registry!Owned
<1>1. ASSUME NEW s \in byUser[u] PROVE s \in Registry!Owned(u)
  BY <1>1
<1>2. ASSUME NEW s \in Registry!Owned(u) PROVE s \in byUser[u]
  BY <1>2
<1> QED BY <1>1, <1>2

\* NewMenderShellSession creates one.
LEMMA SpawnCreates ==
  ASSUME RegistryInv, OwnerInv, NEW i \in SessionIds, NEW u \in UserIds, NEW s \in Sessions,
         SpawnNew(i, u, s)
  PROVE  Registry!Create(i, u, s)
<1>1. Cardinality(Registry!Owned(u)) < MaxUserSessions
  BY ListIsOwned DEF SpawnNew
<1>2. /\ sessionsMap[i] = None /\ status[s] = "free"
      /\ sessionsMap' = [sessionsMap EXCEPT ![i] = s]
      /\ user' = [user EXCEPT ![s] = u]
  BY DEF SpawnNew
<1>3. Registry!Cardinality(Registry!Owned(u)) = Cardinality(Registry!Owned(u))
  \* The two instances of FiniteSets are the same.
  BY DEF Cardinality, Registry!Cardinality
<1> QED BY <1>1, <1>2, <1>3 DEF OwnerInv, Registry!Create

\* Every step creates one session, removes some, or changes nothing.
LEMMA NextImplements ==
  ASSUME RegistryInv, OwnerInv, [Next]_vars
  PROVE  [Registry!Next]_(Registry!registryVars)
<1> USE DEF Registry!Next, Registry!registryVars
<1>1. ASSUME NEW i \in SessionIds, NEW u \in UserIds, NEW s \in Sessions, SpawnNew(i, u, s)
      PROVE  Registry!Next
  BY <1>1, SpawnCreates
<1>2. ASSUME NEW a \in Actors, Delete(a) PROVE Registry!Next
  <2> DEFINE all == {sid[s] : s \in job[a].batch}
             ids == all \cap SessionIds
  <2>1. /\ user' = user
        /\ sessionsMap' = [i \in SessionIds |-> IF i \in all THEN None ELSE sessionsMap[i]]
    BY <1>2 DEF Delete, DeleteByIds, sessionVars
  <2>2. Registry!Remove(ids)
    BY <2>1 DEF Registry!Remove
  <2>3. ids \in SUBSET SessionIds
    OBVIOUS
  <2> QED BY <2>2, <2>3
<1>3. CASE LeavesRegistry
  BY <1>3 DEF LeavesRegistry
<1>4. Moves
  BY NextMoves DEF RegistryInv
<1> QED BY <1>1, <1>2, <1>3, <1>4 DEF Moves

\* The two maps, their mutex and the goroutines that use them make one table in
\* which sessions are created below the limit of their user and removed for good.
THEOREM ImplementsRegistry == Spec => IsSessionRegistry
<1>1. Init => OwnerInv /\ Registry!Init
  BY DEF Init, OwnerInv, Registry!Init
<1>2. Spec => []OwnerInv
  BY <1>1, RegistryHolds, NextOwner, PTL DEF Spec
<1> QED BY <1>1, <1>2, RegistryHolds, NextImplements, PTL
     DEF Spec, IsSessionRegistry, Registry!Spec

-----------------------------------------------------------------------------
(***************************************************************************)
(* Type correctness.                                                       *)
(***************************************************************************)
PCs == {"idle", "start", "countSpawn", "watch", "stopMark", "stopWait",
        "oneStopped", "countStop", "storeStop", "many", "manyStopped", "delete",
        "checkStopped", "decrease", "compare", "subtract", "storeLess", "storeCount"}

\* The part of the state that only its owner changes.
LocalTypes == pc \in [Actors -> PCs] /\ job \in [Actors -> Jobs]

\* Labels at which the session in obj is used.
ObjPCs == {"start", "stopMark", "stopWait", "oneStopped", "manyStopped"}

\* Actors hold sessions that were created, so that their id can be looked up,
\* and write a uint.
JobOK(a) ==
    /\ pc[a] \in ObjPCs => job[a].obj \in Sessions
    /\ job[a].obj \in Sessions => sid[job[a].obj] \in SessionIds
    /\ \A s \in job[a].todo : sid[s] \in SessionIds
    /\ pc[a] \in Storing => job[a].cnt \in 0..MaxUint

WatchOK == \A s \in Sessions : pc[s] = "watch" => sid[s] \in SessionIds

LocalInv == LocalTypes /\ (\A a \in Actors : JobOK(a)) /\ WatchOK

OtherTypes ==
    /\ pid \in [Sessions -> Nat]
    /\ stopClosed \in [Sessions -> BOOLEAN]
    /\ pong \in [Sessions -> BOOLEAN]
    /\ shellsSpawned \in 0..MaxUint
    /\ alive \subseteq 1 .. spawns
    /\ spawns \in Nat /\ batches \in Nat /\ pongs \in Nat /\ faults \in Nat

\* What is computed with a uint is a uint.
LEMMA WrapType == \A n \in Int : Wrap(n) \in 0..MaxUint
  BY LimitAssumption DEF Wrap

\* One actor moves to label l with locals j; no session loses its id.
LEMMA Move ==
    ASSUME LocalInv, NEW a \in Actors, NEW l \in PCs, NEW j \in Jobs,
           pc' = [pc EXCEPT ![a] = l], job' = [job EXCEPT ![a] = j],
           \A s \in Sessions : sid[s] \in SessionIds => sid'[s] \in SessionIds,
           l \in ObjPCs => j.obj \in Sessions,
           j.obj \in Sessions => sid'[j.obj] \in SessionIds,
           \A s \in j.todo : sid'[s] \in SessionIds,
           l \in Storing => j.cnt \in 0..MaxUint,
           l # "watch"
    PROVE  LocalInv'
<1>1. LocalTypes'
  BY DEF LocalInv, LocalTypes
<1>2. ASSUME NEW b \in Actors PROVE JobOK(b)'
  <2>1. CASE b = a
    BY <2>1 DEF LocalInv, LocalTypes, JobOK
  <2>2. CASE b # a
    <3>1. pc'[b] = pc[b] /\ job'[b] = job[b] /\ job[b] \in Jobs
      BY <2>2 DEF LocalInv, LocalTypes
    <3>2. job[b].todo \subseteq Sessions
      BY <3>1 DEF Jobs
    <3> QED
      BY <3>1, <3>2 DEF LocalInv, JobOK
  <2> QED
    BY <2>1, <2>2
<1>3. WatchOK'
  BY DEF LocalInv, LocalTypes, WatchOK, Actors
<1> QED
  BY <1>1, <1>2, <1>3 DEF LocalInv

\* The locals of an actor that has nothing to do.
LEMMA NoJobOK == /\ NoJob \in Jobs
                 /\ NoJob.obj \notin Sessions /\ NoJob.todo = {}
  BY NoneAssumption DEF NoJob, Jobs

\* An actor that is done keeps nothing.
LEMMA FinishInv ==
    ASSUME LocalInv, NEW a \in Actors, Finish(a), UNCHANGED sid
    PROVE  LocalInv'
<1>1. "idle" \in PCs /\ "idle" \notin ObjPCs /\ "idle" \notin Storing
  BY DEF PCs, ObjPCs, Storing
<1> QED
  BY <1>1, NoJobOK, Move DEF Finish, Goto

\* An actor that only counts.
LEMMA CountInvLocal ==
    ASSUME LocalInv, NEW a \in Actors, NEW l \in PCs \ ObjPCs, NEW c \in Nat,
           pc' = [pc EXCEPT ![a] = l], job' = [job EXCEPT ![a].cnt = c],
           l \in Storing => c \in 0..MaxUint, l # "watch", UNCHANGED sid
    PROVE  LocalInv'
<1> DEFINE j == [job[a] EXCEPT !.cnt = c]
<1>1. job[a] \in Jobs /\ JobOK(a)
  BY DEF LocalInv, LocalTypes
<1>2. /\ j \in Jobs /\ j.obj = job[a].obj /\ j.todo = job[a].todo /\ j.cnt = c
      /\ job[a].todo \subseteq Sessions
  BY <1>1 DEF Jobs
<1>3. job' = [job EXCEPT ![a] = j]
  OBVIOUS
<1>4. /\ \A t \in j.todo : sid'[t] \in SessionIds
      /\ j.obj \in Sessions => sid'[j.obj] \in SessionIds
  BY <1>1, <1>2 DEF JobOK
<1> HIDE DEF j
<1> QED
  BY <1>2, <1>3, <1>4, Move

\* StopShell returns to the label it was called from.
LEMMA ReturnStopInv ==
    ASSUME LocalInv, NEW a \in Actors, NEW ok \in BOOLEAN, ReturnStop(a, ok),
           job[a].obj \in Sessions, UNCHANGED sid
    PROVE  LocalInv'
<1> DEFINE j == [[job[a] EXCEPT !.ok = ok] EXCEPT !.proc = 0]
<1>1. job[a] \in Jobs
  BY DEF LocalInv, LocalTypes
<1>2. j \in Jobs /\ j.obj = job[a].obj /\ j.todo = job[a].todo
  BY <1>1 DEF Jobs
<1>3. job[a].ret \in PCs /\ job[a].ret # "watch" /\ job[a].ret \notin Storing
  BY <1>1 DEF Jobs, PCs, Storing
<1>4. job' = [job EXCEPT ![a] = j] /\ pc' = [pc EXCEPT ![a] = job[a].ret]
  BY DEF ReturnStop, Goto
<1>5. JobOK(a)
  BY DEF LocalInv
<1> HIDE DEF j
<1> QED
  BY <1>2, <1>3, <1>4, <1>5, Move DEF JobOK

\* StopShell is called for a session that was created.
LEMMA CallStopInv ==
    ASSUME LocalInv, NEW a \in Actors, NEW s \in Sessions,
           NEW ret \in {"oneStopped", "manyStopped"},
           NEW todo \in SUBSET Sessions, CallStop(a, s, ret, todo),
           sid[s] \in SessionIds, \A t \in todo : sid[t] \in SessionIds,
           UNCHANGED sid
    PROVE  LocalInv'
<1> DEFINE j == [job[a] EXCEPT !.obj = s, !.ret = ret, !.ok = FALSE,
                               !.todo = todo]
           l == IF status[s] = "active" THEN "stopMark" ELSE ret
<1>1. job[a] \in Jobs
  BY DEF LocalInv, LocalTypes
<1>2. j \in Jobs /\ j.obj = s /\ j.todo = todo
  BY <1>1 DEF Jobs
<1>3. l \in PCs /\ l # "watch" /\ l \notin Storing
  BY DEF PCs, Storing
<1>4. job' = [job EXCEPT ![a] = j] /\ pc' = [pc EXCEPT ![a] = l]
  BY DEF CallStop, Goto
<1> HIDE DEF j, l
<1> QED
  BY <1>2, <1>3, <1>4, Move

\* A registered session was created.
LEMMA RegisteredHasId ==
    ASSUME RegistryInv, NEW i \in SessionIds, sessionsMap[i] # None
    PROVE  sessionsMap[i] \in Sessions /\ sid[sessionsMap[i]] \in SessionIds
  BY DEF RegistryInv, RegistryTypes, MapsAgree

\* Neither pc, job nor sid changes.
LEMMA SameLocal == LocalInv /\ UNCHANGED <<pc, job, sid>> => LocalInv'
  BY DEF LocalInv, LocalTypes, JobOK, WatchOK

\* The steps of an actor that has begun something keep LocalInv.
LEMMA StepLocal ==
    ASSUME RegistryInv, LocalInv, OtherTypes, NEW a \in Actors,
           Step(a) \/ BatchStep(a)
    PROVE  LocalInv'
<1> USE DEF mapVars, sessionVars
<1>0. /\ job[a] \in Jobs /\ pc[a] \in PCs /\ JobOK(a)
      /\ job[a].todo \subseteq Sessions /\ job[a].batch \subseteq Sessions
      /\ job[a].cnt \in Nat /\ job[a].err \in BOOLEAN
  BY DEF LocalInv, LocalTypes, Jobs
<1>1. CASE StopMark(a)
  <2>1. job[a].obj \in Sessions /\ UNCHANGED sid /\ sid[job[a].obj] \in SessionIds
    BY <1>0, <1>1 DEF StopMark, JobOK, ObjPCs
  <2>2. CASE ReturnStop(a, FALSE)
    BY <2>1, <2>2, ReturnStopInv
  <2>3. CASE /\ Goto(a, "stopWait")
             /\ job' = [job EXCEPT ![a].proc = pid[job[a].obj]]
    <3> DEFINE j == [job[a] EXCEPT !.proc = pid[job[a].obj]]
    <3>1. pid[job[a].obj] \in Nat
      BY <2>1 DEF OtherTypes
    <3>2. j \in Jobs /\ j.obj = job[a].obj /\ j.todo = job[a].todo
      BY <1>0, <3>1 DEF Jobs
    <3>3. pc' = [pc EXCEPT ![a] = "stopWait"] /\ job' = [job EXCEPT ![a] = j]
      BY <2>3 DEF Goto
    <3>4. \A s \in j.todo : sid'[s] \in SessionIds
      BY <1>0, <2>1, <3>2 DEF JobOK
    <3>5. "stopWait" \in PCs /\ "stopWait" \notin Storing
      BY DEF PCs, Storing
    <3> HIDE DEF j
    <3> QED
      BY <2>1, <3>2, <3>3, <3>4, <3>5, Move
  <2> QED
    BY <1>1, <2>2, <2>3 DEF StopMark
<1>2. CASE StopWait(a)
  <2>1. job[a].obj \in Sessions /\ UNCHANGED sid
    BY <1>0, <1>2 DEF StopWait, JobOK, ObjPCs
  <2>2. \E ok \in BOOLEAN : ReturnStop(a, ok)
    BY <1>2 DEF StopWait
  <2> QED
    BY <2>1, <2>2, ReturnStopInv
<1>3. CASE GiveUpOne(a)
  BY <1>3, FinishInv DEF GiveUpOne
<1>4. CASE StoppedOne(a)
  <2> DEFINE j == [NoJob EXCEPT !.batch = {job[a].obj}]
             l == IF a = "msg" /\ shellsSpawned # 0 THEN "countStop" ELSE "delete"
  <2>1. job[a].obj \in Sessions /\ UNCHANGED sid
    BY <1>0, <1>4 DEF StoppedOne, JobOK, ObjPCs
  <2>2. j \in Jobs /\ j.obj \notin Sessions /\ j.todo = {}
    BY <2>1, NoneAssumption DEF NoJob, Jobs
  <2>3. l \in PCs /\ l # "watch" /\ l \notin ObjPCs /\ l \notin Storing
    BY DEF PCs, ObjPCs, Storing
  <2>4. pc' = [pc EXCEPT ![a] = l] /\ job' = [job EXCEPT ![a] = j]
    BY <1>4 DEF StoppedOne, Goto
  <2> HIDE DEF j, l
  <2> QED
    BY <2>1, <2>2, <2>3, <2>4, Move
<1>5. CASE Delete(a)
  <2>0. UNCHANGED sid
    BY <1>5 DEF Delete
  <2>1. CASE Finish(a)
    BY <2>0, <2>1, FinishInv
  <2>2. CASE ~Finish(a)
    <3> DEFINE found == {s \in job[a].batch : sessionsMap[sid[s]] # None}
               cnt == IF a = "main" THEN Cardinality(found) ELSE job[a].cnt
               j == [NoJob EXCEPT !.cnt = cnt]
               l == IF a = "msg" THEN "checkStopped" ELSE "decrease"
    <3>1. cnt \in Nat
      <4>1. found \in SUBSET Sessions
        BY <1>0
      <4>2. IsFiniteSet(found)
        BY <4>1, FiniteAssumption, FS_Subset
      <4>3. Cardinality(found) \in Nat
        BY <4>2, FS_CardinalityType
      <4> QED
        BY <1>0, <4>3
    <3>2. pc' = [pc EXCEPT ![a] = l] /\ job' = [job EXCEPT ![a] = j]
      BY <1>5, <2>2 DEF Delete, Goto
    <3> HIDE DEF cnt
    <3>3. j \in Jobs /\ j.obj \notin Sessions /\ j.todo = {}
      BY <3>1, NoneAssumption DEF NoJob, Jobs
    <3>4. l \in PCs /\ l # "watch" /\ l \notin ObjPCs /\ l \notin Storing
      BY DEF PCs, ObjPCs, Storing
    <3> HIDE DEF j, l
    <3> QED
      BY <2>0, <3>2, <3>3, <3>4, Move
  <2> QED
    BY <2>1, <2>2
<1>6. CASE StopNext(a)
  <2>1. PICK s \in job[a].todo : CallStop(a, s, "manyStopped", job[a].todo \ {s})
    BY <1>6 DEF StopNext
  <2>2. s \in Sessions /\ job[a].todo \ {s} \in SUBSET Sessions /\ UNCHANGED sid
    BY <1>0, <1>6 DEF StopNext
  <2>3. sid[s] \in SessionIds /\ \A t \in job[a].todo \ {s} : sid[t] \in SessionIds
    BY <1>0 DEF JobOK
  <2> QED
    BY <2>1, <2>2, <2>3, CallStopInv
<1>7. CASE StoppedMany(a)
  <2> DEFINE s == job[a].obj
             gone == job[a].ok \/ (a = "msg" /\ pid[s] \notin alive)
             j == [NoJob EXCEPT
                     !.todo = job[a].todo,
                     !.cnt = IF gone THEN job[a].cnt + 1 ELSE job[a].cnt,
                     !.err = job[a].err \/ ~gone,
                     !.batch = IF a = "msg" /\ gone THEN job[a].batch \cup {s}
                                                    ELSE job[a].batch]
  <2>1. s \in Sessions /\ UNCHANGED sid
    BY <1>0, <1>7 DEF StoppedMany, JobOK, ObjPCs
  <2>2. j \in Jobs /\ j.obj \notin Sessions /\ j.todo = job[a].todo
    <3> DEFINE cnt == IF gone THEN job[a].cnt + 1 ELSE job[a].cnt
               err == job[a].err \/ ~gone
               batch == IF a = "msg" /\ gone THEN job[a].batch \cup {s}
                                             ELSE job[a].batch
    <3>2. cnt \in Nat /\ batch \in SUBSET Sessions /\ err \in BOOLEAN
      BY <1>0, <2>1
    <3>3. j = [NoJob EXCEPT !.todo = job[a].todo, !.cnt = cnt, !.err = err,
                            !.batch = batch]
      OBVIOUS
    <3> HIDE DEF gone, s, cnt, err, batch, j
    <3> QED
      BY <1>0, <3>2, <3>3, NoneAssumption DEF NoJob, Jobs
  <2>3. pc' = [pc EXCEPT ![a] = "many"] /\ job' = [job EXCEPT ![a] = j]
    BY <1>7 DEF StoppedMany, Goto
  <2>4. "many" \in PCs /\ "many" \notin ObjPCs /\ "many" \notin Storing
    BY DEF PCs, ObjPCs, Storing
  <2>5. \A t \in j.todo : sid'[t] \in SessionIds
    BY <1>0, <2>1, <2>2 DEF JobOK
  <2> HIDE DEF j, s
  <2> QED
    BY <2>1, <2>2, <2>3, <2>4, <2>5, Move
<1>8. CASE CountStep(a)
  <2> USE DEF Goto, CountOnly, PCs, ObjPCs
  <2>0. shellsSpawned \in 0..MaxUint /\ MaxUint \in Nat /\ 0 \in 0..MaxUint
    BY LimitAssumption DEF OtherTypes
  <2>1. CASE Finish(a)
    <3>1. UNCHANGED sid
      BY <1>8 DEF CountStep, Decrease, Compare, Subtract, StoreCount
    <3> QED
      BY <2>1, <3>1, FinishInv
  <2>2. job = [job EXCEPT ![a].cnt = job[a].cnt]
    BY <1>0 DEF LocalInv, LocalTypes, Jobs
  <2>3. CASE Decrease(a) /\ ~Finish(a)
    <3>1. pc' = [pc EXCEPT ![a] = "compare"] /\ job' = job /\ UNCHANGED sid
      BY <2>3 DEF Decrease
    <3>2. job' = [job EXCEPT ![a].cnt = job[a].cnt]
      BY <2>2, <3>1
    <3> QED
      BY <1>0, <3>1, <3>2, CountInvLocal DEF Storing
  <2>4. CASE Compare(a)
    <3>1. CASE /\ pc' = [pc EXCEPT ![a] = "storeLess"]
               /\ job' = [job EXCEPT ![a].cnt = 0] /\ UNCHANGED sid
      BY <2>0, <3>1, CountInvLocal
    <3>2. CASE pc' = [pc EXCEPT ![a] = "subtract"] /\ job' = job /\ UNCHANGED sid
      <4>1. job' = [job EXCEPT ![a].cnt = job[a].cnt]
        BY <2>2, <3>2
      <4> QED
        BY <1>0, <3>2, <4>1, CountInvLocal DEF Storing
    <3> QED
      BY <2>4, <3>1, <3>2 DEF Compare
  <2>5. CASE Subtract(a)
    <3>1. /\ Wrap(shellsSpawned - job[a].cnt) \in 0..MaxUint
          /\ Wrap(shellsSpawned - job[a].cnt) \in Nat
      BY <1>0, <2>0, WrapType
    <3>2. /\ pc' = [pc EXCEPT ![a] = "storeLess"] /\ UNCHANGED sid
          /\ job' = [job EXCEPT ![a].cnt = Wrap(shellsSpawned - job[a].cnt)]
      BY <2>5 DEF Subtract
    <3> QED
      BY <3>1, <3>2, CountInvLocal
  <2>6. CASE StoreCount(a) /\ ~Finish(a)
    <3>1. /\ pc' = [pc EXCEPT ![a] = "delete"] /\ job' = [job EXCEPT ![a].cnt = 0]
          /\ UNCHANGED sid
      BY <2>6 DEF StoreCount
    <3> QED
      BY <2>0, <3>1, CountInvLocal
  <2> QED
    BY <1>8, <2>1, <2>3, <2>4, <2>5, <2>6 DEF CountStep
<1> QED
  BY <1>1, <1>2, <1>3, <1>4, <1>5, <1>6, <1>7, <1>8 DEF Step, BatchStep

\* What messageLoop begins, and the steps only it takes, keep LocalInv.
LEMMA MsgLocal ==
    ASSUME RegistryInv, LocalInv, OtherTypes, Receive \/ MsgStep
    PROVE  LocalInv'
<1> USE DEF mapVars, sessionVars
<1> DEFINE m == job["msg"]
<1>0. /\ "msg" \in Actors /\ m \in Jobs /\ JobOK("msg")
  BY DEF LocalInv, LocalTypes, Actors
<1>1. ASSUME NEW i \in SessionIds, NEW u \in UserIds, NEW s \in Sessions,
             SpawnNew(i, u, s)
      PROVE  LocalInv'
  <2> DEFINE j == [m EXCEPT !.obj = s]
  <2>1. /\ sid'[s] = i /\ \A t \in Sessions : t # s => sid'[t] = sid[t]
    BY <1>1 DEF SpawnNew, RegistryInv, RegistryTypes
  <2>2. j \in Jobs /\ j.obj = s /\ j.todo = m.todo /\ m.todo \subseteq Sessions
    BY <1>0 DEF Jobs
  <2>3. pc' = [pc EXCEPT !["msg"] = "start"] /\ job' = [job EXCEPT !["msg"] = j]
    BY <1>1 DEF SpawnNew, Goto
  <2>4. \A t \in j.todo : sid'[t] \in SessionIds
    BY <1>0, <2>1, <2>2 DEF JobOK
  <2>5. "start" \in PCs /\ "start" \notin Storing
    BY DEF PCs, Storing
  <2> HIDE DEF j
  <2> QED
    BY <1>0, <2>1, <2>2, <2>3, <2>4, <2>5, Move
<1>2. ASSUME NEW i \in SessionIds, SpawnAgain(i) PROVE LocalInv'
  <2> DEFINE j == [m EXCEPT !.obj = sessionsMap[i]]
  <2>1. /\ sessionsMap[i] \in Sessions /\ sid[sessionsMap[i]] \in SessionIds
        /\ UNCHANGED sid
    BY <1>2, RegisteredHasId DEF SpawnAgain
  <2>2. j \in Jobs /\ j.obj = sessionsMap[i] /\ j.todo = m.todo
    BY <1>0, <2>1 DEF Jobs
  <2>3. pc' = [pc EXCEPT !["msg"] = "start"] /\ job' = [job EXCEPT !["msg"] = j]
    BY <1>2 DEF SpawnAgain, Goto
  <2>4. \A t \in j.todo : sid'[t] \in SessionIds
    BY <1>0, <2>1, <2>2 DEF JobOK
  <2>5. "start" \in PCs /\ "start" \notin Storing
    BY DEF PCs, Storing
  <2> HIDE DEF j
  <2> QED
    BY <1>0, <2>1, <2>2, <2>3, <2>4, <2>5, Move
<1>3. ASSUME NEW i \in SessionIds, StopById(i) PROVE LocalInv'
  BY <1>0, <1>3, RegisteredHasId, CallStopInv DEF StopById
<1>4. ASSUME NEW u \in UserIds, StopByUserId(u) PROVE LocalInv'
  <2> DEFINE S == {s \in byUser[u] : pid[s] # 0}
             j == [m EXCEPT !.todo = S]
  <2>1. S \in SUBSET Sessions /\ UNCHANGED sid /\ \A s \in S : sid[s] \in SessionIds
    BY <1>4 DEF StopByUserId, RegistryInv, RegistryTypes, MapsAgree
  <2> HIDE DEF S
  <2>2. j \in Jobs /\ j.obj = m.obj /\ j.todo = S
    BY <1>0, <2>1 DEF Jobs
  <2>3. pc' = [pc EXCEPT !["msg"] = "many"] /\ job' = [job EXCEPT !["msg"] = j]
    BY <1>4 DEF StopByUserId, Goto, S
  <2>4. "many" \in PCs /\ "many" \notin ObjPCs /\ "many" \notin Storing
    BY DEF PCs, ObjPCs, Storing
  <2>5. j.obj \in Sessions => sid'[j.obj] \in SessionIds
    BY <1>0, <2>1, <2>2 DEF JobOK
  <2> HIDE DEF j
  <2> QED
    BY <1>0, <2>1, <2>2, <2>3, <2>4, <2>5, Move
<1>5. ASSUME NEW i \in SessionIds, Pong(i) PROVE LocalInv'
  BY <1>5, SameLocal DEF Pong
<1>6. CASE StartShell
  <2> DEFINE s == m.obj
             j == NoJob
  <2>1. s \in Sessions /\ sid[s] \in SessionIds /\ UNCHANGED sid
    BY <1>0, <1>6 DEF StartShell, JobOK, ObjPCs
  <2>2. j \in Jobs /\ j.obj \notin Sessions /\ j.todo = {}
    BY NoJobOK
  <2>3. s # "msg" /\ s \in Actors
    BY <2>1, ActorAssumption DEF Actors
  <2>4. /\ job' = [job EXCEPT !["msg"] = j]
        /\ pc' = [pc EXCEPT !["msg"] = "countSpawn",
                            ![s] = IF stopClosed[s] THEN @ ELSE "watch"]
    BY <1>6 DEF StartShell
  <2>5. /\ pc'["msg"] = "countSpawn"
        /\ pc'[s] = pc[s] \/ pc'[s] = "watch"
        /\ \A b \in Actors : b # "msg" /\ b # s => pc'[b] = pc[b]
        /\ pc' \in [Actors -> PCs]
    BY <1>0, <2>3, <2>4 DEF LocalInv, LocalTypes, PCs
  <2>6. job' \in [Actors -> Jobs] /\ job'["msg"] = j
        /\ \A b \in Actors : b # "msg" => job'[b] = job[b]
    <3> HIDE DEF j
    <3> QED
      BY <1>0, <2>2, <2>4 DEF LocalInv, LocalTypes
  <2> HIDE DEF j, s
  <2>7. ASSUME NEW b \in Actors PROVE JobOK(b)'
    <3>1. CASE b = "msg"
      BY <1>0, <2>1, <2>2, <2>5, <2>6, <3>1 DEF JobOK, ObjPCs, Storing
    <3>2. CASE b # "msg"
      <4>1. job'[b] = job[b] /\ (pc'[b] = pc[b] \/ pc'[b] = "watch") /\ JobOK(b)
        BY <2>5, <2>6, <3>2 DEF LocalInv
      <4> QED
        BY <2>1, <4>1 DEF JobOK, ObjPCs, Storing
    <3> QED
      BY <3>1, <3>2
  <2>8. WatchOK'
    BY <2>1, <2>5 DEF WatchOK, LocalInv, Actors
  <2> QED
    BY <2>5, <2>6, <2>7, <2>8 DEF LocalInv, LocalTypes
<1>7. CASE StartShellFails
  BY <1>0, <1>7, FinishInv DEF StartShellFails
<1>8. CASE CountSpawn \/ CountStop
  <2>0. shellsSpawned \in 0..MaxUint /\ MaxUint \in Nat
    BY LimitAssumption DEF OtherTypes
  <2>1. PICK n \in Int : \E l \in {"storeCount", "storeStop"} :
          /\ pc' = [pc EXCEPT !["msg"] = l]
          /\ job' = [job EXCEPT !["msg"].cnt = Wrap(n)] /\ UNCHANGED sid
    BY <1>8, <2>0 DEF CountSpawn, CountStop, Goto
  <2>2. Wrap(n) \in 0..MaxUint /\ Wrap(n) \in Nat
    BY <2>0, WrapType
  <2> QED
    BY <1>0, <2>1, <2>2, CountInvLocal DEF PCs, ObjPCs
<1>9. CASE CheckStopped
  <2>0. m.cnt \in Nat /\ 0 \in 0..MaxUint
    BY <1>0, LimitAssumption DEF Jobs
  <2>1. CASE /\ pc' = [pc EXCEPT !["msg"] = "storeCount"]
             /\ job' = [job EXCEPT !["msg"].cnt = 0] /\ UNCHANGED sid
    BY <1>0, <2>0, <2>1, CountInvLocal DEF PCs, ObjPCs
  <2>2. CASE pc' = [pc EXCEPT !["msg"] = "decrease"] /\ job' = job /\ UNCHANGED sid
    <3>1. job' = [job EXCEPT !["msg"].cnt = m.cnt]
      BY <1>0, <2>2 DEF LocalInv, LocalTypes, Jobs
    <3> QED
      BY <1>0, <2>0, <2>2, <3>1, CountInvLocal DEF PCs, ObjPCs, Storing
  <2> QED
    BY <1>9, <2>1, <2>2 DEF CheckStopped, CountOnly, Goto
<1> QED
  BY <1>0, <1>1, <1>2, <1>3, <1>4, <1>5, <1>6, <1>7, <1>8, <1>9, StepLocal
     DEF Receive, MsgStep

\* A batch starts with registered sessions.
LEMMA StartBatchLocal ==
    ASSUME RegistryInv, LocalInv, NEW a \in Actors, NEW S \in SUBSET Registered,
           StartBatch(a, S)
    PROVE  LocalInv'
<1> DEFINE j == [job[a] EXCEPT !.todo = S, !.batch = S]
<1>1. S \in SUBSET Sessions /\ \A s \in S : sid[s] \in SessionIds
  BY RegisteredHasId DEF Registered
<1>2. job[a] \in Jobs /\ JobOK(a) /\ UNCHANGED sid
  BY DEF LocalInv, LocalTypes, StartBatch, sessionVars
<1>3. j \in Jobs /\ j.obj = job[a].obj /\ j.todo = S
  BY <1>1, <1>2 DEF Jobs
<1>4. pc' = [pc EXCEPT ![a] = "many"] /\ job' = [job EXCEPT ![a] = j]
  BY DEF StartBatch, Goto
<1>5. "many" \in PCs /\ "many" \notin ObjPCs /\ "many" \notin Storing
  BY DEF PCs, ObjPCs, Storing
<1>6. j.obj \in Sessions => sid'[j.obj] \in SessionIds
  BY <1>2, <1>3 DEF JobOK
<1> HIDE DEF j
<1> QED
  BY <1>1, <1>2, <1>3, <1>4, <1>5, <1>6, Move

\* A healthcheck looks up the id of a session that was created.
LEMMA HealthcheckLocal ==
    ASSUME RegistryInv, LocalInv, OtherTypes, NEW s \in Sessions, Healthcheck(s)
    PROVE  LocalInv'
<1> USE DEF mapVars, sessionVars
<1>0. s \in Actors
  BY DEF Actors
<1>1. CASE HealthcheckGotPong(s)
  BY <1>1, SameLocal DEF HealthcheckGotPong
<1>2. CASE HealthcheckReturns(s)
  BY <1>0, <1>2, FinishInv DEF HealthcheckReturns
<1>3. CASE HealthcheckTimeout(s)
  <2>1. sid[s] \in SessionIds /\ UNCHANGED sid
    BY <1>3 DEF HealthcheckTimeout, LocalInv, WatchOK
  <2>2. CASE Finish(s)
    BY <1>0, <2>1, <2>2, FinishInv
  <2>3. CASE /\ sessionsMap[sid[s]] # None
             /\ CallStop(s, sessionsMap[sid[s]], "oneStopped", {})
    BY <1>0, <2>1, <2>3, RegisteredHasId, CallStopInv
  <2> QED
    BY <1>3, <2>2, <2>3 DEF HealthcheckTimeout
<1> QED
  BY <1>0, <1>1, <1>2, <1>3, StepLocal DEF Healthcheck

\* Every step keeps LocalInv.
LEMMA NextLocal ==
    ASSUME RegistryInv, LocalInv, OtherTypes, [Next]_vars
    PROVE  LocalInv'
<1>1. CASE Receive \/ MsgStep
  BY <1>1, MsgLocal
<1>2. CASE TerminateAll \/ TerminateExpired
  <2>1. Registered \in SUBSET Registered /\ "dbus" \in Actors /\ "main" \in Actors
    BY DEF Actors, Batchers
  <2> QED
    BY <1>2, <2>1, StartBatchLocal DEF TerminateAll, TerminateExpired
<1>3. ASSUME NEW a \in Batchers, Step(a) \/ BatchStep(a) PROVE LocalInv'
  BY <1>3, StepLocal DEF Actors
<1>4. ASSUME NEW s \in Sessions, Healthcheck(s) PROVE LocalInv'
  BY <1>4, HealthcheckLocal
<1>5. CASE UNCHANGED vars
  BY <1>5, SameLocal DEF vars
<1> QED
  BY <1>1, <1>2, <1>3, <1>4, <1>5 DEF Next

-----------------------------------------------------------------------------
\* Every step keeps the types that are not local to an actor.
LEMMA NextTypes ==
    ASSUME RegistryInv, LocalInv, OtherTypes, [Next]_vars
    PROVE  OtherTypes'
<1> USE DEF mapVars, sessionVars, bounds, OtherTypes
<1>m. "msg" \in Actors
  BY DEF Actors
<1>1. ASSUME NEW i \in SessionIds, NEW u \in UserIds, NEW s \in Sessions,
             SpawnNew(i, u, s)
      PROVE  OtherTypes'
  BY <1>1 DEF SpawnNew
<1>2. ASSUME NEW i \in SessionIds, SpawnAgain(i) \/ StopById(i) \/ Pong(i)
      PROVE  OtherTypes'
  <2>1. CASE SpawnAgain(i) \/ StopById(i)
    BY <2>1 DEF SpawnAgain, StopById
  <2>2. CASE Pong(i)
    <3>1. /\ pong' = [pong EXCEPT ![sessionsMap[i]] = TRUE] /\ pongs' = pongs + 1
          /\ UNCHANGED <<pid, stopClosed, shellsSpawned, alive, spawns, batches,
                         faults>>
      BY <2>2 DEF Pong
    <3>2. pong' \in [Sessions -> BOOLEAN]
      BY <3>1
    <3> QED
      BY <3>1, <3>2
  <2> QED
    BY <1>2, <2>1, <2>2
<1>3. ASSUME NEW u \in UserIds, StopByUserId(u) PROVE OtherTypes'
  BY <1>3 DEF StopByUserId
<1>4. CASE StartShell
  <2>1. /\ spawns' = spawns + 1 /\ alive' = alive \cup {spawns'}
        /\ pid' = [pid EXCEPT ![job["msg"].obj] = spawns']
        /\ UNCHANGED <<stopClosed, pong, shellsSpawned, batches, pongs, faults>>
    BY <1>4 DEF StartShell
  <2>2. spawns' \in Nat /\ alive' \subseteq 1 .. spawns'
    BY <2>1
  <2>3. pid' \in [Sessions -> Nat]
    BY <2>1, <2>2
  <2> QED
    BY <2>1, <2>2, <2>3
<1>5. CASE StartShellFails
  BY <1>5 DEF StartShellFails
<1>6. CASE CountSpawn \/ CountStop \/ CheckStopped
  BY <1>6 DEF CountSpawn, CountStop, CheckStopped, CountOnly
<1>7. ASSUME NEW a \in Actors, StopMark(a) PROVE OtherTypes'
  BY <1>7 DEF StopMark
<1>8. ASSUME NEW a \in Actors, StopWait(a) PROVE OtherTypes'
  <2>1. /\ alive' \subseteq alive /\ faults' \in {faults, faults + 1}
        /\ UNCHANGED <<pid, stopClosed, pong, shellsSpawned, spawns, batches, pongs>>
    BY <1>8 DEF StopWait
  <2> QED
    BY <2>1
<1>9. ASSUME NEW a \in Actors, GiveUpOne(a) \/ StoppedOne(a) \/ StopNext(a)
             \/ StoppedMany(a)
      PROVE  OtherTypes'
  BY <1>9 DEF GiveUpOne, StoppedOne, StopNext, StoppedMany
<1>10. ASSUME NEW a \in Actors, Delete(a) PROVE OtherTypes'
  BY <1>10 DEF Delete
<1>11. ASSUME NEW a \in Actors, CountStep(a) PROVE OtherTypes'
  <2>1. CASE StoreCount(a)
    <3>1. shellsSpawned' = job[a].cnt /\ shellsSpawned' \in 0..MaxUint
      BY <2>1 DEF StoreCount, LocalInv, JobOK
    <3>2. UNCHANGED <<pid, stopClosed, pong, alive, spawns, batches, pongs, faults>>
      BY <2>1 DEF StoreCount, CountOnly
    <3> QED
      BY <3>1, <3>2
  <2>2. CASE Decrease(a) \/ Compare(a) \/ Subtract(a)
    BY <2>2 DEF Decrease, Compare, Subtract, CountOnly
  <2> QED
    BY <1>11, <2>1, <2>2 DEF CountStep
<1>12. ASSUME NEW a, NEW S, StartBatch(a, S) PROVE OtherTypes'
  BY <1>12 DEF StartBatch
<1>13. ASSUME NEW s \in Sessions,
              \/ HealthcheckGotPong(s) \/ HealthcheckReturns(s)
              \/ HealthcheckTimeout(s)
       PROVE  OtherTypes'
  BY <1>13 DEF HealthcheckGotPong, HealthcheckReturns, HealthcheckTimeout
<1>14. CASE UNCHANGED vars
  BY <1>14 DEF vars
<1>15. ASSUME NEW a \in Actors, Step(a) \/ BatchStep(a) PROVE OtherTypes'
  BY <1>7, <1>8, <1>9, <1>10, <1>11, <1>15 DEF Step, BatchStep
<1>16. CASE Receive
  BY <1>1, <1>2, <1>3, <1>16 DEF Receive
<1>17. CASE MsgStep
  BY <1>4, <1>5, <1>6, <1>15, <1>17, <1>m DEF MsgStep
<1>18. CASE TerminateAll \/ TerminateExpired
  BY <1>12, <1>18 DEF TerminateAll, TerminateExpired
<1>19. ASSUME NEW a \in Batchers, Step(a) \/ BatchStep(a) PROVE OtherTypes'
  BY <1>15, <1>19 DEF Actors
<1>20. ASSUME NEW s \in Sessions, Healthcheck(s) PROVE OtherTypes'
  BY <1>13, <1>15, <1>20 DEF Healthcheck, Actors
<1> QED
  BY <1>14, <1>16, <1>17, <1>18, <1>19, <1>20 DEF Next

\* The whole inductive invariant.
IndInv == RegistryInv /\ LocalInv /\ OtherTypes

\* It holds in every reachable state.
THEOREM IndInvHolds == Spec => []IndInv
<1>1. Init => IndInv
  <2> SUFFICES ASSUME Init PROVE IndInv
    OBVIOUS
  <2>1. RegistryInv
    BY InitRegistry
  <2>2. LocalInv
    BY NoJobOK DEF Init, LocalInv, LocalTypes, JobOK, WatchOK, PCs, ObjPCs, Storing, Actors
  <2>3. OtherTypes
    BY LimitAssumption DEF Init, OtherTypes
  <2> QED
    BY <2>1, <2>2, <2>3 DEF IndInv
<1>2. IndInv /\ [Next]_vars => IndInv'
  BY NextRegistry, NextLocal, NextTypes DEF IndInv
<1> QED
  BY <1>1, <1>2, PTL DEF Spec

\* Every variable keeps its type, in particular what an actor is about to write to
\* d.shellsSpawned is a uint and every session an actor works on has an id to look
\* it up by, however many actors, sessions and processes there are.
THEOREM TypeCorrect == Spec => []TypeOK
<1>1. IndInv => TypeOK
  BY DEF IndInv, RegistryInv, RegistryTypes, LocalInv, LocalTypes, OtherTypes,
         JobOK, TypeOK, PCs
<1> QED
  BY IndInvHolds, <1>1, PTL

-----------------------------------------------------------------------------
(***************************************************************************)
(* The loops advance: StepsLeft falls with every step of their own.        *)
(***************************************************************************)
Loops == {"msg"} \cup Batchers

\* What actor a does, the others do not feel.
Alone(a) == \A b \in Actors \ {a} : pc'[b] = pc[b] /\ job'[b] = job[b]

Advances(a) == StepsLeft(a)' < StepsLeft(a)

LEMMA StageTyped ==
  /\ \A l \in PCs : Stage(l) \in 0..9
  /\ Stage("idle") = 0 /\ Stage("delete") = 1 /\ Stage("storeCount") = 1
  /\ Stage("storeLess") = 1 /\ Stage("countSpawn") = 2 /\ Stage("storeStop") = 2
  /\ Stage("subtract") = 2 /\ Stage("start") = 3 /\ Stage("countStop") = 3
  /\ Stage("compare") = 3 /\ Stage("oneStopped") = 4 /\ Stage("decrease") = 4
  /\ Stage("checkStopped") = 5 /\ Stage("many") = 6 /\ Stage("manyStopped") = 7
  /\ Stage("stopWait") = 8 /\ Stage("stopMark") = 9
BY DEF Stage, PCs

\* The locals of an actor; its list of sessions is finite.
LEMMA TodoTyped ==
  ASSUME LocalInv, NEW a \in Actors
  PROVE  /\ job[a] \in Jobs /\ pc[a] \in PCs
         /\ IsFiniteSet(job[a].todo) /\ Cardinality(job[a].todo) \in Nat
<1>1. job[a] \in Jobs /\ pc[a] \in PCs
  BY DEF LocalInv, LocalTypes
<1>2. job[a].todo \subseteq Sessions
  BY <1>1 DEF Jobs
<1> QED BY <1>1, <1>2, FiniteAssumption, FS_Subset, FS_CardinalityType

\* An actor that moves to an earlier stage, with no session more to stop.
LEMMA Nearer ==
  ASSUME LocalInv, NEW a \in Actors, NEW l \in PCs, pc'[a] = l, Stage(l) < Stage(pc[a]),
         job'[a].todo = job[a].todo \/ job'[a].todo = {}
  PROVE  Advances(a)
<1>1. /\ Cardinality(job[a].todo) \in Nat /\ Stage(l) \in Nat /\ Stage(pc[a]) \in Nat
  BY TodoTyped, StageTyped
<1>2. Cardinality(job'[a].todo) = Cardinality(job[a].todo) \/ Cardinality(job'[a].todo) = 0
  BY FS_EmptySet
<1>3. StepsLeft(a)' = 4 * Cardinality(job'[a].todo) + Stage(l)
  BY DEF StepsLeft
<1>4. StepsLeft(a) = 4 * Cardinality(job[a].todo) + Stage(pc[a])
  BY DEF StepsLeft
<1> QED BY <1>1, <1>2, <1>3, <1>4 DEF Advances

\* What an actor that has begun something does next.
LEMMA StepAdvances ==
  ASSUME LocalInv, NEW a \in Actors, Step(a) \/ BatchStep(a)
  PROVE  Advances(a) /\ Alone(a)
<1> USE DEF Goto, Finish
<1>0. /\ pc \in [Actors -> PCs] /\ job \in [Actors -> Jobs] /\ job[a] \in Jobs
      /\ NoJob.todo = {}
  BY NoJobOK DEF LocalInv, LocalTypes
<1>r. ASSUME NEW ok \in BOOLEAN, ReturnStop(a, ok), Stage(pc[a]) > 7
      PROVE  Advances(a) /\ Alone(a)
  <2>1. pc'[a] = job[a].ret /\ job[a].ret \in {"idle", "oneStopped", "manyStopped"}
    BY <1>0, <1>r DEF ReturnStop, Jobs
  <2>2. job'[a] = [job[a] EXCEPT !.ok = ok, !.proc = 0]
    BY <1>0, <1>r DEF ReturnStop
  <2>3. job'[a].todo = job[a].todo
    BY <1>0, <2>2 DEF Jobs
  <2>4. job[a].ret \in PCs /\ Stage(job[a].ret) < Stage(pc[a])
    <3>1. Stage(job[a].ret) \in 0..7 /\ job[a].ret \in PCs
      BY <2>1, StageTyped DEF PCs
    <3>2. Stage(pc[a]) \in 0..9
      BY <1>0, StageTyped
    <3> QED BY <1>r, <3>1, <3>2
  <2>5. Alone(a)
    BY <1>0, <1>r DEF ReturnStop, Alone
  <2> QED BY <2>1, <2>3, <2>4, <2>5, Nearer
<1>1. CASE StopMark(a)
  <2>1. Stage(pc[a]) = 9
    BY <1>1, StageTyped DEF StopMark
  <2>2. CASE ReturnStop(a, FALSE)
    <3>1. FALSE \in BOOLEAN /\ Stage(pc[a]) > 7
      BY <2>1
    <3> QED BY ONLY <1>r, <2>2, <3>1
  <2>3. CASE pc' = [pc EXCEPT ![a] = "stopWait"] /\ job' = [job EXCEPT ![a].proc = pid[job[a].obj]]
    <3>1. job'[a] = [job[a] EXCEPT !.proc = pid[job[a].obj]]
      BY <1>0, <2>3
    <3>2. job'[a].todo = job[a].todo
      BY <1>0, <3>1 DEF Jobs
    <3>3. pc'[a] = "stopWait" /\ Alone(a) /\ "stopWait" \in PCs
      BY <1>0, <2>3 DEF Alone, PCs
    <3>4. Stage("stopWait") < Stage(pc[a])
      BY <2>1, StageTyped
    <3> QED BY <3>2, <3>3, <3>4, Nearer
  <2> QED BY <1>1, <2>2, <2>3 DEF StopMark
<1>2. CASE StopWait(a)
  <2>1. Stage(pc[a]) = 8
    BY <1>2, StageTyped DEF StopWait
  <2>2. \E ok \in BOOLEAN : ReturnStop(a, ok)
    BY <1>2 DEF StopWait
  <2> QED BY <1>r, <2>1, <2>2
<1>3. CASE GiveUpOne(a)
  <2>1. /\ pc[a] = "oneStopped" /\ pc'[a] = "idle" /\ job'[a] = NoJob /\ "idle" \in PCs
        /\ Alone(a)
    BY <1>0, <1>3 DEF GiveUpOne, Alone, PCs
  <2> QED BY <1>0, <2>1, Nearer, StageTyped
<1>4. CASE StoppedOne(a)
  <2>1. /\ pc[a] = "oneStopped" /\ Alone(a)
        /\ pc'[a] = "countStop" \/ pc'[a] = "delete"
    BY <1>0, <1>4 DEF StoppedOne, Alone
  <2>2. job'[a] = [NoJob EXCEPT !.batch = {job[a].obj}]
    BY <1>0, <1>4 DEF StoppedOne
  <2>3. job'[a].todo = {}
    BY <2>2 DEF NoJob
  <2>4. "countStop" \in PCs /\ "delete" \in PCs
    BY DEF PCs
  <2> QED BY <2>1, <2>3, <2>4, Nearer, StageTyped
<1>5. CASE Delete(a)
  <2>0. pc[a] \in {"delete", "many"}
    BY <1>5 DEF Delete
  <2>1. CASE Finish(a)
    <3>1. pc'[a] = "idle" /\ job'[a] = NoJob /\ "idle" \in PCs /\ Alone(a)
      BY <1>0, <2>1 DEF Alone, PCs
    <3> QED BY <1>0, <2>0, <3>1, Nearer, StageTyped
  <2>2. CASE ~Finish(a)
    <3>1. /\ pc[a] = "many" /\ Alone(a)
          /\ pc'[a] = "checkStopped" \/ pc'[a] = "decrease"
          /\ \E c : job'[a] = [NoJob EXCEPT !.cnt = c]
      BY <1>0, <1>5, <2>2 DEF Delete, Alone
    <3>2. job'[a].todo = {}
      BY <3>1 DEF NoJob
    <3>3. PICK l \in PCs : pc'[a] = l /\ Stage(l) < Stage(pc[a])
      <4>1. "checkStopped" \in PCs /\ "decrease" \in PCs
        BY DEF PCs
      <4> QED BY <3>1, <4>1, StageTyped
    <3>4. Advances(a)
      BY ONLY LocalInv, a \in Actors, <3>2, <3>3, Nearer
    <3> QED BY <3>1, <3>4
  <2> QED BY <2>1, <2>2
<1>6. CASE StopNext(a)
  <2>1. PICK s \in job[a].todo : CallStop(a, s, "manyStopped", job[a].todo \ {s})
    BY <1>6 DEF StopNext
  <2>2. /\ pc[a] = "many" /\ Alone(a)
        /\ pc'[a] \in {"stopMark", "manyStopped"}
        /\ job'[a] = [job[a] EXCEPT !.obj = s, !.ret = "manyStopped", !.ok = FALSE,
                                    !.todo = job[a].todo \ {s}]
    BY <1>0, <1>6, <2>1 DEF StopNext, CallStop, Alone
  <2>3. job'[a].todo = job[a].todo \ {s}
    BY <1>0, <2>2 DEF Jobs
  <2>4. /\ IsFiniteSet(job[a].todo) /\ Cardinality(job[a].todo) \in Nat
        /\ Cardinality(job[a].todo \ {s}) = Cardinality(job[a].todo) - 1
    BY TodoTyped, FS_RemoveElement
  <2>5. Stage(pc'[a]) \in 0..9 /\ Stage(pc[a]) = 6
    BY <2>2, StageTyped
  <2>6. StepsLeft(a)' = 4 * (Cardinality(job[a].todo) - 1) + Stage(pc'[a])
    BY <2>3, <2>4 DEF StepsLeft
  <2>7. StepsLeft(a) = 4 * Cardinality(job[a].todo) + 6
    BY <2>5 DEF StepsLeft
  <2>8. Advances(a)
    BY <2>4, <2>5, <2>6, <2>7 DEF Advances
  <2> QED BY <2>2, <2>8
<1>7. CASE StoppedMany(a)
  <2>1. pc[a] = "manyStopped" /\ pc'[a] = "many" /\ Alone(a) /\ "many" \in PCs
    BY <1>0, <1>7 DEF StoppedMany, Alone, PCs
  <2>2. \E c, e, b : job'[a] = [NoJob EXCEPT !.todo = job[a].todo, !.cnt = c,
                                             !.err = e, !.batch = b]
    BY <1>0, <1>7 DEF StoppedMany
  <2>3. job'[a].todo = job[a].todo
    BY <2>2 DEF NoJob
  <2> QED BY <2>1, <2>3, Nearer, StageTyped
<1>8. CASE CountStep(a)
  <2> USE DEF CountStep, CountOnly
  <2>1. CASE Finish(a)
    <3>1. pc[a] \in {"decrease", "storeCount", "storeLess"}
      BY <1>0, <1>8, <2>1 DEF Decrease, Compare, Subtract, StoreCount, Storing
    <3>2. pc'[a] = "idle" /\ job'[a] = NoJob /\ "idle" \in PCs /\ Alone(a)
      BY <1>0, <2>1 DEF Alone, PCs
    <3> QED BY <1>0, <3>1, <3>2, Nearer, StageTyped
  <2>2. CASE ~Finish(a)
    <3>1. PICK l \in PCs :
            /\ pc' = [pc EXCEPT ![a] = l]
            /\ \/ pc[a] = "decrease" /\ l = "compare"
               \/ pc[a] = "compare" /\ l \in {"storeLess", "subtract"}
               \/ pc[a] = "subtract" /\ l = "storeLess"
               \/ pc[a] = "storeStop" /\ l = "delete"
      BY <1>8, <2>2 DEF Decrease, Compare, Subtract, StoreCount, PCs
    <3>2. job' = job \/ \E c : job' = [job EXCEPT ![a].cnt = c]
      BY <1>8, <2>2 DEF Decrease, Compare, Subtract, StoreCount
    <3>3. job'[a] = job[a] \/ \E c : job'[a] = [job[a] EXCEPT !.cnt = c]
      BY <1>0, <3>2
    <3>4. job'[a].todo = job[a].todo
      BY <1>0, <3>3 DEF Jobs
    <3>5. Alone(a) /\ pc'[a] = l
      BY <1>0, <3>1, <3>2 DEF Alone
    <3>6. Stage(l) < Stage(pc[a])
      BY <3>1, StageTyped
    <3> QED BY <3>4, <3>5, <3>6, Nearer
  <2> QED BY <2>1, <2>2
<1> QED BY <1>1, <1>2, <1>3, <1>4, <1>5, <1>6, <1>7, <1>8 DEF Step, BatchStep

\* What messageLoop does after it has got a message.
LEMMA MsgAdvances ==
  ASSUME LocalInv, MsgStep
  PROVE  /\ Advances("msg")
         /\ \A b \in Batchers : pc'[b] = pc[b] /\ job'[b] = job[b]
<1>0. /\ pc \in [Actors -> PCs] /\ job \in [Actors -> Jobs] /\ job["msg"] \in Jobs
      /\ NoJob.todo = {} /\ "msg" \in Actors
      /\ {"idle", "countSpawn", "storeCount", "storeStop", "decrease"} \subseteq PCs
  BY NoJobOK DEF LocalInv, LocalTypes, Actors, PCs
<1>1. \A b \in Batchers : b \in Actors \ {"msg"} /\ b \notin Sessions
  BY ActorAssumption DEF Batchers, Actors
<1>2. CASE StartShell
  <2>1. job["msg"].obj \in Sessions \cup {None}
    BY <1>0 DEF Jobs
  <2>2. /\ pc["msg"] = "start" /\ pc'["msg"] = "countSpawn"
        /\ \A b \in Batchers : pc'[b] = pc[b]
    BY <1>0, <1>1, <1>2, <2>1, ActorAssumption DEF StartShell, Batchers
  <2>3. job' = [job EXCEPT !["msg"] = NoJob]
    BY <1>2 DEF StartShell
  <2>5. job'["msg"].todo = {}
    BY <1>0, <2>3
  <2>6. \A b \in Batchers : job'[b] = job[b]
    BY <1>0, <1>1, <2>3
  <2>7. Stage("countSpawn") < Stage(pc["msg"])
    BY <2>2, StageTyped
  <2>8. Advances("msg")
    BY <1>0, <2>2, <2>5, <2>7, Nearer
  <2> QED BY <2>2, <2>6, <2>8
<1>3. CASE StartShellFails
  <2>1. /\ pc["msg"] = "start" /\ pc'["msg"] = "idle" /\ job'["msg"] = NoJob
        /\ \A b \in Batchers : pc'[b] = pc[b] /\ job'[b] = job[b]
    BY <1>0, <1>1, <1>3 DEF StartShellFails, Finish, Goto
  <2> QED BY <1>0, <2>1, Nearer, StageTyped
<1>4. CASE CountSpawn \/ CountStop \/ CheckStopped
  <2>1. PICK l \in {"storeCount", "storeStop", "decrease"} :
          /\ pc' = [pc EXCEPT !["msg"] = l]
          /\ \/ pc["msg"] = "countSpawn" /\ l = "storeCount"
             \/ pc["msg"] = "countStop" /\ l = "storeStop"
             \/ pc["msg"] = "checkStopped" /\ l \in {"storeCount", "decrease"}
    BY <1>4 DEF CountSpawn, CountStop, CheckStopped, Goto
  <2>2. job' = job \/ \E c : job' = [job EXCEPT !["msg"].cnt = c]
    BY <1>4 DEF CountSpawn, CountStop, CheckStopped
  <2>3. job'["msg"] = job["msg"] \/ \E c : job'["msg"] = [job["msg"] EXCEPT !.cnt = c]
    BY <1>0, <2>2
  <2>4. job'["msg"].todo = job["msg"].todo
    BY <1>0, <2>3 DEF Jobs
  <2>5. pc'["msg"] = l /\ \A b \in Batchers : pc'[b] = pc[b] /\ job'[b] = job[b]
    BY <1>0, <1>1, <2>1, <2>2
  <2>6. Stage(l) < Stage(pc["msg"])
    BY <2>1, StageTyped
  <2> QED BY <1>0, <2>4, <2>5, <2>6, Nearer
<1>6. CASE Step("msg") \/ BatchStep("msg")
  <2>1. Advances("msg") /\ Alone("msg")
    BY <1>0, <1>6, StepAdvances
  <2> QED BY <1>1, <2>1 DEF Alone
<1> QED BY <1>2, <1>3, <1>4, <1>6 DEF MsgStep

\* A message, a signal or a tick finds its loop waiting for it, and a
\* healthcheck goroutine touches nothing of the three loops.
LEMMA OthersStay ==
  ASSUME LocalInv, Receive \/ TerminateAll \/ TerminateExpired \/ UNCHANGED vars
                   \/ \E s \in Sessions : Healthcheck(s)
  PROVE  \A a \in Loops : pc[a] # "idle" => pc'[a] = pc[a] /\ job'[a] = job[a]
<1>0. /\ pc \in [Actors -> PCs] /\ job \in [Actors -> Jobs]
      /\ Loops \subseteq Actors /\ Loops \cap Sessions = {}
      /\ "msg" \in Actors /\ "dbus" \in Actors /\ "main" \in Actors
  BY ActorAssumption DEF LocalInv, LocalTypes, Loops, Batchers, Actors
<1>1. CASE UNCHANGED vars
  BY <1>1 DEF vars
<1>2. CASE Receive
  <2>1. \/ pc["msg"] = "idle" /\ \A a \in Actors \ {"msg"} : pc'[a] = pc[a] /\ job'[a] = job[a]
        \/ UNCHANGED <<pc, job>>
    <3>1. ASSUME NEW i \in SessionIds, NEW u \in UserIds, NEW s \in Sessions,
                 SpawnNew(i, u, s)
          PROVE  pc["msg"] = "idle" /\ \A a \in Actors \ {"msg"} : pc'[a] = pc[a] /\ job'[a] = job[a]
      BY <1>0, <3>1 DEF SpawnNew, Goto
    <3>2. ASSUME NEW i \in SessionIds, SpawnAgain(i)
          PROVE  pc["msg"] = "idle" /\ \A a \in Actors \ {"msg"} : pc'[a] = pc[a] /\ job'[a] = job[a]
      BY <1>0, <3>2 DEF SpawnAgain, Goto
    <3>3. ASSUME NEW i \in SessionIds, StopById(i)
          PROVE  pc["msg"] = "idle" /\ \A a \in Actors \ {"msg"} : pc'[a] = pc[a] /\ job'[a] = job[a]
      BY <1>0, <3>3 DEF StopById, CallStop, Goto
    <3>4. ASSUME NEW i \in SessionIds, Pong(i)
          PROVE  UNCHANGED <<pc, job>>
      BY <3>4 DEF Pong
    <3>5. ASSUME NEW u \in UserIds, StopByUserId(u)
          PROVE  pc["msg"] = "idle" /\ \A a \in Actors \ {"msg"} : pc'[a] = pc[a] /\ job'[a] = job[a]
      BY <1>0, <3>5 DEF StopByUserId, Goto
    <3> QED BY <1>2, <3>1, <3>2, <3>3, <3>4, <3>5 DEF Receive
  <2> QED BY <1>0, <2>1
<1>3. ASSUME NEW a \in Batchers, NEW S, StartBatch(a, S)
      PROVE  pc[a] = "idle" /\ \A b \in Actors \ {a} : pc'[b] = pc[b] /\ job'[b] = job[b]
  BY <1>0, <1>3 DEF StartBatch, Goto
<1>4. CASE TerminateAll
  BY <1>0, <1>3, <1>4 DEF TerminateAll, Batchers
<1>5. CASE TerminateExpired
  BY <1>0, <1>3, <1>5 DEF TerminateExpired, Batchers
<1>6. ASSUME NEW s \in Sessions, Healthcheck(s)
      PROVE  \A a \in Loops : pc'[a] = pc[a] /\ job'[a] = job[a]
  <2>0. s \in Actors /\ s \notin Loops
    BY <1>0 DEF Actors
  <2>1. CASE HealthcheckGotPong(s)
    BY <2>1 DEF HealthcheckGotPong
  <2>2. CASE HealthcheckReturns(s)
    BY <1>0, <2>0, <2>2 DEF HealthcheckReturns, Finish, Goto
  <2>3. CASE HealthcheckTimeout(s)
    BY <1>0, <2>0, <2>3 DEF HealthcheckTimeout, CallStop, Finish, Goto
  <2>4. CASE Step(s)
    <3>1. Alone(s)
      BY <2>0, <2>4, StepAdvances
    <3> QED BY <1>0, <2>0, <3>1 DEF Alone
  <2> QED BY <1>6, <2>1, <2>2, <2>3, <2>4 DEF Healthcheck
<1> QED BY <1>1, <1>2, <1>4, <1>5, <1>6

\* Every step either leaves a loop that works where it is or brings it nearer.
LEMMA NextAdvances ==
  ASSUME LocalInv, [Next]_vars
  PROVE  \A a \in Loops : pc[a] # "idle" =>
           (pc'[a] = pc[a] /\ job'[a] = job[a]) \/ Advances(a)
<1>1. CASE MsgStep
  BY <1>1, MsgAdvances DEF Loops
<1>2. ASSUME NEW a \in Batchers, Step(a) \/ BatchStep(a)
      PROVE  Advances(a) /\ \A b \in Loops \ {a} : pc'[b] = pc[b] /\ job'[b] = job[b]
  <2>1. a \in Actors /\ Loops \subseteq Actors
    BY DEF Loops, Actors
  <2>2. Advances(a) /\ Alone(a)
    BY <1>2, <2>1, StepAdvances
  <2> QED BY <2>1, <2>2 DEF Alone
<1>3. CASE Receive \/ TerminateAll \/ TerminateExpired \/ UNCHANGED vars
           \/ \E s \in Sessions : Healthcheck(s)
  BY <1>3, OthersStay
<1> QED BY <1>1, <1>2, <1>3 DEF Next

\* A loop of the daemon that has begun to handle a message, a termination signal
\* or an expiry tick comes nearer to its end with every step of its own, and no
\* step of another goroutine takes it back, however many sessions are spawned,
\* stopped and deleted meanwhile: MenderShellStopByUserId,
\* MenderSessionTerminateAll and MenderSessionTerminateExpired go through the
\* sessions of one look at the maps and try each of them once.
THEOREM LoopsAdvanceHolds == Spec => LoopsAdvance
<1>1. LocalInv /\ [Next]_vars =>
        [\A a \in {"msg"} \cup Batchers : pc[a] # "idle" =>
           \/ pc'[a] = pc[a] /\ job'[a] = job[a]
           \/ StepsLeft(a)' < StepsLeft(a)]_vars
  BY NextAdvances DEF Loops, Advances
<1>2. IndInv => LocalInv
  BY DEF IndInv
<1> QED BY IndInvHolds, <1>1, <1>2, PTL DEF Spec, LoopsAdvance
=============================================================================
