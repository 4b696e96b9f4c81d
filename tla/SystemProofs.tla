----------------------------- MODULE SystemProofs -----------------------------
(***************************************************************************)
(* The theorems about the reconciler hold with the periodic health check   *)
(* beside it and with failing members, and the health check removes nobody *)
(* who has not failed long enough, and one machine at a time.              *)
(***************************************************************************)
EXTENDS MCSystem, RolloutProofs

-----------------------------------------------------------------------------
(* What the health check does to the world it shares with the reconciler *)

\* As any other actor around the reconciler.
Outside ==
    /\ UNCHANGED recVars
    /\ WorldTypeOK'
    /\ EtcdClusterMachines(mach') \subseteq EtcdClusterMachines(mach)
    /\ OwnedMachines(mach') \subseteq OwnedMachines(mach)
    /\ Held => Held'
    /\ ec.del => ec'.del
    /\ UNCHANGED cache
    /\ AbstractStep
    /\ StaysDisowned /\ StaysComplete

\* Steps that leave object and machines alone.
LEMMA OutsideIdle ==
    ASSUME TypeOK, UNCHANGED <<recVars, ec, cache, mach, mcache, secret, released>>,
           members' \subseteq Ids, failed' \subseteq Ids
    PROVE  Outside
<1>1. AbstractStep
    BY SameLives, LifeStutters DEF Phase
<1>2. StaysDisowned /\ StaysComplete
    BY DEF StaysDisowned, StaysComplete
<1> QED  BY <1>1, <1>2 DEF Outside, TypeOK, WorldTypeOK, Held

\* Deleting a machine, for whatever reason.
LEMMA OutsideDeletes ==
    ASSUME TypeOK, NEW k \in Ids, mach' = Deleted(k),
           UNCHANGED <<recVars, ec, cache, mcache, members, failed, secret, released>>
    PROVE  Outside
<1>0. mach \in [Ids -> MachineType]
    BY DEF TypeOK, WorldTypeOK
<1>1. WorldTypeOK'
    BY DeletedType DEF TypeOK, WorldTypeOK
<1>2. \A m \in Ids : /\ mach'[m].st \in {"live", "deleting"} => mach[m].st \in {"live", "deleting"}
                     /\ mach'[m].owned = mach[m].owned
    BY <1>0 DEF Deleted, MachineType
<1>3. AbstractStep
    BY DeletionMaps
<1>4. StaysDisowned /\ StaysComplete
    BY <1>2 DEF StaysDisowned, StaysComplete, EtcdClusterMachines
<1> QED  BY <1>1, <1>2, <1>3, <1>4 DEF Outside, EtcdClusterMachines, OwnedMachines, Held

\* The status update of the health check touches Ready only.
LEMMA OutsideStatus ==
    ASSUME TypeOK, HealthStatus, UNCHANGED recVars PROVE Outside
<1>1. CASE UNCHANGED ec
    BY <1>1, OutsideIdle DEF HealthStatus, TypeOK, WorldTypeOK
<1>2. CASE ec' = [ec EXCEPT !.ready = FALSE]
    <2>1. ec \in ClusterType
        BY DEF TypeOK, WorldTypeOK
    <2>2. /\ ec' \in ClusterType
          /\ ec'.exists = ec.exists /\ ec'.del = ec.del /\ ec'.fin = ec.fin
        BY <1>2, <2>1 DEF ClusterType
    <2>3. AbstractStep
        BY <2>2, SameLives, LifeStutters DEF HealthStatus, Phase
    <2>4. StaysDisowned /\ StaysComplete
        BY <1>2, <2>1 DEF HealthStatus, StaysDisowned, StaysComplete, ClusterType
    <2> QED
        BY <2>2, <2>3, <2>4 DEF Outside, HealthStatus, TypeOK, WorldTypeOK, Held
<1> QED  BY <1>1, <1>2 DEF HealthStatus

LEMMA TickingOutside ==
    ASSUME TypeOK, HealthTypeOK, Ticking, UNCHANGED recVars PROVE Outside
<1>1. CASE ProbeMembers \/ Recheck \/ HealthMemberList \/ HealthRemovalFails
    BY <1>1, OutsideIdle
    DEF ProbeMembers, Recheck, HealthMemberList, HealthRemovalFails, worldVars,
        TypeOK, WorldTypeOK
<1>2. CASE HealthMemberRemove
    BY <1>2, OutsideIdle DEF HealthMemberRemove, TypeOK, WorldTypeOK
<1>3. CASE HealthDeleteMachine
    <2>1. htarget \in Ids
        BY <1>3 DEF HealthDeleteMachine, HealthTypeOK
    <2> QED  BY <1>3, <2>1, OutsideDeletes DEF HealthDeleteMachine
<1>4. CASE HealthStatus
    BY <1>4, OutsideStatus
<1> QED  BY <1>1, <1>2, <1>3, <1>4 DEF Ticking

LEMMA DisturbanceOutside ==
    ASSUME TypeOK, NEW m \in Ids,
           FailMember(m) \/ RecoverMember(m) \/ DeleteMachineUnasked(m)
    PROVE  Outside
<1>1. CASE FailMember(m) \/ RecoverMember(m)
    BY <1>1, OutsideIdle DEF FailMember, RecoverMember, TypeOK, WorldTypeOK
<1>2. CASE DeleteMachineUnasked(m)
    BY <1>2, OutsideDeletes DEF DeleteMachineUnasked, LoseMachine, Deleted
<1> QED  BY <1>1, <1>2

\* Every step of the system is one of the reconciler and its world, the loss
\* of the process, or one from outside.
LEMMA SystemSteps ==
    ASSUME TypeOK, HealthTypeOK, [SystemNext]_systemVars
    PROVE  [Working \/ WorldNext]_vars \/ ProcessLost \/ Outside
<1>1. Fragile \subseteq Ids /\ Deletable \subseteq Ids
    BY SystemAssumption
<1>2. CASE Tick
    BY <1>2 DEF Tick, HealthStep, StartHealthCheck, vars
<1>3. CASE HealthStep(Ticking)
    BY <1>3, TickingOutside DEF HealthStep
<1> QED
    BY <1>1, <1>2, <1>3, DisturbanceOutside
    DEF SystemNext, systemVars, ReconcilerStep, RestartProcess

-----------------------------------------------------------------------------
(* The invariants of the reconciler are invariants of the system *)

ReconcilerInv == TypeOK /\ FinalizerInv /\ OwnedInv /\ CompleteKept

\* What every step of the system does, besides keeping the invariant.
SystemStep == AbstractStep /\ [StaysDisowned]_vars /\ [StaysComplete]_vars

LEMMA ReconcilerInvNext ==
    ASSUME ReconcilerInv, HealthTypeOK, [SystemNext]_systemVars
    PROVE  ReconcilerInv' /\ SystemStep
<1> USE DEF ReconcilerInv, SystemStep
<1>1. CASE [Working \/ WorldNext]_vars
    <2>1. [Next]_vars
        BY <1>1 DEF Next, ReconcilerNext
    <2>2. ReconcilerInv'
        BY <2>1, TypeNext, FinalizerNext, OwnedNext, CompleteNext
    <2> QED  BY <2>1, <2>2, LifecycleStep, OwnershipNext, CompleteStep
<1>2. CASE ProcessLost
    <2>1. TypeOK'
        BY <1>2, ReturnType DEF ProcessLost, TypeOK, WorldTypeOK
    <2>2. OwnedInv'
        BY <1>2, FewerOwned DEF ProcessLost, Return
    <2>3. CompleteKept'
        BY <1>2 DEF ProcessLost, Return, CompleteKept
    <2>4. StaysDisowned /\ StaysComplete
        BY <1>2 DEF ProcessLost, StaysDisowned, StaysComplete
    <2> QED  BY <1>2, <2>1, <2>2, <2>3, <2>4, LossKeepsFinalizer, LossMaps
<1>3. CASE Outside
    <2>1. TypeOK'
        BY <1>3
        DEF Outside, TypeOK, recVars, UpToDateMachines, MachinesNeedingRollout
    <2>2. OwnedInv'
        BY <1>3, FewerOwned DEF Outside, recVars
    <2>3. FinalizerInv'
        BY <1>3, OutsideKeepsFinalizer DEF Outside
    <2>4. CompleteKept'
        BY <1>3 DEF Outside, recVars, CompleteKept
    <2> QED  BY <1>3, <2>1, <2>2, <2>3, <2>4 DEF Outside
<1> QED  BY <1>1, <1>2, <1>3, SystemSteps

-----------------------------------------------------------------------------
(* The system begins before or right after the creation of the cluster *)

LEMMA CreatedInit ==
    ASSUME NEW r \in Replicas \cap Ids, CreatedWorld(r), RecInit
    PROVE  ReconcilerInv /\ Lifecycle!LifecycleInit
<1> DEFINE e == [NewCluster(r) EXCEPT
                    !.fin = TRUE, !.certs = "True", !.initCond = "True",
                    !.initialized = TRUE, !.ready = TRUE, !.creationComplete = TRUE,
                    !.endpoints = 1 .. r]
           running == [Unborn EXCEPT !.st = "live", !.owned = TRUE, !.ver = 1,
                                     !.boot = "joined", !.label = TRUE]
<1>1. r \in Nat /\ 1 .. r \subseteq Ids
    BY MaxMachinesAssumption, ReplicasAssumption DEF Ids
<1>2. NewCluster(r) \in ClusterType
    BY NewClusterType
<1>3. /\ e \in ClusterType /\ e.fin
      /\ e.exists = NewCluster(r).exists /\ e.del = NewCluster(r).del
    BY <1>1, <1>2 DEF ClusterType, ConditionType
<1>4. ec = e /\ e.exists /\ ~e.del
    BY <1>3 DEF CreatedWorld, NewCluster
<1>5. /\ running \in MachineType /\ running.st = "live" /\ running.owned
    <2>1. 1 \in 0 .. MaxVersion
        BY MaxVersionAssumption
    <2>2. running \in MachineType
        BY <2>1, UnbornType DEF MachineType
    <2>3. running.st = "live" /\ running.owned
        BY UnbornType DEF MachineType
    <2> QED  BY <2>2, <2>3
<1>6. mach = [m \in Ids |-> IF m \in 1 .. r THEN running ELSE Unborn]
    BY DEF CreatedWorld
<1> HIDE DEF e, running
<1>7. mach \in [Ids -> MachineType] /\ Unborn.st = "none"
    BY <1>5, <1>6, UnbornType DEF Unborn
<1>8. WorldTypeOK
    BY <1>1, <1>3, <1>4, <1>7 DEF CreatedWorld, WorldTypeOK
<1>9. TypeOK
    BY <1>8, NoMachinesType, NoClusterType DEF RecInit, TypeOK, PcType, NotChecked
<1>10. FinalizerInv
    BY <1>3, <1>4 DEF CreatedWorld, RecInit, FinalizerInv, Held, CachedCluster
<1>11. OwnedInv
    <2>1. OwnedMachines(mach) \subseteq 1 .. r
        BY <1>6, <1>7 DEF OwnedMachines, EtcdClusterMachines
    <2>2. Cardinality(1 .. r) = r
        BY <1>1, FS_Interval
    <2>3. Cardinality(OwnedMachines(mach)) <= r
        BY <1>1, <2>1, <2>2, FewerMachines
    <2> QED  BY <2>3 DEF OwnedInv, OwnedBounded, RecInit
<1>12. \A m \in Ids : LifeOf[m] \in {"none", "owned"}
    BY <1>5, <1>6, <1>7 DEF LifeOf, Life
<1>13. Phase = "present"
    BY <1>4 DEF Phase
<1>14. CompleteKept
    BY DEF RecInit, CompleteKept
<1> QED  BY <1>9, <1>10, <1>11, <1>12, <1>13, <1>14 DEF ReconcilerInv, Lifecycle!LifecycleInit, LifeOf

LEMMA ReconcilerInvInit ==
    SystemInit => ReconcilerInv /\ Lifecycle!LifecycleInit
<1> SUFFICES ASSUME SystemInit PROVE ReconcilerInv /\ Lifecycle!LifecycleInit
    OBVIOUS
<1>1. CASE StartCreated
    BY <1>1, CreatedInit DEF SystemInit
<1>2. CASE ~StartCreated
    <2>1. Init
        BY <1>2 DEF SystemInit, Init
    <2>2. CompleteKept
        BY <2>1 DEF Init, RecInit, CompleteKept
    <2> QED
        BY <2>1, <2>2, TypeInit, FinalizerInit, OwnedInit, LifecycleInitial DEF ReconcilerInv
<1> QED  BY <1>1, <1>2

-----------------------------------------------------------------------------
(* The control of the health check, and its counts *)

LEMMA MaxCountType ==
    /\ UnhealthyCount \in Nat /\ MaxCount \in Nat
    /\ 1 <= MaxCount /\ UnhealthyCount <= MaxCount
<1>1. UnhealthyCount \in Nat
    BY RetriesAssumption DEF UnhealthyCount, maxUnhealthyCount
<1> QED  BY <1>1 DEF MaxCount, maxUnhealthyCount

\* Counting goes up by one, or stays at the threshold.
LEMMA CountedType ==
    ASSUME NEW n \in 0 .. MaxCount, NEW k \in 0 .. MaxCount, n <= k
    PROVE  /\ Counted(n) \in 0 .. MaxCount
           /\ n <= Counted(n) /\ Counted(n) <= Counted(k)
BY MaxCountType DEF Counted

HealthInv == HealthTypeOK /\ StreakInv

LEMMA HealthInitial == HealthInit => HealthInv
<1> SUFFICES ASSUME HealthInit PROVE HealthInv
    OBVIOUS
<1>1. NoCounts \in [Ids -> 0 .. MaxCount] /\ \A m \in Ids : NoCounts[m] = 0
    BY MaxCountType DEF NoCounts
<1>2. HealthTypeOK
    BY <1>1, NoClusterType, NoMachinesType DEF HealthInit, HealthTypeOK
<1>3. StreakInv
    BY <1>1 DEF HealthInit, StreakInv, QueuedHaveFailed
<1> QED  BY <1>2, <1>3 DEF HealthInv

\* The next entry is another one of the queue.
LEMMA NextEntryType ==
    ASSUME HealthInv, NEW m \in htodo, NEW err \in BOOLEAN, NextEntry(m, err),
           toRemove' = toRemove \/ toRemove' = toRemove \ {m},
           UNCHANGED <<freq, streak>>
    PROVE  HealthInv'
<1>1. HealthTypeOK'
    <2>1. CASE htodo # {m}
        BY <2>1 DEF NextEntry, HealthInv, HealthTypeOK
    <2>2. CASE htodo = {m}
        BY <2>2, NoClusterType, NoMachinesType DEF NextEntry, EndTick, HealthInv, HealthTypeOK
    <2> QED  BY <2>1, <2>2
<1> QED  BY <1>1 DEF HealthInv, StreakInv, QueuedHaveFailed

LEMMA ProbeKeepsHealthInv ==
    ASSUME HealthInv, ProbeMembers PROVE HealthInv'
<1>1. PICK answer \in AnswersOf(Probed) :
        LET bad == {m \in Probed : HealthCheckError(answer[m])} IN
        /\ freq' = CountAfter(bad)
        /\ toRemove' = QueueAfter(bad)
        /\ streak' = [m \in Ids |-> IF m \in bad THEN Counted(streak[m])
                                    ELSE IF m \in Probed THEN 0 ELSE streak[m]]
        /\ \/ EndTick
           \/ /\ toRemove' # {}
              /\ \/ hpc' = "recheck" /\ htodo' = toRemove'
                 \/ hpc' = "status" /\ UNCHANGED htodo
              /\ hplane' = NoMachines
              /\ UNCHANGED <<hec, htarget, herr>>
    BY DEF ProbeMembers
<1> DEFINE bad == {m \in Probed : HealthCheckError(answer[m])}
<1>2. bad \subseteq Probed /\ Probed \subseteq Ids
    BY DEF Probed, EtcdClusterMachines
<1> HIDE DEF bad
<1>3. \A m \in Ids : /\ freq[m] \in 0 .. MaxCount /\ streak[m] \in 0 .. MaxCount
                     /\ freq[m] <= streak[m]
    BY DEF HealthInv, HealthTypeOK, StreakInv
<1>4. \A m \in Ids : /\ CountAfter(bad)[m] \in 0 .. MaxCount
                     /\ streak'[m] \in 0 .. MaxCount
                     /\ CountAfter(bad)[m] <= streak'[m]
                     /\ m \notin Probed \ bad => streak[m] <= streak'[m]
    BY <1>1, <1>2, <1>3, CountedType, MaxCountType DEF CountAfter, bad
<1>5. {freq', streak'} \subseteq [Ids -> 0 .. MaxCount]
    <2>1. /\ freq' = [m \in Ids |-> freq'[m]] /\ freq' = CountAfter(bad)
          /\ streak' = [m \in Ids |-> streak'[m]]
        BY <1>1 DEF CountAfter, bad
    <2> QED  BY <1>4, <2>1
<1>6. toRemove' \subseteq Ids /\ QueuedHaveFailed'
    <2>1. toRemove' = QueueAfter(bad)
        BY <1>1 DEF bad
    <2>2. ASSUME NEW m \in toRemove' PROVE m \in Ids /\ streak'[m] >= UnhealthyCount
        <3>1. CASE m \in toRemove /\ m \notin Probed \ bad
            <4>1. m \in Ids /\ streak[m] >= UnhealthyCount
                BY <3>1 DEF HealthInv, HealthTypeOK, StreakInv, QueuedHaveFailed
            <4> QED  BY <3>1, <4>1, <1>3, <1>4, MaxCountType
        <3>2. CASE m \in bad /\ CountAfter(bad)[m] >= UnhealthyCount
            BY <3>2, <1>2, <1>4, MaxCountType
        <3> QED  BY <2>1, <2>2, <3>1, <3>2 DEF QueueAfter
    <2> QED  BY <2>2 DEF QueuedHaveFailed
<1>7. StreakInv'
    BY <1>1, <1>4, <1>6 DEF StreakInv, bad
<1>8. hpc = "probe" /\ htodo = {} /\ htarget = 0
    BY DEF ProbeMembers, HealthInv, HealthTypeOK
<1>9. HealthTypeOK'
    BY <1>1, <1>5, <1>6, <1>8, NoClusterType, NoMachinesType
    DEF EndTick, HealthInv, HealthTypeOK
<1> QED  BY <1>7, <1>9 DEF HealthInv

LEMMA TickingKeepsHealthInv ==
    ASSUME HealthInv, Ticking PROVE HealthInv'
<1> USE DEF HealthInv, HealthTypeOK
<1>1. CASE ProbeMembers
    BY <1>1, ProbeKeepsHealthInv
<1>2. CASE Recheck
    <2>1. PICK m \in htodo : WaitForReplica(m) \/ RemoveUnhealthy(m)
        BY <1>2 DEF Recheck
    <2>2. CASE WaitForReplica(m)
        BY <1>2, <2>2, NextEntryType DEF Recheck, WaitForReplica
    <2>3. CASE RemoveUnhealthy(m)
        BY <1>2, <2>3 DEF Recheck, RemoveUnhealthy, StreakInv, QueuedHaveFailed
    <2> QED  BY <2>1, <2>2, <2>3
<1>3. CASE HealthMemberList
    <2>1. CASE NextEntry(htarget, herr) /\ toRemove' = toRemove \ {htarget}
        BY <1>3, <2>1, NextEntryType DEF HealthMemberList
    <2>2. CASE /\ hpc' \in {"memberRemove", "deleteMachine"}
               /\ UNCHANGED <<hec, hplane, htodo, htarget, herr, toRemove>>
        BY <1>3, <2>2 DEF HealthMemberList, StreakInv, QueuedHaveFailed
    <2> QED  BY <1>3, <2>1, <2>2 DEF HealthMemberList
<1>4. CASE HealthMemberRemove
    BY <1>4 DEF HealthMemberRemove, StreakInv, QueuedHaveFailed
<1>5. CASE HealthDeleteMachine
    BY <1>5, NextEntryType DEF HealthDeleteMachine
<1>6. CASE HealthRemovalFails
    BY <1>6, NextEntryType DEF HealthRemovalFails
<1>7. CASE HealthStatus
    BY <1>7, NoClusterType, NoMachinesType
    DEF HealthStatus, EndTick, StreakInv, QueuedHaveFailed
<1> QED  BY <1>1, <1>2, <1>3, <1>4, <1>5, <1>6, <1>7 DEF Ticking

LEMMA HealthInvNext ==
    ASSUME TypeOK, HealthInv, [SystemNext]_systemVars PROVE HealthInv'
<1> USE DEF HealthInv, HealthTypeOK, StreakInv, QueuedHaveFailed
<1>1. CASE UNCHANGED healthVars
    BY <1>1 DEF healthVars, tickVars
<1>2. CASE Tick
    <2>1. CachedCluster \in ClusterType /\ mach \in [Ids -> MachineType]
        BY DEF TypeOK, WorldTypeOK, CachedCluster
    <2>2. /\ freq' \in [Ids -> 0 .. MaxCount]
          /\ \A m \in Ids : freq'[m] <= streak[m]
        BY <1>2, MaxCountType DEF Tick, HealthStep, StartHealthCheck
    <2> QED  BY <1>2, <2>1, <2>2 DEF Tick, HealthStep, StartHealthCheck
<1>3. CASE HealthStep(Ticking)
    BY <1>3, TickingKeepsHealthInv DEF HealthStep
<1>4. CASE RestartProcess
    <2>1. /\ freq' \in [Ids -> 0 .. MaxCount]
          /\ \A m \in Ids : freq'[m] <= streak[m]
        BY <1>4, MaxCountType DEF RestartProcess, HealthLost, NoCounts
    <2> QED
        BY <1>4, <2>1, NoClusterType, NoMachinesType
        DEF RestartProcess, HealthLost, EndTick
<1> QED
    BY <1>1, <1>2, <1>3, <1>4
    DEF SystemNext, systemVars, ReconcilerStep, FailMember, RecoverMember,
        DeleteMachineUnasked

-----------------------------------------------------------------------------
(* The theorems *)

SystemInv == /\ ReconcilerInv /\ HealthInv
             /\ disturbances \subseteq Disturbance

LEMMA SystemInvInit == SystemInit => SystemInv
BY ReconcilerInvInit, HealthInitial DEF SystemInit, SystemInv

LEMMA SystemInvNext == SystemInv /\ [SystemNext]_systemVars => SystemInv' /\ SystemStep
<1> SUFFICES ASSUME SystemInv, [SystemNext]_systemVars PROVE SystemInv' /\ SystemStep
    OBVIOUS
<1>1. ReconcilerInv' /\ SystemStep
    BY ReconcilerInvNext DEF SystemInv, HealthInv
<1>2. HealthInv'
    BY HealthInvNext DEF SystemInv, ReconcilerInv
<1>3. disturbances' \subseteq Disturbance
    BY DEF SystemInv, SystemNext, systemVars, ReconcilerStep, Tick, HealthStep,
           FailMember, RecoverMember, DeleteMachineUnasked, RestartProcess,
           Disturb, Disturbance
<1> QED  BY <1>1, <1>2, <1>3 DEF SystemInv

LEMMA SystemInvariant == SystemSpec => []SystemInv
BY SystemInvInit, SystemInvNext, PTL DEF SystemSpec

\* Reconciler and health check keep to their types and their control, whoever
\* fails and whatever is restarted.
THEOREM SystemTypeCorrect == SystemSpec => []SystemTypeOK
<1>1. SystemInv => SystemTypeOK
    BY DEF SystemInv, ReconcilerInv, HealthInv, SystemTypeOK
<1> QED  BY <1>1, SystemInvariant, PTL

\* Only consecutive failures lead to a removal, for every value of the
\* annotation, with restarts and lagging copies.
THEOREM OnlyFailedAreQueued == SystemSpec => []QueuedHaveFailed
<1>1. SystemInv => QueuedHaveFailed
    BY DEF SystemInv, HealthInv, StreakInv
<1> QED  BY <1>1, SystemInvariant, PTL

\* With the health check deleting machines beside the reconciler, machines
\* still do not outlive the object, nor are there too many of them.
THEOREM SystemKeepsMachines == SystemSpec => [](NoOrphanMachines /\ OwnedBounded)
<1>1. SystemInv => NoOrphanMachines /\ OwnedBounded
    BY DEF SystemInv, ReconcilerInv, FinalizerInv, Held, NoOrphanMachines, OwnedInv
<1> QED  BY <1>1, SystemInvariant, PTL

\* The two goroutines together implement the abstract life of the machines.
THEOREM SystemImplementsLifecycle == SystemSpec => ImplementsLifecycle
<1>1. SystemInit => Lifecycle!LifecycleInit
    BY ReconcilerInvInit
<1> QED
    BY <1>1, SystemInvariant, SystemInvNext, PTL
    DEF SystemSpec, ImplementsLifecycle, Lifecycle!LifecycleSpec, AbstractStep, SystemStep

\* Neither the deletions of the health check nor its update of the status, nor a
\* restart of both loops, take an owner reference or CreationComplete back.
THEOREM SystemNeverGoesBack ==
    SystemSpec => OwnershipNeverReturns /\ CreationCompleteStable
BY SystemInvariant, SystemInvNext, PTL
DEF SystemSpec, SystemStep, OwnershipNeverReturns, CreationCompleteStable

-----------------------------------------------------------------------------
(***************************************************************************)
(* One removal at a time (OneAtATime), in a fleet that nobody but the      *)
(* health check makes smaller: no new spec, no smaller size, no deletion   *)
(* of the cluster or of a machine by hand.  Members fail as they like,     *)
(* calls fail, both loops are restarted, and copies lag behind.            *)
(*                                                                         *)
(* Why: the reconciler neither disowns nor deletes, because all machines   *)
(* are alike and there are never more of them than its copy of the object  *)
(* wants; so between the second listing of a tick and its removal nobody   *)
(* takes a machine away.  The health check itself goes through its queue   *)
(* one entry after the other.                                              *)
(***************************************************************************)
SteadyFleet ==
    /\ UserOps \subseteq {"scaleUp", "annotate", "controlplane"}
    /\ Deletable = {}

\* No copy of the object asks for more than the object itself.
SteadyObjects ==
    /\ \A e \in {ec, CachedCluster} : e.ver = 1 /\ ~e.del /\ e.replicas > 0
    /\ CachedCluster.replicas <= ec.replicas

SteadyMachines ==
    /\ \A m \in EtcdClusterMachines(mach) : mach[m].owned /\ mach[m].ver = 1
    /\ Cardinality(OwnedMachines(mach)) <= CachedCluster.replicas

SteadyWork ==
    /\ pc \in {"idle", "addFinalizer", "decide", "create",
              "check", "status", "patch", "patchObject", "patchStatus"}
    /\ pc # "idle" => /\ cur.ver = 1 /\ ~cur.del
                      /\ cur.replicas > 0 /\ cur.replicas <= CachedCluster.replicas
    /\ pc \in {"decide", "create"} =>
        /\ \A m \in All : plane[m].owned /\ plane[m].ver = 1
        /\ OwnedMachines(mach) \subseteq Owned
        /\ Cardinality(Owned) <= cur.replicas
    /\ pc = "create" => Cardinality(Owned) < cur.replicas

SteadyInv == SteadyObjects /\ SteadyMachines /\ SteadyWork

\* From the second listing to the removal there are enough machines.
BusyInv ==
    hpc \in {"list", "memberRemove", "deleteMachine"} =>
        Cardinality(Remaining) >= hec.replicas

\* What a step may do to the object and to the machines.
ObjectGrows ==
    /\ ec'.ver = ec.ver /\ ec'.del = ec.del /\ ec'.replicas >= ec.replicas
    /\ cache' = cache \/ (cache' = ec /\ ec' = ec)

MachinesAlike ==
    \A m \in EtcdClusterMachines(mach') :
        /\ m \in EtcdClusterMachines(mach)
        /\ mach'[m].owned = mach[m].owned /\ mach'[m].ver = mach[m].ver

RemainingKept == Remaining \subseteq Remaining'

LEMMA ObjectsStaySteady ==
    ASSUME TypeOK, TypeOK', SteadyObjects, ObjectGrows
    PROVE  SteadyObjects' /\ CachedCluster.replicas <= CachedCluster'.replicas
<1>1. {ec.replicas, ec'.replicas, cache.replicas, cache'.replicas} \subseteq Nat
    BY ReplicasAssumption DEF TypeOK, WorldTypeOK, ClusterType
<1>2. CASE StaleCluster
    BY <1>1, <1>2 DEF SteadyObjects, ObjectGrows, CachedCluster
<1>3. CASE ~StaleCluster
    BY <1>1, <1>3 DEF SteadyObjects, ObjectGrows, CachedCluster
<1> QED  BY <1>2, <1>3

\* Machines that go leave no fewer places.
LEMMA MachinesStaySteady ==
    ASSUME TypeOK, TypeOK', SteadyObjects, ObjectGrows, SteadyMachines, MachinesAlike
    PROVE  /\ SteadyObjects' /\ SteadyMachines'
           /\ CachedCluster.replicas <= CachedCluster'.replicas
           /\ {CachedCluster.replicas, CachedCluster'.replicas} \subseteq Nat
           /\ OwnedMachines(mach') \subseteq OwnedMachines(mach)
<1>1. SteadyObjects' /\ CachedCluster.replicas <= CachedCluster'.replicas
    BY ObjectsStaySteady
<1>2. OwnedMachines(mach') \subseteq OwnedMachines(mach)
    BY DEF MachinesAlike, OwnedMachines
<1>3. /\ Cardinality(OwnedMachines(mach')) \in Nat /\ Cardinality(OwnedMachines(mach)) \in Nat
      /\ Cardinality(OwnedMachines(mach')) <= Cardinality(OwnedMachines(mach))
    BY <1>2, OwnedAreIds, FewerMachines
<1>4. {CachedCluster.replicas, CachedCluster'.replicas} \subseteq Nat
    BY ReplicasAssumption DEF TypeOK, WorldTypeOK, ClusterType, CachedCluster
<1>5. SteadyMachines'
    BY <1>1, <1>3, <1>4 DEF SteadyMachines, MachinesAlike
<1> QED  BY <1>1, <1>2, <1>4, <1>5

LEMMA SteadyAround ==
    ASSUME TypeOK, TypeOK', SteadyInv, ObjectGrows, MachinesAlike, UNCHANGED recVars
    PROVE  SteadyInv'
<1>1. /\ SteadyObjects' /\ SteadyMachines'
      /\ CachedCluster.replicas <= CachedCluster'.replicas
      /\ {CachedCluster.replicas, CachedCluster'.replicas} \subseteq Nat
      /\ OwnedMachines(mach') \subseteq OwnedMachines(mach)
    BY MachinesStaySteady DEF SteadyInv
<1>2. cur.replicas \in Nat
    BY ReplicasAssumption DEF TypeOK, ClusterType
<1>3. SteadyWork'
    BY <1>1, <1>2 DEF SteadyInv, SteadyWork, recVars, All, Owned
<1> QED  BY <1>1, <1>3 DEF SteadyInv

\* A step of the reconcile that creates nothing.
LEMMA SteadyReconcileStep ==
    ASSUME TypeOK, TypeOK', SteadyInv, ObjectGrows, MachinesAlike,
           pc' \in {"idle", "check", "status", "patch", "patchObject", "patchStatus"},
           pc' # "idle" => /\ pc # "idle"
                           /\ UNCHANGED <<cur.ver, cur.del, cur.replicas>>
    PROVE  SteadyInv'
<1>1. /\ SteadyObjects' /\ SteadyMachines'
      /\ CachedCluster.replicas <= CachedCluster'.replicas
      /\ {CachedCluster.replicas, CachedCluster'.replicas} \subseteq Nat
    BY MachinesStaySteady DEF SteadyInv
<1>2. cur.replicas \in Nat
    BY ReplicasAssumption DEF TypeOK, ClusterType
<1>3. SteadyWork'
    BY <1>1, <1>2 DEF SteadyInv, SteadyWork
<1> QED  BY <1>1, <1>3 DEF SteadyInv

\* Machines keep their owner and version; only one being deleted may go.
Untouched ==
    \A m \in Ids : \/ /\ mach'[m].st = mach[m].st /\ mach'[m].owned = mach[m].owned
                      /\ mach'[m].ver = mach[m].ver
                   \/ mach[m].st = "deleting" /\ mach'[m].st = "gone"

LEMMA UntouchedIsAlike ==
    ASSUME Untouched PROVE MachinesAlike /\ RemainingKept
BY DEF Untouched, MachinesAlike, RemainingKept, Remaining, OwnedMachines,
       EtcdClusterMachines, HasDeletionTimestamp

LEMMA BootUntouched ==
    ASSUME mach \in [Ids -> MachineType], NEW m \in Ids,
           \/ mach' = [mach EXCEPT ![m].boot = "addr"]
           \/ mach' = [mach EXCEPT ![m].boot = "joined"]
           \/ mach' = [mach EXCEPT ![m].ann = TRUE]
    PROVE  Untouched
<1> DEFINE Same(r, s) == s.st = r.st /\ s.owned = r.owned /\ s.ver = r.ver
<1>1. \A r \in MachineType : /\ Same(r, [r EXCEPT !.boot = "addr"])
                             /\ Same(r, [r EXCEPT !.boot = "joined"])
                             /\ Same(r, [r EXCEPT !.ann = TRUE])
    BY DEF MachineType
<1>2. \A k \in Ids : Same(mach[k], mach'[k])
    <2> HIDE DEF Same
    <2>1. Same(mach[m], mach'[m])
        BY <1>1
    <2>2. \A k \in Ids \ {m} : mach'[k] = mach[k]
        OBVIOUS
    <2> QED  BY <2>1, <2>2 DEF Same
<1> QED  BY <1>2 DEF Untouched

LEMMA SteadyWorld ==
    ASSUME TypeOK, SteadyFleet, SteadyInv, WorldNext
    PROVE  ObjectGrows /\ Untouched
<1> DEFINE Effect == ObjectGrows /\ Untouched
<1>0. /\ ec \in ClusterType /\ mach \in [Ids -> MachineType]
      /\ ec.replicas \in Nat
    BY ReplicasAssumption DEF TypeOK, WorldTypeOK, ClusterType
<1>1. ASSUME mach' = mach PROVE Untouched
    BY <1>1 DEF Untouched
<1>2. ASSUME UNCHANGED <<ec, cache>> PROVE ObjectGrows
    BY <1>0, <1>2 DEF ObjectGrows
<1>3. ASSUME NEW m \in Ids, AssignAddress(m) \/ JoinMember(m) \/ AnnotateMachine(m)
      PROVE  Effect
    BY <1>0, <1>2, <1>3, BootUntouched DEF AssignAddress, JoinMember, AnnotateMachine
<1>4. ASSUME NEW m \in Ids, InitMember(m) PROVE Effect
    <2>1. ObjectGrows
        BY <1>0, <1>4 DEF InitMember, ObjectGrows, ClusterType
    <2> QED  BY <1>0, <1>4, <2>1, BootUntouched DEF InitMember
<1>5. ASSUME NEW m \in Ids, FinishMachineDeletion(m) PROVE Effect
    <2>1. mach'[m].st = "gone" /\ \A k \in Ids \ {m} : mach'[k] = mach[k]
        BY <1>0, <1>5 DEF FinishMachineDeletion, Removed, Unborn
    <2> QED  BY <1>2, <1>5, <2>1 DEF FinishMachineDeletion, Untouched
<1>6. ASSUME UserNext, ~\E m \in Ids : AnnotateMachine(m) PROVE Effect
    <2>1. ASSUME NEW r \in Replicas, Scale(r) PROVE Effect
        <3>1. r > ec.replicas /\ r \in Nat
            BY <2>1, ReplicasAssumption DEF Scale, SteadyFleet
        <3>2. ec' = [ec EXCEPT !.replicas = r]
            BY <2>1 DEF Scale
        <3>3. ObjectGrows
            BY <1>0, <2>1, <3>1, <3>2 DEF Scale, ObjectGrows, ClusterType
        <3> QED  BY <1>1, <2>1, <3>3 DEF Scale
    <2>2. ASSUME CompleteControlPlaneUpgrade PROVE Effect
        <3>1. ObjectGrows
            BY <1>0, <2>2 DEF CompleteControlPlaneUpgrade, ObjectGrows, ClusterType
        <3> QED  BY <1>1, <2>2, <3>1 DEF CompleteControlPlaneUpgrade
    <2> QED
        BY <1>6, <2>1, <2>2
        DEF UserNext, SteadyFleet, Upgrade, DeleteCluster, DeleteMachineByHand
<1>7. ASSUME SyncCluster \/ SyncMachines PROVE Effect
    BY <1>0, <1>1, <1>7 DEF SyncCluster, SyncMachines, ObjectGrows
<1> QED
    BY <1>3, <1>4, <1>5, <1>6, <1>7 DEF WorldNext, InfraNext

LEMMA SteadyListing ==
    ASSUME TypeOK, SteadyInv, pc = "decide"
    PROVE  Owned = All /\ NeedRollout = {}
BY DEF SteadyInv, SteadyWork, Owned, OwnedMachines, All, NeedRollout,
       MachinesNeedingRollout, MatchesEtcdadmClusterConfiguration

\* A decision creates a machine when there is room for it, or ends.
LEMMA SteadyDecide ==
    ASSUME TypeOK, TypeOK', SteadyInv, Decide PROVE SteadyInv'
<1>1. pc = "decide" /\ UNCHANGED worldVars /\ SameMarks(cur', cur)
    BY DecideEffect DEF SteadyInv, SteadyWork
<1>2. Owned = All /\ NeedRollout = {}
    BY <1>1, SteadyListing
<1>3. /\ cur.replicas \in Nat /\ Cardinality(Owned) \in Nat
      /\ cur.replicas > 0 /\ Cardinality(Owned) <= cur.replicas
    <2>1. Cardinality(Owned) \in Nat
        BY OwnedAreIds, FewerMachines DEF Owned
    <2>2. cur.replicas \in Nat
        BY ReplicasAssumption DEF TypeOK, ClusterType
    <2> QED  BY <1>1, <2>1, <2>2 DEF SteadyInv, SteadyWork
<1>4. pc' \in {"check", "create"} /\ (pc' = "create" => Cardinality(Owned) < cur.replicas)
    <2>1. CASE ReconcileFails \/ CertRenewalFails \/ AwaitInitialization \/ NothingToDo
        BY <2>1 DEF ReconcileFails, CertRenewalFails, AwaitInitialization, NothingToDo, Continue
    <2>2. CASE InitializeCluster
        <3>1. Cardinality(Owned) = 0
            BY <2>2, FS_EmptySet DEF InitializeCluster
        <3> QED  BY <1>3, <2>2, <3>1 DEF InitializeCluster, Continue
    <2>3. CASE ScaleUp
        BY <2>3 DEF ScaleUp, Continue
    <2>4. ~ScaleDown
        BY <1>3 DEF ScaleDown
    <2> QED
        BY <1>1, <1>2, <2>1, <2>2, <2>3, <2>4
        DEF Decide, RemoveOutdatedMembers, HoldAtMaximum, RolloutWaits, RolloutChecksNewest,
            RolloutStarts, RolloutGoesOn, GatePasses, GateFails
<1>5. ObjectGrows /\ MachinesAlike /\ mach' = mach
    <2>1. ec.replicas \in Nat
        BY ReplicasAssumption DEF TypeOK, WorldTypeOK, ClusterType
    <2> QED  BY <1>1, <2>1 DEF worldVars, ObjectGrows, MachinesAlike
<1>6. CASE pc' = "check"
    BY <1>1, <1>5, <1>6, SteadyReconcileStep DEF SameMarks
<1>7. CASE pc' = "create"
    <2>1. plane' = plane
        BY <1>7, ListingKept
    <2>2. SteadyObjects' /\ SteadyMachines' /\ UNCHANGED CachedCluster
        BY <1>1, <1>5, MachinesStaySteady DEF SteadyInv, worldVars, CachedCluster
    <2>3. SteadyWork'
        BY <1>1, <1>4, <1>5, <1>7, <2>1, <2>2 DEF SteadyInv, SteadyWork, SameMarks, Owned, All
    <2> QED  BY <2>2, <2>3 DEF SteadyInv
<1> QED  BY <1>4, <1>6, <1>7

LEMMA SteadyCreation ==
    ASSUME TypeOK, TypeOK', SteadyInv, CreateMachine
    PROVE  SteadyInv' /\ RemainingKept
<1> DEFINE k == Min(FreeIds)
<1>1. /\ k \in Ids /\ mach'[k].st = "live" /\ mach'[k].owned /\ mach'[k].ver = cur.ver
      /\ mach[k].st = "none" /\ \A m \in Ids \ {k} : mach'[m] = mach[m]
    BY CreationEffect
<1>2. /\ pc = "create" /\ pc' = "check" /\ UNCHANGED <<ec, cache, cur>>
    BY DEF CreateMachine, Step
<1>3. SteadyObjects' /\ CachedCluster' = CachedCluster
    BY <1>2 DEF SteadyInv, SteadyObjects, CachedCluster
<1>4. SteadyWork'
    BY <1>2, <1>3 DEF SteadyInv, SteadyWork
<1>5. Cardinality(OwnedMachines(mach')) <= CachedCluster.replicas
    <2>1. {cur.replicas, CachedCluster.replicas} \subseteq Nat
        BY ReplicasAssumption DEF TypeOK, WorldTypeOK, ClusterType, CachedCluster
    <2>2. /\ Cardinality(OwnedMachines(mach)) <= Cardinality(Owned)
          /\ Cardinality(Owned) \in Nat
        BY <1>2, OwnedAreIds, FewerMachines DEF SteadyInv, SteadyWork, Owned
    <2>3. Cardinality(Owned) < cur.replicas /\ cur.replicas <= CachedCluster.replicas
        BY <1>2 DEF SteadyInv, SteadyWork
    <2> QED  BY <2>1, <2>2, <2>3, CreationCounts
<1>6. SteadyMachines'
    <2>1. \A m \in EtcdClusterMachines(mach') : mach'[m].owned /\ mach'[m].ver = 1
        BY <1>1, <1>2 DEF SteadyInv, SteadyMachines, SteadyWork, EtcdClusterMachines
    <2> QED  BY <1>3, <1>5, <2>1 DEF SteadyMachines
<1>7. RemainingKept
    BY <1>1 DEF RemainingKept, Remaining, OwnedMachines, EtcdClusterMachines, HasDeletionTimestamp
<1> QED  BY <1>3, <1>4, <1>6, <1>7 DEF SteadyInv

LEMMA SteadyBegin ==
    ASSUME TypeOK, TypeOK', SteadyInv, Reconcile PROVE SteadyInv'
<1>1. /\ UNCHANGED <<ec, cache, mach>> /\ CachedCluster' = CachedCluster
      /\ CachedCluster \in ClusterType
    BY DEF Reconcile, worldVars, CachedCluster, TypeOK, WorldTypeOK
<1>2. /\ CachedCluster.ver = 1 /\ ~CachedCluster.del /\ CachedCluster.replicas > 0
      /\ CachedCluster.replicas \in Nat
    BY <1>1, ReplicasAssumption DEF SteadyInv, SteadyObjects, ClusterType
<1>3. \/ pc' = "addFinalizer" /\ cur' = [CachedCluster EXCEPT !.fin = TRUE]
      \/ pc' = "decide" /\ cur' = CachedCluster /\ plane' = mach
    BY <1>2 DEF Reconcile, UncachedList
<1>4. /\ cur'.ver = CachedCluster.ver /\ cur'.del = CachedCluster.del
      /\ cur'.replicas = CachedCluster.replicas
    BY <1>1, <1>3 DEF ClusterType
<1>5. pc' = "decide" => All' = EtcdClusterMachines(mach) /\ Owned' = OwnedMachines(mach)
    BY <1>3 DEF All, Owned
<1>6. SteadyWork'
    BY <1>1, <1>2, <1>3, <1>4, <1>5 DEF SteadyInv, SteadyMachines, SteadyWork
<1> QED  BY <1>1, <1>6 DEF SteadyInv, SteadyObjects, SteadyMachines

\* The reconciler adds machines at most.
LEMMA SteadyReconciler ==
    ASSUME TypeOK, TypeOK', SteadyInv, Working
    PROVE  SteadyInv' /\ RemainingKept
<1>0. ec.replicas \in Nat
    BY ReplicasAssumption DEF TypeOK, WorldTypeOK, ClusterType
<1>1. ASSUME UNCHANGED <<ec, cache>> PROVE ObjectGrows
    BY <1>0, <1>1 DEF ObjectGrows
<1>2. ASSUME mach' = mach PROVE MachinesAlike /\ RemainingKept
    BY <1>2, UntouchedIsAlike DEF Untouched
<1>3. CASE Reconcile
    BY <1>2, <1>3, SteadyBegin DEF Reconcile, worldVars
<1>4. CASE AddFinalizer \/ PatchEtcdCluster
    <2>1. ObjectGrows
        BY <1>0, <1>4, PatchEffect DEF SameSpec, ObjectGrows
    <2> QED
        BY <1>2, <1>4, <2>1, PatchEffect, SteadyReconcileStep DEF Return
<1>5. CASE Decide
    BY <1>2, <1>5, DecideEffect, SteadyDecide DEF worldVars
<1>6. CASE Act
    <2>1. CASE CreateFails
        BY <1>1, <1>2, <2>1, SteadyReconcileStep DEF CreateFails, Step, worldVars
    <2>2. CreateMachine \/ CreateFails
        BY <1>6
        DEF SteadyInv, SteadyWork, Act, Disown, DisownFails, MemberList, MemberRemove,
            DeleteMachine, RemovalFails, ReconcileDelete, DeleteEach
    <2> QED  BY <2>1, <2>2, SteadyCreation
<1>7. CASE CheckOwnedMachines
    <2>1. Untouched
        BY <1>7, LabelKeepsMachines, LabelKeepsVersions DEF Untouched
    <2> QED
        BY <1>1, <1>7, <2>1, UntouchedIsAlike, SteadyReconcileStep DEF CheckOwnedMachines
<1>8. CASE CheckFails
    BY <1>1, <1>2, <1>8, SteadyReconcileStep DEF CheckFails, Return, worldVars
<1>9. CASE \/ StatusDeleting \/ StatusResizing \/ StatusUnhealthy
           \/ StatusReady \/ StatusNewEndpoints
    BY <1>1, <1>2, <1>9, StatusEffect, SteadyReconcileStep
<1> QED
    BY <1>3, <1>4, <1>5, <1>6, <1>7, <1>8, <1>9 DEF Working, Report

\* The health check deletes, and changes the status.
LEMMA SteadyTicking ==
    ASSUME TypeOK, HealthTypeOK, Ticking, UNCHANGED recVars
    PROVE  ObjectGrows /\ MachinesAlike
<1>0. /\ ec \in ClusterType /\ mach \in [Ids -> MachineType]
      /\ ec.replicas \in Nat
    BY ReplicasAssumption DEF TypeOK, WorldTypeOK, ClusterType
<1>1. ASSUME UNCHANGED <<ec, cache>> PROVE ObjectGrows
    BY <1>0, <1>1 DEF ObjectGrows
<1>2. ASSUME mach' = mach PROVE MachinesAlike
    BY <1>2 DEF MachinesAlike
<1>3. CASE ProbeMembers \/ Recheck \/ HealthMemberList \/ HealthRemovalFails
    BY <1>1, <1>2, <1>3
    DEF ProbeMembers, Recheck, HealthMemberList, HealthRemovalFails, worldVars
<1>4. CASE HealthMemberRemove
    BY <1>1, <1>2, <1>4 DEF HealthMemberRemove
<1>5. CASE HealthDeleteMachine
    <2>1. htarget \in Ids /\ mach' = Deleted(htarget) /\ UNCHANGED <<ec, cache>>
        BY <1>5 DEF HealthDeleteMachine, HealthTypeOK
    <2>2. MachinesAlike
        BY <1>0, <2>1 DEF Deleted, MachinesAlike, EtcdClusterMachines, MachineType
    <2> QED  BY <1>1, <2>1, <2>2
<1>6. CASE HealthStatus
    <2>1. ec' = [ec EXCEPT !.ready = FALSE] \/ ec' = ec
        BY <1>6 DEF HealthStatus
    <2>2. ObjectGrows
        BY <1>0, <1>6, <2>1 DEF HealthStatus, ObjectGrows, ClusterType
    <2> QED  BY <1>2, <1>6, <2>2 DEF HealthStatus
<1> QED  BY <1>3, <1>4, <1>5, <1>6 DEF Ticking

\* It goes on to a removal only from a listing that shows enough machines.
LEMMA BusyTicking ==
    ASSUME HealthTypeOK, BusyInv, Ticking PROVE BusyInv'
<1> USE DEF HealthTypeOK
<1>1. ASSUME NEW m, NEW err, NextEntry(m, err) PROVE BusyInv'
    BY <1>1 DEF NextEntry, EndTick, BusyInv
<1>2. CASE ProbeMembers
    BY <1>2 DEF ProbeMembers, EndTick, BusyInv
<1>3. CASE Recheck
    <2>1. PICK m \in htodo : WaitForReplica(m) \/ RemoveUnhealthy(m)
        BY <1>3 DEF Recheck
    <2>2. CASE RemoveUnhealthy(m)
        BY <1>3, <2>2 DEF Recheck, RemoveUnhealthy, BusyInv, Remaining, worldVars
    <2> QED  BY <1>1, <2>1, <2>2 DEF WaitForReplica
<1>4. CASE HealthMemberList
    BY <1>1, <1>4 DEF HealthMemberList, BusyInv, Remaining, worldVars
<1>5. CASE HealthMemberRemove
    BY <1>5 DEF HealthMemberRemove, BusyInv, Remaining
<1>6. CASE HealthDeleteMachine \/ HealthRemovalFails
    BY <1>1, <1>6 DEF HealthDeleteMachine, HealthRemovalFails
<1>7. CASE HealthStatus
    BY <1>7 DEF HealthStatus, EndTick, BusyInv
<1> QED  BY <1>2, <1>3, <1>4, <1>5, <1>6, <1>7 DEF Ticking

\* More machines do not disturb a removal under way.
LEMMA BusyKept ==
    ASSUME BusyInv, RemainingKept, UNCHANGED <<hpc, hec>>,
           HealthTypeOK
    PROVE  BusyInv'
<1>1. Remaining \subseteq Ids /\ Remaining' \subseteq Ids
    BY DEF Remaining, OwnedMachines, EtcdClusterMachines
<1>2. /\ Cardinality(Remaining) \in Nat /\ Cardinality(Remaining') \in Nat
      /\ Cardinality(Remaining) <= Cardinality(Remaining')
    BY <1>1, FewerMachines DEF RemainingKept
<1>3. hec.replicas \in Nat
    BY ReplicasAssumption DEF HealthTypeOK, ClusterType
<1> QED  BY <1>2, <1>3 DEF BusyInv

LEMMA SteadyNext ==
    ASSUME SteadyFleet, SystemInv, SteadyInv, BusyInv, [SystemNext]_systemVars
    PROVE  SteadyInv' /\ BusyInv'
<1>0. /\ TypeOK /\ TypeOK' /\ HealthTypeOK /\ ec.replicas \in Nat
    <2>1. TypeOK /\ TypeOK' /\ HealthTypeOK
        BY SystemInvNext DEF SystemInv, ReconcilerInv, HealthInv
    <2> QED  BY <2>1, ReplicasAssumption DEF TypeOK, WorldTypeOK, ClusterType
<1>1. ASSUME UNCHANGED <<ec, cache, mach, recVars>>
      PROVE  SteadyInv' /\ RemainingKept
    <2>1. ObjectGrows /\ Untouched
        BY <1>0, <1>1 DEF ObjectGrows, Untouched
    <2> QED  BY <1>0, <1>1, <2>1, UntouchedIsAlike, SteadyAround
<1>2. CASE UNCHANGED systemVars
    BY <1>0, <1>1, <1>2, BusyKept DEF systemVars, vars, worldVars, healthVars, tickVars
<1>3. CASE ReconcilerStep(Working)
    BY <1>0, <1>3, SteadyReconciler, BusyKept DEF ReconcilerStep, healthVars, tickVars
<1>4. CASE ReconcilerStep(WorldNext)
    <2>1. ObjectGrows /\ Untouched /\ UNCHANGED recVars
        BY <1>0, <1>4, SteadyWorld DEF ReconcilerStep, WorldNext
    <2>2. SteadyInv' /\ RemainingKept
        BY <1>0, <2>1, UntouchedIsAlike, SteadyAround
    <2> QED  BY <1>0, <1>4, <2>2, BusyKept DEF ReconcilerStep, healthVars, tickVars
<1>5. CASE Tick
    BY <1>1, <1>5 DEF Tick, HealthStep, StartHealthCheck, worldVars, BusyInv
<1>6. CASE HealthStep(Ticking)
    <2>1. ObjectGrows /\ MachinesAlike
        BY <1>0, <1>6, SteadyTicking DEF HealthStep
    <2> QED  BY <1>0, <1>6, <2>1, SteadyAround, BusyTicking DEF HealthStep
<1>7. ASSUME NEW m \in Fragile, FailMember(m) \/ RecoverMember(m)
      PROVE  SteadyInv' /\ BusyInv'
    BY <1>0, <1>1, <1>7, BusyKept DEF FailMember, RecoverMember, healthVars, tickVars
<1>8. CASE RestartProcess
    <2>1. ObjectGrows /\ MachinesAlike /\ pc' = "idle" /\ hpc' = "idle"
        BY <1>0, <1>8
        DEF RestartProcess, ProcessLost, HealthLost, EndTick, Return, ObjectGrows, MachinesAlike
    <2> QED  BY <1>0, <2>1, SteadyReconcileStep DEF BusyInv
<1> QED
    BY <1>2, <1>3, <1>4, <1>5, <1>6, <1>7, <1>8 DEF SystemNext, SteadyFleet

LEMMA SteadyInit == SystemInit => SteadyInv /\ BusyInv
<1> SUFFICES ASSUME SystemInit PROVE SteadyInv /\ BusyInv
    OBVIOUS
<1>1. pc = "idle" /\ hpc = "idle"
    BY DEF SystemInit, RecInit, HealthInit
<1>2. CASE ~StartCreated
    <2>1. EtcdClusterMachines(mach) = {}
        <3>1. mach = [m \in Ids |-> Unborn] /\ Unborn.st = "none"
            BY <1>2 DEF SystemInit, WorldInit, Unborn
        <3> QED  BY <3>1 DEF EtcdClusterMachines
    <2>2. Cardinality(OwnedMachines(mach)) = 0
        BY <2>1, FS_EmptySet DEF OwnedMachines
    <2>3. /\ ec.ver = 1 /\ ~ec.del /\ ec.replicas > 0 /\ ec.replicas \in Nat
          /\ CachedCluster = ec
        BY <1>2, ReplicasAssumption
        DEF SystemInit, WorldInit, NewCluster, validateCommon, CachedCluster
    <2>4. SteadyObjects /\ SteadyMachines
        BY <2>1, <2>2, <2>3 DEF SteadyObjects, SteadyMachines
    <2> QED  BY <1>1, <2>4 DEF SteadyInv, SteadyWork, BusyInv
<1>3. CASE StartCreated
    <2>1. PICK r \in Replicas \cap Ids : validateCommon(r) /\ CreatedWorld(r)
        BY <1>3 DEF SystemInit
    <2> DEFINE running == [Unborn EXCEPT !.st = "live", !.owned = TRUE, !.ver = 1,
                                         !.boot = "joined", !.label = TRUE]
    <2>2. r \in Nat /\ r > 0 /\ 1 .. r \subseteq Ids
        BY <2>1, MaxMachinesAssumption, ReplicasAssumption DEF Ids, validateCommon
    <2>3. ec.ver = 1 /\ ~ec.del /\ ec.replicas = r /\ CachedCluster = ec
        BY <2>1 DEF CreatedWorld, NewCluster, CachedCluster
    <2>4. running.st = "live" /\ running.owned /\ running.ver = 1
        BY DEF Unborn
    <2>5. mach = [m \in Ids |-> IF m \in 1 .. r THEN running ELSE Unborn]
        BY <2>1 DEF CreatedWorld
    <2> HIDE DEF running
    <2>6. /\ \A m \in EtcdClusterMachines(mach) : mach[m].owned /\ mach[m].ver = 1
          /\ OwnedMachines(mach) \subseteq 1 .. r
        BY <2>4, <2>5 DEF OwnedMachines, EtcdClusterMachines, Unborn
    <2>7. Cardinality(1 .. r) = r
        BY <2>2, FS_Interval
    <2>8. Cardinality(OwnedMachines(mach)) <= r
        BY <2>2, <2>6, <2>7, FewerMachines
    <2>9. SteadyObjects /\ SteadyMachines
        BY <2>2, <2>3, <2>6, <2>8 DEF SteadyObjects, SteadyMachines
    <2> QED  BY <1>1, <2>9 DEF SteadyInv, SteadyWork, BusyInv
<1> QED  BY <1>2, <1>3

\* The health check takes machines away one at a time: as long as nobody else
\* makes the fleet smaller, it deletes a machine only when the cluster owns as
\* many as its copy of the object wants, whatever fails, lags behind or is
\* restarted (the second listing before each removal).
THEOREM OneRemovalAtATime == SteadyFleet /\ SystemSpec => OneAtATime
<1>1. BusyInv => [HealthDeleteMachine /\ mach' # mach =>
                    Cardinality(Remaining) >= hec.replicas]_systemVars
    BY DEF BusyInv, HealthDeleteMachine
<1>2. SteadyFleet => SteadyFleet'
    BY DEF SteadyFleet
<1>3. SteadyFleet /\ SystemInv /\ (SteadyInv /\ BusyInv) /\ [SystemNext]_systemVars
        => (SteadyInv /\ BusyInv)'
    BY SteadyNext
<1> QED
    BY SteadyInit, SystemInvariant, <1>1, <1>2, <1>3, PTL DEF SystemSpec, OneAtATime
=============================================================================
