--------------------------- MODULE ReconcilerSafety ---------------------------
(***************************************************************************)
(* Safety theorems about the reconciler: machines never outlive the        *)
(* EtcdadmCluster, a disowned machine stays disowned, and CreationComplete *)
(* never goes back.                                                        *)
(***************************************************************************)
EXTENDS ReconcilerProofs

-----------------------------------------------------------------------------
(* FinalizerInv is inductive *)

LEMMA FinalizerInit == Init => FinalizerInv
<1> SUFFICES ASSUME Init PROVE FinalizerInv
    OBVIOUS
<1>1. EtcdClusterMachines(mach) = {}
    BY DEF Init, WorldInit, EtcdClusterMachines, Unborn
<1>2. ~ec.fin /\ ~ec.del
    BY DEF Init, WorldInit, NewCluster
<1>3. CachedCluster = ec
    BY DEF Init, WorldInit, CachedCluster
<1> QED  BY <1>1, <1>2, <1>3 DEF Init, RecInit, FinalizerInv

\* The copy of the object stays behind or is refreshed, while the object is
\* held as before unless its deletion is visible in the copy already.
LEMMA CopyKeepsPromise ==
    ASSUME FinalizerInv,
           cache' = cache \/ (cache' = ec /\ ec' = ec),
           ec.del => ec'.del,
           CachedCluster.del \/ (Held => Held')
    PROVE  /\ CachedCluster'.exists /\ CachedCluster'.fin /\ ~CachedCluster'.del => Held'
           /\ CachedCluster'.del => ec'.del
           /\ CachedCluster.del => CachedCluster'.del
<1>1. CASE StaleCluster
    BY <1>1 DEF CachedCluster, FinalizerInv, Held
<1>2. CASE ~StaleCluster
    BY <1>2 DEF CachedCluster, Held
<1> QED  BY <1>1, <1>2

\* Steps of the world leave no new machine, no freed object, no older copy.
LEMMA WorldEffect ==
    ASSUME TypeOK, WorldNext
    PROVE  /\ EtcdClusterMachines(mach') \subseteq EtcdClusterMachines(mach)
           /\ Held => Held'
           /\ ec.del => ec'.del
           /\ cache' = cache \/ (cache' = ec /\ ec' = ec)
<1> DEFINE Effect == /\ EtcdClusterMachines(mach') \subseteq EtcdClusterMachines(mach)
                     /\ Held => Held'
                     /\ ec.del => ec'.del
                     /\ cache' = cache \/ (cache' = ec /\ ec' = ec)
<1> USE DEF EtcdClusterMachines, Held
<1>0. ec \in ClusterType /\ mach \in [Ids -> MachineType]
    BY DEF TypeOK, WorldTypeOK
<1>1. ASSUME NEW m \in Ids, AssignAddress(m) PROVE Effect
    BY <1>0, <1>1 DEF AssignAddress, MachineType
<1>2. ASSUME NEW m \in Ids, InitMember(m) PROVE Effect
    BY <1>0, <1>2 DEF InitMember, MachineType, ClusterType
<1>3. ASSUME NEW m \in Ids, JoinMember(m) PROVE Effect
    BY <1>0, <1>3 DEF JoinMember, MachineType
<1>4. ASSUME NEW m \in Ids, FinishMachineDeletion(m) PROVE Effect
    BY <1>0, <1>4 DEF FinishMachineDeletion, Removed, Unborn
<1>5. ASSUME NEW r \in Replicas, Scale(r) PROVE Effect
    BY <1>0, <1>5 DEF Scale, ClusterType
<1>6. ASSUME NEW v \in Versions, Upgrade(v) PROVE Effect
    BY <1>0, <1>6 DEF Upgrade, ClusterType
<1>7. CASE CompleteControlPlaneUpgrade
    BY <1>0, <1>7 DEF CompleteControlPlaneUpgrade, ClusterType
<1>8. CASE DeleteCluster
    BY <1>0, <1>8 DEF DeleteCluster, ClusterType
<1>9. ASSUME NEW m \in Ids, AnnotateMachine(m) PROVE Effect
    BY <1>0, <1>9 DEF AnnotateMachine, MachineType
<1>10. ASSUME NEW m \in Ids, DeleteMachineByHand(m) PROVE Effect
    BY <1>0, <1>10 DEF DeleteMachineByHand, LoseMachine, MachineType
<1>11. CASE SyncCluster
    BY <1>11 DEF SyncCluster
<1>12. CASE SyncMachines
    BY <1>12 DEF SyncMachines
<1> QED
    BY <1>1, <1>2, <1>3, <1>4, <1>5, <1>6, <1>7, <1>8, <1>9, <1>10, <1>11, <1>12
    DEF WorldNext, InfraNext, UserNext

\* The same spec and deletion timestamp, finalizer, endpoints and
\* CreationComplete, and no Ready that was not there.
SameMarks(e, f) ==
    /\ e.fin = f.fin /\ e.creationComplete = f.creationComplete
    /\ e.ver = f.ver /\ e.replicas = f.replicas /\ e.del = f.del
    /\ e.endpoints = f.endpoints /\ (e.ready => f.ready)

\* A decision changes none of these, and never turns towards deletion.
LEMMA MarksKept ==
    ASSUME NEW e \in ClusterType
    PROVE  /\ SameMarks(NoteOutdated(e), e)
           /\ SameMarks(MarkRolling(e), e)
           /\ SameMarks(ForceNotReady(e), e)
<1>1. CASE Owned # All
    BY <1>1 DEF SameMarks, NoteOutdated, MarkRolling, ForceNotReady, ClusterType
<1>2. CASE Owned = All
    BY <1>2 DEF SameMarks, NoteOutdated, MarkRolling, ForceNotReady, ClusterType
<1> QED  BY <1>1, <1>2

LEMMA DecideEffect ==
    ASSUME TypeOK, Decide
    PROVE  /\ UNCHANGED <<worldVars, before>>
           /\ SameMarks(cur', cur)
           /\ pc \in {"decide", "gate"}
           /\ pc' \in {"create", "disown", "remove", "gate", "check"}
<1> DEFINE Effect == /\ UNCHANGED <<worldVars, before>>
                     /\ SameMarks(cur', cur)
                     /\ pc \in {"decide", "gate"}
                     /\ pc' \in {"create", "disown", "remove", "gate", "check"}
<1>0. /\ cur \in ClusterType /\ NoteOutdated(cur) \in ClusterType
      /\ Settled \in ClusterType /\ SettledAndRenewed \in ClusterType
      /\ SameMarks(NoteOutdated(cur), cur)
      /\ SameMarks(MarkRolling(cur), cur)
      /\ SameMarks(MarkRolling(NoteOutdated(cur)), cur)
    <2>1. /\ cur \in ClusterType /\ NoteOutdated(cur) \in ClusterType
          /\ Settled \in ClusterType /\ SettledAndRenewed \in ClusterType
        BY DecisionType, SettledType DEF TypeOK
    <2>2. /\ SameMarks(NoteOutdated(cur), cur) /\ SameMarks(MarkRolling(cur), cur)
          /\ SameMarks(MarkRolling(NoteOutdated(cur)), NoteOutdated(cur))
        BY <2>1, MarksKept
    <2> QED  BY <2>1, <2>2 DEF SameMarks
<1>1. SameMarks(Settled, cur) /\ SameMarks(SettledAndRenewed, cur)
    <2>1. SameMarks(Settled, cur)
        BY <1>0 DEF SameMarks, Settled, ClusterType
    <2> QED  BY <1>0, <2>1 DEF SameMarks, SettledAndRenewed, ClusterType
<1>2. ASSUME NEW next \in {"create", "disown", "remove", "gate", "check"},
             NEW e \in ClusterType, SameMarks(e, cur), Continue(next, e),
             pc \in {"decide", "gate"}
      PROVE  Effect
    BY <1>2 DEF Continue
<1>3. CASE ReconcileFails
    BY <1>0, <1>2, <1>3 DEF ReconcileFails, SameMarks
<1>4. CASE RemoveOutdatedMembers
    BY <1>0, <1>2, <1>4 DEF RemoveOutdatedMembers
<1>5. CASE HoldAtMaximum
    <2> DEFINE e == [NoteOutdated(cur) EXCEPT !.specUpToDate = "MaxReached"]
    <2>1. e \in ClusterType /\ SameMarks(e, cur)
        BY <1>0, DecisionType DEF SameMarks, ClusterType
    <2> QED  BY <1>2, <1>5, <2>1 DEF HoldAtMaximum, NoRemoval
<1>6. CASE RolloutWaits
    BY <1>0, <1>2, <1>6 DEF RolloutWaits, RolloutGoesOn, NoRemoval
<1>7. CASE RolloutChecksNewest
    BY <1>0, <1>2, <1>7 DEF RolloutChecksNewest, RolloutGoesOn, NoRemoval
<1>8. ASSUME NEW e \in {cur, NoteOutdated(cur)}, upgradeEtcdCluster(e),
             pc \in {"decide", "gate"}
      PROVE  Effect
    <2>1. MarkRolling(e) \in ClusterType /\ SameMarks(MarkRolling(e), cur)
        BY <1>0, DecisionType
    <2> QED  BY <1>2, <1>8, <2>1 DEF upgradeEtcdCluster
<1>9. CASE RolloutStarts
    BY <1>8, <1>9 DEF RolloutStarts, NoRemoval
<1>10. CASE GatePasses
    BY <1>8, <1>10 DEF GatePasses
<1>11. CASE GateFails
    BY <1>0, <1>2, <1>11 DEF GateFails, SameMarks
<1>12. CASE CertRenewalFails
    BY <1>0, <1>1, <1>2, <1>12 DEF CertRenewalFails, NoRollout, NoRemoval
<1>13. CASE InitializeCluster
    <2> DEFINE e == [SettledAndRenewed EXCEPT !.initCond = "False"]
               d == [e EXCEPT !.certs = "True"]
    <2>1. e \in ClusterType /\ SameMarks(e, cur)
        BY <1>0, <1>1 DEF SameMarks, ClusterType, ConditionType
    <2>2. d \in ClusterType /\ SameMarks(d, cur)
        <3> HIDE DEF e
        <3> QED  BY <2>1 DEF SameMarks, ClusterType, ConditionType
    <2>3. Continue("create", d) \/ Continue("check", e)
        BY <1>13 DEF InitializeCluster
    <2> HIDE DEF e, d
    <2> QED  BY <1>2, <1>13, <2>1, <2>2, <2>3 DEF InitializeCluster, NoRollout, NoRemoval
<1>14. CASE AwaitInitialization
    <2> DEFINE e == [SettledAndRenewed EXCEPT
                        !.initCond = IF cur.initialized THEN "True" ELSE @]
    <2>1. e \in ClusterType /\ SameMarks(e, cur)
        BY <1>0, <1>1 DEF SameMarks, ClusterType, ConditionType
    <2> QED  BY <1>2, <1>14, <2>1 DEF AwaitInitialization, NoRollout, NoRemoval
<1>15. CASE ScaleUp
    BY <1>0, <1>1, <1>2, <1>15 DEF ScaleUp, Sized, NoRollout, NoRemoval
<1>16. CASE ScaleDown
    BY <1>0, <1>1, <1>2, <1>16 DEF ScaleDown, Sized, NoRollout, NoRemoval
<1>17. CASE NothingToDo
    BY <1>0, <1>1, <1>2, <1>17 DEF NothingToDo, Sized, NoRollout, NoRemoval
<1> QED
    BY <1>3, <1>4, <1>5, <1>6, <1>7, <1>9, <1>10, <1>11, <1>12, <1>13, <1>14,
       <1>15, <1>16, <1>17
    DEF Decide

\* Only CreateMachine adds a machine; no call changes the object read.
LEMMA ActEffect ==
    ASSUME TypeOK, Act
    PROVE  /\ UNCHANGED <<ec, cache, before>>
           /\ \/ EtcdClusterMachines(mach') \subseteq EtcdClusterMachines(mach)
              \/ pc = "create" /\ pc' = "check"
           /\ pc' \in {"check", "remove", "memberRemove", "deleteMachine", "deleteAll"}
           /\ pc \notin {"idle"} \cup Reporting
           /\ cur'.fin = cur.fin \/ (pc = "delete" /\ pc' = "check" /\ All = {})
           /\ UNCHANGED <<cur.creationComplete, cur.initCond, cur.endpoints, cur.ready>>
           /\ cur'.ver = cur.ver /\ cur'.replicas = cur.replicas /\ cur'.del = cur.del
<1> USE DEF Step, Reporting
<1>0. /\ cur \in ClusterType /\ mach \in [Ids -> MachineType]
      /\ plane \in [Ids -> MachineType] /\ todo \subseteq Ids
    BY DEF TypeOK, WorldTypeOK
<1>1. CASE CreateMachine
    BY <1>1 DEF CreateMachine
<1>2. CASE CreateFails
    BY <1>2 DEF CreateFails, worldVars
<1>3. CASE Disown
    <2>1. /\ mach' = [mach EXCEPT ![target] = [mach[target] EXCEPT !.owned = FALSE]]
          /\ target \in Ids
        BY <1>3, UpdateWrites DEF Disown
    <2>2. [mach[target] EXCEPT !.owned = FALSE].st = mach[target].st
        BY <1>0, <2>1 DEF MachineType
    <2>3. \A m \in Ids : mach'[m].st = mach[m].st
        BY <1>0, <2>1, <2>2
    <2> QED  BY <1>3, <2>3 DEF Disown, EtcdClusterMachines
<1>4. CASE DisownFails
    BY <1>4 DEF DisownFails, worldVars
<1>5. CASE MemberList
    BY <1>5 DEF MemberList, NextRemoval, worldVars
<1>6. CASE MemberRemove
    BY <1>6 DEF MemberRemove
<1>7. ASSUME NEW m \in Ids, mach' = Deleted(m) \/ mach' = mach
      PROVE  EtcdClusterMachines(mach') \subseteq EtcdClusterMachines(mach)
    BY <1>0, <1>7 DEF Deleted, EtcdClusterMachines, MachineType
<1>8. CASE DeleteMachine
    <2>1. target \in Ids
        BY <1>8 DEF DeleteMachine, TypeOK
    <2> QED  BY <1>7, <1>8, <2>1 DEF DeleteMachine, NextRemoval
<1>9. CASE RemovalFails
    BY <1>9 DEF RemovalFails, worldVars
<1>10. CASE ReconcileDelete
    <2>1. pc = "delete" /\ UNCHANGED <<worldVars, before>> /\ pc' \in {"check", "deleteAll"}
        BY <1>10 DEF ReconcileDelete, Continue
    <2>2. cur' = cur \/ (cur' = [cur EXCEPT !.fin = FALSE] /\ All = {} /\ pc' = "check")
        BY <1>10 DEF ReconcileDelete, Continue
    <2>3. /\ UNCHANGED <<cur.creationComplete, cur.initCond, cur.endpoints, cur.ready>>
          /\ cur'.ver = cur.ver /\ cur'.replicas = cur.replicas /\ cur'.del = cur.del
        BY <1>0, <2>2 DEF ClusterType
    <2> QED  BY <2>1, <2>2, <2>3 DEF worldVars
<1>11. CASE DeleteEach
    BY <1>0, <1>7, <1>11 DEF DeleteEach
<1> QED
    BY <1>1, <1>2, <1>3, <1>4, <1>5, <1>6, <1>8, <1>9, <1>10, <1>11 DEF Act

\* A reconcile reports on machines without adding or removing any.
LEMMA LabelKeepsMachines ==
    ASSUME TypeOK, CheckOwnedMachines
    PROVE  /\ mach' \in [Ids -> MachineType]
           /\ \A m \in Ids : mach'[m].st = mach[m].st /\ mach'[m].owned = mach[m].owned
<1>1. PICK done \in SUBSET Ids :
        mach' = [m \in Ids |-> IF m \in done THEN [mach[m] EXCEPT !.label = TRUE]
                                            ELSE mach[m]]
    <2>1. PICK S : LabelMachines(CurrentMachines, S) /\ S \subseteq Ids
        BY DEF CheckOwnedMachines, OwnedWithAddress, OwnedMachines, EtcdClusterMachines
    <2>2. PICK done \in SUBSET S :
            /\ \A m \in done : Unchanged(m, CurrentMachines)
            /\ mach' = [m \in Ids |->
                            IF m \in done THEN [Written(m, CurrentMachines) EXCEPT !.label = TRUE]
                            ELSE mach[m]]
        BY <2>1 DEF LabelMachines
    <2>3. \A m \in done : Written(m, CurrentMachines) = mach[m]
        BY <2>2, UpdateWrites
    <2> QED  BY <2>1, <2>2, <2>3
<1>2. mach \in [Ids -> MachineType]
    BY DEF TypeOK, WorldTypeOK
<1>3. mach' \in [Ids -> MachineType]
    BY <1>1, <1>2, MachineUpdateType
<1>4. \A r \in MachineType :
        [r EXCEPT !.label = TRUE].st = r.st /\ [r EXCEPT !.label = TRUE].owned = r.owned
    BY DEF MachineType
<1> QED  BY <1>1, <1>2, <1>3, <1>4

LEMMA ToPatchEffect ==
    ASSUME NEW e \in ClusterType, ToPatch(e)
    PROVE  /\ UNCHANGED <<ec, cache, mach, before>>
           /\ pc' = "patch" /\ SameMarks(cur', e) /\ cur'.initCond = e.initCond
<1>1. ForceNotReady(e).initCond = e.initCond
    BY DEF ForceNotReady, ClusterType
<1> QED  BY <1>1, MarksKept DEF ToPatch

LEMMA StatusEffect ==
    ASSUME TypeOK,
           \/ StatusDeleting \/ StatusResizing \/ StatusUnhealthy
           \/ StatusReady \/ StatusNewEndpoints
    PROVE  /\ UNCHANGED <<ec, cache, mach, before>>
           /\ pc = "status" /\ pc' = "patch" /\ cur'.fin = cur.fin
           /\ cur.creationComplete => cur'.creationComplete
           /\ cur'.creationComplete = cur.creationComplete \/ AllHealthy
           /\ cur'.initCond = cur.initCond
           /\ cur'.ver = cur.ver /\ cur'.replicas = cur.replicas /\ cur'.del = cur.del
<1> DEFINE Later(e) == /\ e.fin = cur.fin /\ e.initCond = cur.initCond
                       /\ cur.creationComplete => e.creationComplete
                       /\ e.creationComplete = cur.creationComplete \/ AllHealthy
                       /\ e.ver = cur.ver /\ e.replicas = cur.replicas /\ e.del = cur.del
<1>0. cur \in ClusterType
    BY DEF TypeOK
<1>1. PICK e \in ClusterType : ToPatch(e) /\ Later(e)
    <2>1. CASE StatusDeleting
        BY <1>0, <2>1 DEF StatusDeleting
    <2>2. CASE StatusResizing
        <3>1. /\ [cur EXCEPT !.ready = FALSE] \in ClusterType
              /\ Later([cur EXCEPT !.ready = FALSE])
            BY <1>0 DEF ClusterType
        <3> QED  BY <2>2, <3>1 DEF StatusResizing
    <2>3. CASE StatusUnhealthy
        <3>1. PICK m \in OwnedNow :
                ToPatch([cur EXCEPT !.ready = IF Listening(checked[m]) THEN FALSE ELSE @])
            BY <2>3 DEF StatusUnhealthy
        <3> DEFINE e == [cur EXCEPT !.ready = IF Listening(checked[m]) THEN FALSE ELSE @]
        <3>2. e \in ClusterType /\ Later(e)
            BY <1>0 DEF ClusterType
        <3> QED  BY <3>1, <3>2
    <2>4. CASE StatusReady
        <3> DEFINE e == [cur EXCEPT !.ready = TRUE, !.creationComplete = TRUE]
        <3>1. e \in ClusterType /\ Later(e)
            BY <1>0, <2>4 DEF ClusterType, StatusReady
        <3>2. ToPatch(e)
            BY <2>4 DEF StatusReady
        <3> QED  BY <3>1, <3>2
    <2>5. CASE StatusNewEndpoints
        <3> DEFINE e == [cur EXCEPT !.ready = TRUE, !.endpoints = CurrEndpoints]
                   d == [e EXCEPT !.creationComplete = TRUE]
        <3>1. CurrEndpoints \subseteq Ids
            BY DEF CurrEndpoints
        <3>2. e \in ClusterType /\ Later(e)
            BY <1>0, <3>1 DEF ClusterType
        <3>3. d \in ClusterType /\ Later(d)
            <4> HIDE DEF e
            <4> QED  BY <2>5, <3>2 DEF ClusterType, StatusNewEndpoints
        <3>4. ToPatch(e) \/ ToPatch(d)
            BY <2>5 DEF StatusNewEndpoints
        <3> HIDE DEF e, d
        <3> QED  BY <3>2, <3>3, <3>4
    <2> QED  BY <2>1, <2>2, <2>3, <2>4, <2>5
<1>2. pc = "status"
    BY DEF StatusDeleting, StatusResizing, StatusUnhealthy, StatusReady,
           StatusNewEndpoints, AllHealthy
<1> QED  BY <1>1, <1>2, ToPatchEffect DEF SameMarks

\* The deferred function, call by call, or the patch of the finalizer: no spec is
\* written, and the object is freed only when the reconcile took the finalizer
\* away.  Either the reconcile is over, or it goes on with its next call.
LEMMA PatchEffect ==
    ASSUME TypeOK, AddFinalizer \/ PatchEtcdCluster
    PROVE  /\ SameSpec(ec', ec)
           /\ ~ec.del => ec'.exists = ec.exists
           /\ Held /\ cur.fin => Held'
           /\ ec'.exists => ec.exists
           /\ ec'.creationComplete =
                Merge(ec.creationComplete, before.creationComplete, cur.creationComplete)
              \/ ec'.creationComplete = ec.creationComplete
           /\ UNCHANGED <<cache, mach, mcache, members, failed, secret, released, passed>>
           /\ pc \in {"addFinalizer", "patch", "patchObject", "patchStatus"}
           /\ \/ Return
              \/ /\ UNCHANGED <<cur, plane, todo, target, checked>>
                 /\ SameSpec(before', before) /\ SameStatus(before', before)
                 /\ pc \in {"patch", "patchObject"}
                 /\ pc' \in {"patchObject", "patchStatus"}
<1>0. /\ ec \in ClusterType /\ before \in ClusterType /\ cur \in ClusterType
      /\ ec.exists \in BOOLEAN
    BY DEF TypeOK, WorldTypeOK, ClusterType
<1>1. ASSUME PatchCall(Finalized(ObjectPatched(ec)))
      PROVE  /\ SameSpec(ec', ec) /\ SameStatus(ec', ec)
             /\ ~ec.del => ec'.exists = ec.exists
             /\ Held /\ cur.fin => Held'
             /\ ec'.exists => ec.exists
    <2>1. /\ SameSpec(ec', ec) /\ SameStatus(ec', ec)
          /\ ec' = ec \/ MergedMeta(ec', ec)
          /\ ec'.exists = (ec.exists /\ ~(ec.del /\ ~ec'.fin)) \/ ec' = ec
        BY <1>0, <1>1, ObjectCall
    <2>2. ec.fin /\ cur.fin => Merge(ec.fin, before.fin, cur.fin)
        BY DEF Merge
    <2> QED  BY <1>0, <2>1, <2>2 DEF MergedMeta, Held
<1>2. CASE AddFinalizer
    BY <1>1, <1>2 DEF AddFinalizer, SameStatus
<1>3. CASE PatchConditions
    BY <1>0, <1>3, ConditionsCall DEF Held, SameMeta, SameStatus
<1>4. CASE PatchObject
    <2>1. PatchCall(Finalized(ObjectPatched(ec)))
        BY <1>4 DEF PatchObject
    <2> QED  BY <1>0, <1>1, <1>4, <2>1, ObjectCallGoesOn DEF SameStatus
<1>5. CASE PatchStatus
    BY <1>0, <1>5, StatusCall DEF Held, SameMeta, MergedStatus
<1> QED  BY <1>2, <1>3, <1>4, <1>5 DEF PatchEtcdCluster

\* Nobody but the reconciler creates machines or frees the object.
LEMMA OutsideKeepsFinalizer ==
    ASSUME FinalizerInv, UNCHANGED recVars,
           EtcdClusterMachines(mach') \subseteq EtcdClusterMachines(mach),
           Held => Held',
           ec.del => ec'.del,
           cache' = cache \/ (cache' = ec /\ ec' = ec)
    PROVE  FinalizerInv'
<1>1. /\ CachedCluster'.exists /\ CachedCluster'.fin /\ ~CachedCluster'.del => Held'
      /\ CachedCluster'.del => ec'.del
      /\ CachedCluster.del => CachedCluster'.del
    BY CopyKeepsPromise
<1> QED  BY <1>1 DEF FinalizerInv, recVars, All

\* What a killed process leaves behind is as good as what it had.
LEMMA LossKeepsFinalizer ==
    ASSUME FinalizerInv, ProcessLost PROVE FinalizerInv'
<1>1. UNCHANGED <<ec, mach>> /\ Return /\ (cache' = cache \/ cache' = ec)
    BY DEF ProcessLost
<1>2. Held => Held'
    BY <1>1 DEF Held
<1>3. /\ CachedCluster'.exists /\ CachedCluster'.fin /\ ~CachedCluster'.del => Held'
      /\ CachedCluster'.del => ec'.del
    BY <1>1, <1>2, CopyKeepsPromise
<1> QED  BY <1>1, <1>2, <1>3 DEF Return, FinalizerInv

LEMMA FinalizerNext ==
    TypeOK /\ FinalizerInv /\ [Next]_vars => FinalizerInv'
<1> SUFFICES ASSUME TypeOK, FinalizerInv, [Next]_vars PROVE FinalizerInv'
    OBVIOUS
<1> USE DEF Reporting
<1>1. CASE WorldNext
    BY <1>1, WorldEffect, OutsideKeepsFinalizer DEF WorldNext
<1>2. ASSUME UNCHANGED <<ec, cache>>
      PROVE  Held' = Held /\ CachedCluster' = CachedCluster /\ ec' = ec
    BY <1>2 DEF Held, CachedCluster
<1>3. CASE Reconcile
    <2>1. UNCHANGED <<ec, cache, mach>>
        BY <1>3 DEF Reconcile, worldVars
    <2>2. before' = CachedCluster /\ pc' \in {"addFinalizer", "delete", "decide"}
        BY <1>3 DEF Reconcile
    <2>3. CachedCluster \in ClusterType
        BY DEF TypeOK, WorldTypeOK, CachedCluster
    <2>4. cur'.fin
        BY <1>3, <2>3 DEF Reconcile, ClusterType
    <2>5. pc' = "delete" => CachedCluster.del /\ plane' = mach
        BY <1>3 DEF Reconcile, UncachedList
    <2>6. pc' = "decide" => CachedCluster.exists /\ CachedCluster.fin /\ ~CachedCluster.del
        BY <1>3 DEF Reconcile
    <2> QED  BY <1>2, <2>1, <2>2, <2>4, <2>5, <2>6 DEF FinalizerInv, All
<1>4. CASE Decide
    <2>1. UNCHANGED <<ec, cache, mach, before>>
        BY <1>4, DecideEffect DEF worldVars
    <2> QED  BY <1>2, <1>4, <2>1, DecideEffect DEF SameMarks, FinalizerInv
<1>5. CASE Act
    <2>1. UNCHANGED <<ec, cache, before>>
        BY <1>5, ActEffect
    <2>2. EtcdClusterMachines(mach') # {} => Held
        BY <1>5, ActEffect DEF FinalizerInv
    <2>3. ~cur'.fin => before.del /\ pc' = "check" /\ EtcdClusterMachines(mach') = {}
        BY <1>5, ActEffect DEF FinalizerInv
    <2> QED  BY <1>2, <1>5, <2>1, <2>2, <2>3, ActEffect DEF FinalizerInv
<1>6. CASE CheckOwnedMachines
    <2>1. EtcdClusterMachines(mach') = EtcdClusterMachines(mach)
        BY <1>6, LabelKeepsMachines DEF EtcdClusterMachines
    <2> QED  BY <1>2, <1>6, <2>1 DEF CheckOwnedMachines, FinalizerInv
<1>7. CASE CheckFails
    BY <1>2, <1>7 DEF CheckFails, Return, worldVars, FinalizerInv
<1>8. CASE \/ StatusDeleting \/ StatusResizing \/ StatusUnhealthy
           \/ StatusReady \/ StatusNewEndpoints
    BY <1>2, <1>8, StatusEffect DEF FinalizerInv
<1>9. CASE AddFinalizer \/ PatchEtcdCluster
    <2>0. UNCHANGED <<cache, mach>> /\ pc # "idle"
        BY <1>9, PatchEffect
    <2>1. CachedCluster.del \/ (Held => Held')
        BY <1>9, <2>0, PatchEffect DEF FinalizerInv
    <2>2. /\ CachedCluster'.exists /\ CachedCluster'.fin /\ ~CachedCluster'.del => Held'
          /\ CachedCluster'.del => ec'.del
          /\ CachedCluster.del => CachedCluster'.del
        BY <1>9, <2>0, <2>1, PatchEffect, CopyKeepsPromise DEF SameSpec
    <2>3. EtcdClusterMachines(mach') # {} => Held'
        BY <1>9, <2>0, PatchEffect DEF FinalizerInv
    <2>4. CASE Return
        BY <2>2, <2>3, <2>4 DEF Return, FinalizerInv
    <2>5. CASE /\ UNCHANGED cur /\ SameSpec(before', before)
               /\ pc' \in {"patchObject", "patchStatus"}
        BY <2>0, <2>2, <2>3, <2>5 DEF FinalizerInv, SameSpec, Reporting
    <2> QED  BY <1>9, <2>4, <2>5, PatchEffect
<1>10. CASE Restart
    BY <1>10, LossKeepsFinalizer DEF Restart
<1>11. CASE UNCHANGED vars
    BY <1>2, <1>11 DEF vars, worldVars, recVars, FinalizerInv, All
<1> QED
    BY <1>1, <1>3, <1>4, <1>5, <1>6, <1>7, <1>8, <1>9, <1>10, <1>11
    DEF Next, ReconcilerNext, Working, Report

\* Machines never outlive the EtcdadmCluster, for any number of machines, any
\* user, stale caches, failing calls and crashes.
THEOREM MachinesNeverOrphaned == Spec => []NoOrphanMachines
<1>1. FinalizerInv => NoOrphanMachines
    BY DEF FinalizerInv, Held, NoOrphanMachines
<1>2. Spec => [](TypeOK /\ FinalizerInv)
    BY TypeInit, TypeNext, FinalizerInit, FinalizerNext, PTL DEF Spec
<1> QED  BY <1>1, <1>2, PTL

-----------------------------------------------------------------------------
(* A disowned machine stays disowned *)

LEMMA OwnershipNext ==
    ASSUME TypeOK, [Next]_vars PROVE [StaysDisowned]_vars
<1> SUFFICES ASSUME Next PROVE StaysDisowned
    OBVIOUS
<1> USE DEF EtcdClusterMachines
<1>0. /\ mach \in [Ids -> MachineType] /\ plane \in [Ids -> MachineType]
      /\ todo \subseteq Ids
    BY DEF TypeOK, WorldTypeOK
<1>1. ASSUME \A m \in Ids : mach[m].st \in {"live", "deleting"} =>
                mach'[m].owned = mach[m].owned \/ ~mach'[m].owned
      PROVE  StaysDisowned
    BY <1>1 DEF StaysDisowned
<1>2. CASE mach' = mach
    BY <1>1, <1>2
<1>3. ASSUME NEW k \in Ids,
             \/ AssignAddress(k) \/ InitMember(k) \/ JoinMember(k)
             \/ FinishMachineDeletion(k) \/ AnnotateMachine(k) \/ DeleteMachineByHand(k)
      PROVE  StaysDisowned
    <2>1. CASE AssignAddress(k)
        BY <1>0, <1>1, <2>1 DEF AssignAddress, MachineType
    <2>2. CASE InitMember(k)
        BY <1>0, <1>1, <2>2 DEF InitMember, MachineType
    <2>3. CASE JoinMember(k)
        BY <1>0, <1>1, <2>3 DEF JoinMember, MachineType
    <2>4. CASE FinishMachineDeletion(k)
        BY <1>0, <1>1, <2>4 DEF FinishMachineDeletion, Removed, Unborn
    <2>5. CASE AnnotateMachine(k)
        BY <1>0, <1>1, <2>5 DEF AnnotateMachine, MachineType
    <2>6. CASE DeleteMachineByHand(k)
        BY <1>0, <1>1, <2>6 DEF DeleteMachineByHand, LoseMachine, MachineType
    <2> QED  BY <1>3, <2>1, <2>2, <2>3, <2>4, <2>5, <2>6
<1>4. CASE WorldNext
    <2>1. \/ mach' = mach
          \/ \E k \in Ids :
                \/ AssignAddress(k) \/ InitMember(k) \/ JoinMember(k)
                \/ FinishMachineDeletion(k) \/ AnnotateMachine(k) \/ DeleteMachineByHand(k)
        BY <1>4
        DEF WorldNext, InfraNext, UserNext, Scale, Upgrade, CompleteControlPlaneUpgrade,
            DeleteCluster, SyncCluster, SyncMachines
    <2> QED  BY <1>2, <1>3, <2>1
<1>5. CASE CreateMachine
    <2>1. FreeIds \in SUBSET Ids /\ FreeIds # {}
        BY <1>5 DEF CreateMachine, FreeIds
    <2>2. Min(FreeIds) \in Ids /\ mach[Min(FreeIds)].st = "none"
        BY <2>1, OldestIsOne DEF FreeIds
    <2>3. \A m \in Ids : m # Min(FreeIds) => mach'[m] = mach[m]
        BY <1>0, <1>5, <2>2 DEF CreateMachine
    <2> QED  BY <1>1, <2>2, <2>3
<1>6. CASE Disown
    <2>1. /\ mach' = [mach EXCEPT ![target] = [mach[target] EXCEPT !.owned = FALSE]]
          /\ target \in Ids
        BY <1>6, UpdateWrites DEF Disown
    <2>2. \A r \in MachineType : [r EXCEPT !.owned = FALSE].owned = FALSE
        BY DEF MachineType
    <2> QED  BY <1>0, <1>1, <2>1, <2>2
<1>7. ASSUME NEW k \in Ids, mach' = Deleted(k) \/ mach' = mach
      PROVE  StaysDisowned
    BY <1>0, <1>1, <1>7 DEF Deleted, MachineType
<1>8. CASE DeleteMachine
    <2>1. target \in Ids
        BY <1>8 DEF DeleteMachine, TypeOK
    <2> QED  BY <1>7, <1>8, <2>1 DEF DeleteMachine
<1>9. CASE DeleteEach
    BY <1>0, <1>7, <1>9 DEF DeleteEach
<1>10. CASE Act
    <2>1. \/ CreateMachine \/ Disown \/ DeleteMachine \/ DeleteEach \/ mach' = mach
        BY <1>10
        DEF Act, CreateFails, DisownFails, MemberList, MemberRemove, RemovalFails,
            ReconcileDelete, Continue, worldVars
    <2> QED  BY <1>2, <1>5, <1>6, <1>8, <1>9, <2>1
<1>11. CASE Report
    <2>1. CASE CheckOwnedMachines
        BY <1>1, <2>1, LabelKeepsMachines
    <2>2. CASE CheckFails \/ PatchEtcdCluster
        BY <1>2, <2>2, PatchEffect DEF CheckFails, worldVars
    <2> QED  BY <1>2, <1>11, <2>1, <2>2, StatusEffect DEF Report
<1>12. CASE Decide
    BY <1>2, <1>12, DecideEffect DEF worldVars
<1>13. CASE Reconcile \/ AddFinalizer \/ Restart
    BY <1>2, <1>13, PatchEffect DEF Reconcile, Restart, ProcessLost, worldVars
<1> QED
    BY <1>4, <1>10, <1>11, <1>12, <1>13 DEF Next, ReconcilerNext, Working

\* No label update, second disowning, crash or stale listing ever gives an
\* owner reference back.
THEOREM DisownedForGood == Spec => OwnershipNeverReturns
BY TypeCorrect, OwnershipNext, PTL DEF Spec, OwnershipNeverReturns

-----------------------------------------------------------------------------
(* What the calls of a patch have dealt with is no difference any more: the  *)
(* patch helper's copy agrees with the reconcile's.                          *)
DealtInv ==
    /\ pc \in {"addFinalizer", "patchObject", "patchStatus"} => SameConditions(before, cur)
    /\ pc = "patchStatus" => SameMeta(before, cur)
    /\ pc = "addFinalizer" => SameStatus(before, cur) /\ cur.cpDone = before.cpDone

LEMMA DealtInit == Init => DealtInv
BY DEF Init, RecInit, DealtInv

LEMMA DealtNext ==
    TypeOK /\ DealtInv /\ [Next]_vars => DealtInv'
<1> SUFFICES ASSUME TypeOK, DealtInv, [Next]_vars PROVE DealtInv'
    OBVIOUS
<1>0. ec \in ClusterType /\ before \in ClusterType /\ cur \in ClusterType
    BY DEF TypeOK, WorldTypeOK
<1>1. ASSUME pc' \notin {"addFinalizer", "patchObject", "patchStatus"} PROVE DealtInv'
    BY <1>1 DEF DealtInv
<1>2. CASE UNCHANGED <<pc, before, cur>>
    BY <1>2 DEF DealtInv, SameConditions, SameMeta, SameStatus
<1>3. CASE Reconcile
    <2>1. CachedCluster \in ClusterType
        BY DEF TypeOK, WorldTypeOK, CachedCluster
    <2>2. before' = CachedCluster /\ pc' \in {"addFinalizer", "delete", "decide"}
        BY <1>3 DEF Reconcile
    <2>3. pc' = "addFinalizer" => cur' = [CachedCluster EXCEPT !.fin = TRUE]
        BY <1>3 DEF Reconcile
    <2> QED  BY <2>1, <2>2, <2>3 DEF DealtInv, SameConditions, SameStatus, ClusterType
<1>4. CASE PatchConditions
    BY <1>0, <1>4, ConditionsCall DEF DealtInv, SameConditions
<1>5. CASE PatchObject
    BY <1>0, <1>5, ObjectCallGoesOn DEF DealtInv, SameConditions, SameMeta
<1>6. CASE AddFinalizer \/ PatchStatus \/ CheckFails \/ Restart
    BY <1>1, <1>6 DEF AddFinalizer, PatchStatus, CheckFails, Restart, ProcessLost, Return
<1>7. CASE CheckOwnedMachines
    BY <1>1, <1>7 DEF CheckOwnedMachines
<1>8. CASE \/ StatusDeleting \/ StatusResizing \/ StatusUnhealthy
           \/ StatusReady \/ StatusNewEndpoints
    BY <1>1, <1>8, StatusEffect
<1>9. CASE Decide \/ Act
    BY <1>1, <1>9, DecideEffect, ActEffect
<1>10. CASE WorldNext \/ UNCHANGED vars
    BY <1>2, <1>10 DEF WorldNext, vars, recVars
<1> QED
    BY <1>3, <1>4, <1>5, <1>6, <1>7, <1>8, <1>9, <1>10
    DEF Next, ReconcilerNext, Working, Report, PatchEtcdCluster

-----------------------------------------------------------------------------
(* CreationComplete never goes back *)

\* The reconcile never takes CreationComplete back from the copy it works on;
\* with the merge of the patch that suffices, however old the copy is.
CompleteKept == before.creationComplete => cur.creationComplete

LEMMA CompleteNext ==
    TypeOK /\ CompleteKept /\ [Next]_vars => CompleteKept'
<1> SUFFICES ASSUME TypeOK, CompleteKept, [Next]_vars PROVE CompleteKept'
    OBVIOUS
<1> USE DEF CompleteKept
<1>1. CASE Return
    BY <1>1 DEF Return
<1>2. CASE Reconcile
    <2>1. CachedCluster \in ClusterType
        BY DEF TypeOK, WorldTypeOK, CachedCluster
    <2> QED  BY <1>2, <2>1 DEF Reconcile, ClusterType
<1>3. CASE UNCHANGED <<before, cur>>
    BY <1>3
<1>4. CASE Decide
    BY <1>4, DecideEffect DEF SameMarks
<1>5. CASE Act
    BY <1>5, ActEffect
<1>6. CASE Report
    <2>1. CASE CheckOwnedMachines
        BY <1>3, <2>1 DEF CheckOwnedMachines
    <2>2. CASE CheckFails
        BY <1>1, <2>2 DEF CheckFails
    <2>3. CASE PatchEtcdCluster
        BY <1>1, <2>3, PatchEffect DEF SameStatus
    <2> QED  BY <1>6, <2>3, <2>1, <2>2, StatusEffect DEF Report
<1>7. CASE AddFinalizer \/ Restart
    BY <1>1, <1>7 DEF AddFinalizer, Restart, ProcessLost
<1>8. CASE WorldNext \/ UNCHANGED vars
    BY <1>3, <1>8 DEF WorldNext, vars, recVars
<1> QED
    BY <1>2, <1>4, <1>5, <1>6, <1>7, <1>8 DEF Next, ReconcilerNext, Working

LEMMA CompleteStep ==
    TypeOK /\ CompleteKept /\ [Next]_vars => [StaysComplete]_vars
<1> SUFFICES ASSUME TypeOK, CompleteKept, Next PROVE StaysComplete
    OBVIOUS
<1> USE DEF StaysComplete
<1>0. ec \in ClusterType /\ before \in ClusterType /\ cur \in ClusterType
    BY DEF TypeOK, WorldTypeOK
<1>1. CASE ec' = ec
    BY <1>1
<1>2. CASE AddFinalizer \/ PatchEtcdCluster
    <2>1. ec.creationComplete =>
            Merge(ec.creationComplete, before.creationComplete, cur.creationComplete)
        BY <1>0 DEF Merge, CompleteKept, ClusterType
    <2> QED  BY <1>2, <2>1, PatchEffect
<1>3. CASE WorldNext
    <2>1. CASE \E m \in Ids : InitMember(m)
        BY <1>0, <2>1 DEF InitMember, ClusterType
    <2>2. CASE \E r \in Replicas : Scale(r)
        BY <1>0, <2>2 DEF Scale, ClusterType
    <2>3. CASE \E v \in Versions : Upgrade(v)
        BY <1>0, <2>3 DEF Upgrade, ClusterType
    <2>4. CASE CompleteControlPlaneUpgrade
        BY <1>0, <2>4 DEF CompleteControlPlaneUpgrade, ClusterType
    <2>5. CASE DeleteCluster
        BY <1>0, <2>5 DEF DeleteCluster, ClusterType
    <2> QED
        BY <1>1, <1>3, <2>1, <2>2, <2>3, <2>4, <2>5
        DEF WorldNext, InfraNext, UserNext, AssignAddress, JoinMember,
            FinishMachineDeletion, AnnotateMachine, DeleteMachineByHand, LoseMachine,
            SyncCluster, SyncMachines
<1>4. CASE ReconcilerNext
    <2>1. CASE Reconcile \/ Restart \/ CheckOwnedMachines \/ CheckFails
        BY <1>1, <2>1 DEF Reconcile, Restart, ProcessLost, CheckOwnedMachines, CheckFails, worldVars
    <2>2. CASE AddFinalizer \/ PatchEtcdCluster
        BY <1>2, <2>2
    <2>3. CASE Decide \/ Act
        BY <1>1, <2>3, DecideEffect, ActEffect DEF worldVars
    <2> QED  BY <1>1, <1>4, <2>1, <2>2, <2>3, StatusEffect DEF ReconcilerNext, Working, Report
<1> QED  BY <1>3, <1>4 DEF Next

\* Once created, always created, whatever copy of the object a reconcile had.
THEOREM CreationIsFinal == Spec => CreationCompleteStable
<1>1. Init => CompleteKept
    BY DEF Init, RecInit, CompleteKept
<1>2. Spec => [](TypeOK /\ CompleteKept)
    BY TypeInit, TypeNext, <1>1, CompleteNext, PTL DEF Spec
<1> QED
    BY <1>2, CompleteStep, PTL DEF Spec, CreationCompleteStable
=============================================================================
