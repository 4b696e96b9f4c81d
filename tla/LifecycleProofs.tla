---------------------------- MODULE LifecycleProofs ----------------------------
(***************************************************************************)
(* The reconciler never owns too many machines, and it implements the      *)
(* abstract life of a cluster and its machines.                            *)
(***************************************************************************)
EXTENDS ReconcilerSafety

-----------------------------------------------------------------------------
(* OwnedInv is inductive *)

\* A part of some machines is not larger.
LEMMA FewerMachines ==
    ASSUME NEW T \in SUBSET Ids, NEW S \in SUBSET T
    PROVE  /\ Cardinality(S) \in Nat /\ Cardinality(T) \in Nat
           /\ Cardinality(S) <= Cardinality(T)
<1>1. IsFiniteSet(T)
    BY IdsFinite, FS_Subset
<1> QED  BY <1>1, FS_Subset, FS_CardinalityType

LEMMA OwnedAreIds ==
    \A M : OwnedMachines(M) \subseteq Ids
BY DEF OwnedMachines, EtcdClusterMachines

LEMMA OwnedInit == Init => OwnedInv
<1> SUFFICES ASSUME Init PROVE OwnedInv
    OBVIOUS
<1>1. OwnedMachines(mach) = {}
    BY DEF Init, WorldInit, OwnedMachines, EtcdClusterMachines, Unborn
<1>2. Cardinality(OwnedMachines(mach)) = 0
    BY <1>1, FS_EmptySet
<1> QED  BY <1>2 DEF Init, RecInit, OwnedInv, OwnedBounded

\* With fewer owned machines, away from a decision or on the same listing,
\* nothing is lost.
LEMMA FewerOwned ==
    ASSUME OwnedInv,
           OwnedMachines(mach') \subseteq OwnedMachines(mach),
           \/ pc' \notin {"decide", "gate", "create"}
           \/ UNCHANGED <<pc, plane>>
    PROVE  OwnedInv'
<1>1. /\ Cardinality(OwnedMachines(mach')) \in Nat
      /\ Cardinality(OwnedMachines(mach)) \in Nat
      /\ Cardinality(OwnedMachines(mach')) <= Cardinality(OwnedMachines(mach))
    BY OwnedAreIds, FewerMachines
<1>2. OwnedBounded'
    <2>1. PICK size \in Replicas \cup {2} : Cardinality(OwnedMachines(mach)) <= size
        BY DEF OwnedInv, OwnedBounded
    <2>2. size \in Nat
        BY ReplicasAssumption
    <2> QED  BY <1>1, <2>1, <2>2 DEF OwnedBounded
<1> QED  BY <1>2 DEF OwnedInv, Owned

\* Only CreateMachine adds an owned machine.
LEMMA NoNewOwned ==
    ASSUME TypeOK, Next, ~CreateMachine
    PROVE  OwnedMachines(mach') \subseteq OwnedMachines(mach)
<1>1. StaysDisowned
    BY OwnershipNext DEF vars, worldVars, StaysDisowned, EtcdClusterMachines
<1>2. EtcdClusterMachines(mach') \subseteq EtcdClusterMachines(mach)
    <2>1. CASE WorldNext
        BY <2>1, WorldEffect
    <2>2. CASE Act
        <3>1. CASE pc = "create"
            <4>1. CreateFails
                BY <2>2, <3>1
                DEF Act, Disown, DisownFails, MemberList, MemberRemove, DeleteMachine,
                    RemovalFails, ReconcileDelete, DeleteEach
            <4> QED  BY <4>1 DEF CreateFails, worldVars
        <3> QED  BY <2>2, <3>1, ActEffect
    <2>3. CASE Decide
        BY <2>3, DecideEffect DEF worldVars
    <2>4. CASE Report
        <3>1. CASE CheckOwnedMachines
            BY <3>1, LabelKeepsMachines DEF EtcdClusterMachines
        <3>2. CASE CheckFails \/ PatchEtcdCluster
            BY <3>2, PatchEffect DEF CheckFails, worldVars
        <3> QED  BY <2>4, <3>1, <3>2, StatusEffect DEF Report
    <2>5. CASE Reconcile \/ AddFinalizer \/ Restart
        BY <2>5, PatchEffect DEF Reconcile, Restart, ProcessLost, worldVars
    <2> QED
        BY <2>1, <2>2, <2>3, <2>4, <2>5 DEF Next, ReconcilerNext, Working
<1> QED  BY <1>1, <1>2 DEF OwnedMachines, StaysDisowned

\* A decision to create is a decision that machines are missing.
LEMMA CreateWhenShort ==
    ASSUME TypeOK, Decide, pc' = "create"
    PROVE  \E size \in Replicas \cup {2} : Cardinality(Owned) < size
<1> DEFINE Short == \E size \in Replicas \cup {2} : Cardinality(Owned) < size
<1>1. cur.replicas \in Replicas
    BY DEF TypeOK, ClusterType
<1>2. ASSUME NEW e, upgradeEtcdCluster(e) PROVE Short
    <2>1. UpgradeScalesUp
        BY <1>2 DEF upgradeEtcdCluster, Continue
    <2> QED  BY <1>1, <2>1 DEF UpgradeScalesUp
<1>3. CASE RolloutStarts
    BY <1>2, <1>3 DEF RolloutStarts
<1>4. CASE GatePasses
    BY <1>2, <1>4 DEF GatePasses
<1>5. CASE InitializeCluster
    <2>1. Cardinality(Owned) = 0
        BY <1>5, FS_EmptySet DEF InitializeCluster
    <2> QED  BY <2>1
<1>6. CASE ScaleUp
    BY <1>1, <1>6 DEF ScaleUp
<1>7. /\ ~ReconcileFails /\ ~RemoveOutdatedMembers /\ ~HoldAtMaximum
      /\ ~RolloutWaits /\ ~RolloutChecksNewest /\ ~GateFails /\ ~CertRenewalFails
    BY DEF ReconcileFails, RemoveOutdatedMembers, HoldAtMaximum, RolloutWaits,
           RolloutChecksNewest, GateFails, CertRenewalFails, Continue
<1>8. ~AwaitInitialization /\ ~ScaleDown /\ ~NothingToDo
    BY DEF AwaitInitialization, ScaleDown, NothingToDo, Continue
<1> QED  BY <1>3, <1>4, <1>5, <1>6, <1>7, <1>8 DEF Decide

\* A decision keeps the listing while it may still lead to a creation.
LEMMA ListingKept ==
    ASSUME Decide, pc' # "check" PROVE plane' = plane
<1>1. PICK next, e : Continue(next, e)
    BY DEF Decide, ReconcileFails, RemoveOutdatedMembers, HoldAtMaximum, RolloutWaits,
           RolloutChecksNewest, RolloutStarts, GatePasses, GateFails, upgradeEtcdCluster,
           CertRenewalFails, InitializeCluster, AwaitInitialization, ScaleUp, ScaleDown,
           NothingToDo
<1> QED  BY <1>1 DEF Continue, PlaneAt

\* The machine that is created is the only one that is new.
LEMMA CreationEffect ==
    ASSUME TypeOK, CreateMachine
    PROVE  /\ Min(FreeIds) \in Ids /\ mach[Min(FreeIds)].st = "none"
           /\ mach'[Min(FreeIds)].st = "live" /\ mach'[Min(FreeIds)].owned
           /\ mach'[Min(FreeIds)].ver = cur.ver
           /\ mach'[Min(FreeIds)].fd \in NextFailureDomainForScaleUp(plane, cur.ver)
           /\ \A m \in Ids : m # Min(FreeIds) => mach'[m] = mach[m]
<1>0. mach \in [Ids -> MachineType] /\ Unborn \in MachineType
    BY UnbornType DEF TypeOK, WorldTypeOK
<1>1. Min(FreeIds) \in Ids /\ mach[Min(FreeIds)].st = "none"
    <2>1. FreeIds \in SUBSET Ids /\ FreeIds # {}
        BY DEF CreateMachine, FreeIds
    <2> QED  BY <2>1, OldestIsOne DEF FreeIds
<1>2. PICK fd \in NextFailureDomainForScaleUp(plane, cur.ver) :
            mach' = [mach EXCEPT ![Min(FreeIds)] =
                    [Unborn EXCEPT !.st = "live", !.owned = TRUE,
                                   !.ver = cur.ver, !.fd = fd]]
    BY DEF CreateMachine
<1> DEFINE r == [Unborn EXCEPT !.st = "live", !.owned = TRUE, !.ver = cur.ver, !.fd = fd]
<1>3. r.st = "live" /\ r.owned
    BY DEF Unborn
<1>4. r.ver = cur.ver /\ r.fd = fd
    BY DEF Unborn
<1> HIDE DEF r
<1> QED  BY <1>0, <1>1, <1>2, <1>3, <1>4 DEF r

\* It is owned from the beginning, so there is one owned machine more.
LEMMA CreationCounts ==
    ASSUME TypeOK, CreateMachine
    PROVE  /\ OwnedMachines(mach') = OwnedMachines(mach) \cup {Min(FreeIds)}
           /\ Min(FreeIds) \notin OwnedMachines(mach)
           /\ Cardinality(OwnedMachines(mach)) \in Nat
           /\ Cardinality(OwnedMachines(mach')) = Cardinality(OwnedMachines(mach)) + 1
<1>1. /\ OwnedMachines(mach') = OwnedMachines(mach) \cup {Min(FreeIds)}
      /\ Min(FreeIds) \notin OwnedMachines(mach)
    BY CreationEffect DEF OwnedMachines, EtcdClusterMachines
<1>2. IsFiniteSet(OwnedMachines(mach)) /\ Cardinality(OwnedMachines(mach)) \in Nat
    BY OwnedAreIds, IdsFinite, FS_Subset, FS_CardinalityType
<1> QED  BY <1>1, <1>2, FS_AddElement

LEMMA OwnedNext == TypeOK /\ OwnedInv /\ [Next]_vars => OwnedInv'
<1> SUFFICES ASSUME TypeOK, OwnedInv, [Next]_vars PROVE OwnedInv'
    OBVIOUS
<1>1. CASE CreateMachine
    <2> DEFINE k == Min(FreeIds)
               old == OwnedMachines(mach)
               new == OwnedMachines(mach')
    <2>1. new \subseteq old \cup {k} /\ k \in Ids /\ k \notin old
        BY <1>1, CreationEffect DEF OwnedMachines, EtcdClusterMachines
    <2>2. IsFiniteSet(old) /\ Cardinality(old) \in Nat
        BY OwnedAreIds, IdsFinite, FS_Subset, FS_CardinalityType
    <2>3. old \cup {k} \in SUBSET Ids
        BY <2>1, OwnedAreIds
    <2>4. Cardinality(old \cup {k}) = Cardinality(old) + 1
        BY <2>1, <2>2, FS_AddElement
    <2>5. Cardinality(new) \in Nat /\ Cardinality(new) <= Cardinality(old \cup {k})
        BY <2>1, <2>3, FewerMachines
    <2>6. pc = "create"
        BY <1>1 DEF CreateMachine
    <2>7. Owned \subseteq Ids /\ old \subseteq Owned
        BY <2>6, OwnedAreIds DEF OwnedInv, Owned
    <2>8. Cardinality(Owned) \in Nat /\ Cardinality(old) <= Cardinality(Owned)
        BY <2>7, FewerMachines
    <2>9. PICK size \in Replicas \cup {2} : Cardinality(Owned) < size
        BY <2>6 DEF OwnedInv
    <2>10. size \in Nat
        BY ReplicasAssumption
    <2>11. Cardinality(new) <= size
        BY <2>2, <2>4, <2>5, <2>8, <2>9, <2>10
    <2>12. pc' = "check"
        BY <1>1 DEF CreateMachine, Step
    <2> QED  BY <2>11, <2>12 DEF OwnedInv, OwnedBounded
<1>2. CASE Decide
    <2>1. OwnedMachines(mach') = OwnedMachines(mach) /\ OwnedBounded'
        BY <1>2, DecideEffect DEF worldVars, OwnedInv, OwnedBounded
    <2>2. CASE pc' \in {"gate", "create"}
        <3>1. Owned' = Owned
            BY <1>2, <2>2, ListingKept DEF Owned
        <3>2. pc \in {"decide", "gate"}
            BY <1>2, DecideEffect
        <3> QED  BY <1>2, <2>1, <2>2, <3>1, <3>2, CreateWhenShort DEF OwnedInv
    <2>3. CASE pc' \notin {"gate", "create"}
        BY <1>2, <2>1, <2>3, DecideEffect DEF OwnedInv
    <2> QED  BY <2>2, <2>3
<1>3. CASE Reconcile
    <2>1. OwnedMachines(mach') = OwnedMachines(mach) /\ OwnedBounded'
        BY <1>3 DEF Reconcile, worldVars, OwnedInv, OwnedBounded
    <2>2. pc' \in {"addFinalizer", "delete"} \/ (pc' = "decide" /\ plane' = mach')
        BY <1>3 DEF Reconcile, UncachedList, worldVars
    <2> QED  BY <2>1, <2>2 DEF OwnedInv, Owned
<1>4. CASE Next /\ ~CreateMachine /\ ~Decide /\ ~Reconcile
    <2>1. OwnedMachines(mach') \subseteq OwnedMachines(mach)
        BY <1>4, NoNewOwned
    <2>2. pc' \notin {"decide", "gate", "create"} \/ UNCHANGED <<pc, plane>>
        <3>1. CASE WorldNext
            BY <3>1 DEF WorldNext, recVars
        <3>2. CASE Act
            BY <3>2, ActEffect
        <3>3. CASE Report
            <4>1. CASE CheckOwnedMachines
                BY <4>1 DEF CheckOwnedMachines
            <4>2. CASE CheckFails \/ PatchEtcdCluster
                BY <4>2, PatchEffect DEF CheckFails, Return
            <4> QED  BY <3>3, <4>1, <4>2, StatusEffect DEF Report
        <3>4. CASE AddFinalizer \/ Restart
            BY <3>4 DEF AddFinalizer, Restart, ProcessLost, Return
        <3> QED
            BY <1>4, <3>1, <3>2, <3>3, <3>4 DEF Next, ReconcilerNext, Working
    <2> QED  BY <2>1, <2>2, FewerOwned
<1>5. CASE UNCHANGED vars
    <2>1. UNCHANGED <<mach, pc, plane>>
        BY <1>5 DEF vars, worldVars, recVars
    <2> QED  BY <2>1, FewerOwned
<1> QED  BY <1>1, <1>2, <1>3, <1>4, <1>5

\* The cluster never owns more machines than the largest size that was asked
\* for, or two, whatever is changed, lost or stale.
THEOREM NeverTooMany == Spec => []OwnedBounded
<1>1. Spec => [](TypeOK /\ OwnedInv)
    BY TypeInit, TypeNext, OwnedInit, OwnedNext, PTL DEF Spec
<1>2. OwnedInv => OwnedBounded
    BY DEF OwnedInv
<1> QED  BY <1>1, <1>2, PTL

-----------------------------------------------------------------------------
(* The reconciler implements MachineLifecycle: each of its steps is one of   *)
(* the abstract steps, or changes neither the phase nor a life.              *)

AbstractStep == [Lifecycle!LifecycleNext]_(Lifecycle!lifecycleVars)

\* The instance counts machines as the reconciler does.
LEMMA SameCardinality ==
    ASSUME NEW S PROVE Lifecycle!Cardinality(S) = Cardinality(S)
BY DEF Lifecycle!Cardinality, Cardinality

LEMMA LifeType ==
    ASSUME TypeOK
    PROVE  /\ LifeOf \in [Ids -> {"none", "owned", "disowned", "deleting", "gone"}]
           /\ \A m \in Ids : LifeOf[m] = "owned" => m \in OwnedMachines(mach)
           /\ \A m \in Ids : LifeOf[m] \in {"owned", "disowned", "deleting"}
                            <=> m \in EtcdClusterMachines(mach)
<1>1. \A m \in Ids : /\ mach[m].st \in {"none", "live", "deleting", "gone"}
                     /\ mach[m].owned \in BOOLEAN
    BY DEF TypeOK, WorldTypeOK, MachineType
<1> QED  BY <1>1 DEF LifeOf, Life, OwnedMachines, EtcdClusterMachines

\* Machines keep their lives while what Life looks at stays the same.
LEMMA SameLives ==
    ASSUME \A m \in Ids : mach'[m].st = mach[m].st /\ mach'[m].owned = mach[m].owned
    PROVE  LifeOf' = LifeOf
BY DEF LifeOf, Life

LEMMA LifeStutters ==
    ASSUME Phase' = Phase, LifeOf' = LifeOf PROVE AbstractStep
BY DEF AbstractStep, Lifecycle!lifecycleVars

\* One machine moves on.
LEMMA OneLife ==
    ASSUME NEW k \in Ids, UNCHANGED ec,
           \A m \in Ids \ {k} : mach'[m].st = mach[m].st /\ mach'[m].owned = mach[m].owned,
           \/ Life(k) \in {"owned", "disowned"} /\ Life(k)' = "deleting"
           \/ Life(k) = "deleting" /\ Life(k)' = "gone"
           \/ Life(k) = "owned" /\ Life(k)' = "disowned" /\ ec.exists
    PROVE  AbstractStep
<1>1. LifeOf' = [LifeOf EXCEPT ![k] = Life(k)']
    BY DEF LifeOf, Life
<1>2. LifeOf[k] = Life(k) /\ Phase' = Phase /\ (ec.exists => Phase # "gone")
    BY DEF LifeOf, Phase
<1>3. CASE Life(k) \in {"owned", "disowned"} /\ Life(k)' = "deleting"
    <2>1. Lifecycle!BeginDeletion(k)
        BY <1>1, <1>2, <1>3 DEF Lifecycle!BeginDeletion, Lifecycle!Move
    <2> QED  BY <2>1 DEF AbstractStep, Lifecycle!LifecycleNext
<1>4. CASE Life(k) = "deleting" /\ Life(k)' = "gone"
    <2>1. Lifecycle!Finish(k)
        BY <1>1, <1>2, <1>4 DEF Lifecycle!Finish, Lifecycle!Move
    <2> QED  BY <2>1 DEF AbstractStep, Lifecycle!LifecycleNext
<1>5. CASE Life(k) = "owned" /\ Life(k)' = "disowned" /\ ec.exists
    <2>1. Lifecycle!Release(k)
        BY <1>1, <1>2, <1>5 DEF Lifecycle!Release, Lifecycle!Move
    <2> QED  BY <2>1 DEF AbstractStep, Lifecycle!LifecycleNext
<1> QED  BY <1>3, <1>4, <1>5

\* The object may go when FinalizerInv holds before and after.
LEMMA PhaseMoves ==
    ASSUME TypeOK, FinalizerInv', UNCHANGED mach,
           \/ ec.exists /\ ec'.exists /\ (ec'.del = ec.del)
           \/ ec.exists /\ ~ec.del /\ ec'.del
           \/ ec.exists /\ ec.del /\ ~ec'.exists
    PROVE  AbstractStep
<1>1. LifeOf' = LifeOf
    BY SameLives
<1>2. ~ec'.exists => Lifecycle!Empty
    BY <1>1, LifeType DEF FinalizerInv, Held, Lifecycle!Empty, Lifecycle!InState
<1>3. CASE ec.exists /\ ec'.exists /\ (ec'.del = ec.del)
    BY <1>1, <1>3, LifeStutters DEF Phase
<1>4. CASE ec.exists /\ ~ec.del /\ ec'.del
    <2>1. Lifecycle!RequestDeletion
        BY <1>1, <1>2, <1>4 DEF Lifecycle!RequestDeletion, Phase
    <2> QED  BY <2>1 DEF AbstractStep, Lifecycle!LifecycleNext
<1>5. CASE ec.exists /\ ec.del /\ ~ec'.exists
    <2>1. Lifecycle!Vanish
        BY <1>1, <1>2, <1>5 DEF Lifecycle!Vanish, Phase
    <2> QED  BY <2>1 DEF AbstractStep, Lifecycle!LifecycleNext
<1> QED  BY <1>3, <1>4, <1>5

\* Client.Delete starts a deletion, or finds it started or over.
LEMMA DeletionMaps ==
    ASSUME TypeOK, NEW k \in Ids, mach' = Deleted(k), UNCHANGED ec
    PROVE  AbstractStep
<1>0. mach \in [Ids -> MachineType]
    BY DEF TypeOK, WorldTypeOK
<1>1. CASE mach[k].st = "live"
    <2>1. mach' = [mach EXCEPT ![k].st = "deleting"]
        BY <1>1 DEF Deleted
    <2>2. /\ mach'[k].st = "deleting"
          /\ \A m \in Ids \ {k} : mach'[m] = mach[m]
        BY <1>0, <2>1 DEF MachineType
    <2>3. Life(k) \in {"owned", "disowned"} /\ Life(k)' = "deleting"
        BY <1>1, <2>2 DEF Life
    <2> QED  BY <2>2, <2>3, OneLife
<1>2. CASE mach[k].st # "live"
    BY <1>2, SameLives, LifeStutters DEF Deleted, Phase
<1> QED  BY <1>1, <1>2

LEMMA LosingMaps ==
    ASSUME TypeOK, NEW k \in Ids, LoseMachine(k) PROVE AbstractStep
BY DeletionMaps DEF LoseMachine, Deleted

\* A reconcile creates for a cluster that is there and short of machines.
LEMMA CreationMaps ==
    ASSUME TypeOK, FinalizerInv, OwnedInv, CreateMachine PROVE AbstractStep
<1> DEFINE k == Min(FreeIds)
<1>1. /\ k \in Ids /\ LifeOf[k] = "none"
      /\ LifeOf' = [LifeOf EXCEPT ![k] = "owned"]
    BY CreationEffect DEF LifeOf, Life
<1>2. pc = "create" /\ Phase' = Phase /\ Phase # "gone"
    BY DEF CreateMachine, FinalizerInv, Held, Phase
<1>3. Lifecycle!InState("owned") \subseteq OwnedMachines(mach)
    BY LifeType DEF Lifecycle!InState
<1>4. Lifecycle!InState("owned") \subseteq Owned /\ Owned \in SUBSET Ids
    BY <1>2, <1>3, OwnedAreIds DEF OwnedInv, Owned
<1>5. PICK size \in Replicas \cup {2} : Cardinality(Owned) < size
    BY <1>2 DEF OwnedInv
<1>6. Cardinality(Lifecycle!InState("owned")) < size
    <2>1. size \in Nat
        BY ReplicasAssumption
    <2> QED  BY <1>4, <1>5, <2>1, FewerMachines
<1>7. Lifecycle!Create(k)
    BY <1>1, <1>2, <1>6, SameCardinality DEF Lifecycle!Create, Lifecycle!Move
<1> QED  BY <1>1, <1>7 DEF AbstractStep, Lifecycle!LifecycleNext

LEMMA LifecycleInitial == Init => Lifecycle!LifecycleInit
<1> SUFFICES ASSUME Init PROVE Lifecycle!LifecycleInit
    OBVIOUS
<1>1. Phase = "present"
    BY DEF Init, WorldInit, NewCluster, Phase
<1>2. \A m \in Ids : LifeOf[m] = "none"
    BY DEF Init, WorldInit, Unborn, LifeOf, Life
<1> QED  BY <1>1, <1>2 DEF Lifecycle!LifecycleInit, LifeOf

\* A call of the patch: the object stays as it is, or goes with its finalizer.
LEMMA PatchMaps ==
    ASSUME TypeOK, FinalizerInv', AddFinalizer \/ PatchEtcdCluster PROVE AbstractStep
<1>1. /\ UNCHANGED mach /\ ec'.del = ec.del
      /\ ~ec.del => ec'.exists = ec.exists
      /\ ec'.exists => ec.exists
    BY PatchEffect DEF SameSpec
<1>2. CASE ~ec.exists
    BY <1>1, <1>2, SameLives, LifeStutters DEF Phase
<1>3. CASE ec.exists
    BY <1>1, <1>3, PhaseMoves
<1> QED  BY <1>2, <1>3

LEMMA WorldMaps ==
    ASSUME TypeOK, FinalizerInv', WorldNext PROVE AbstractStep
<1>0. ec \in ClusterType /\ mach \in [Ids -> MachineType]
    BY DEF TypeOK, WorldTypeOK
<1>1. ASSUME ec'.exists = ec.exists, ec'.del = ec.del,
             \A m \in Ids : mach'[m].st = mach[m].st /\ mach'[m].owned = mach[m].owned
      PROVE  AbstractStep
    BY <1>1, SameLives, LifeStutters DEF Phase
<1>2. ASSUME NEW m \in Ids, AssignAddress(m) PROVE AbstractStep
    BY <1>0, <1>1, <1>2 DEF AssignAddress, MachineType
<1>3. ASSUME NEW m \in Ids, InitMember(m) PROVE AbstractStep
    BY <1>0, <1>1, <1>3 DEF InitMember, MachineType, ClusterType
<1>4. ASSUME NEW m \in Ids, JoinMember(m) PROVE AbstractStep
    BY <1>0, <1>1, <1>4 DEF JoinMember, MachineType
<1>5. ASSUME NEW m \in Ids, FinishMachineDeletion(m) PROVE AbstractStep
    <2>1. Life(m) = "deleting" /\ Life(m)' = "gone"
        BY <1>0, <1>5 DEF FinishMachineDeletion, Removed, Unborn, Life
    <2> QED  BY <1>0, <1>5, <2>1, OneLife DEF FinishMachineDeletion
<1>6. ASSUME NEW r \in Replicas, Scale(r) PROVE AbstractStep
    BY <1>0, <1>1, <1>6 DEF Scale, ClusterType
<1>7. ASSUME NEW v \in Versions, Upgrade(v) PROVE AbstractStep
    BY <1>0, <1>1, <1>7 DEF Upgrade, ClusterType
<1>8. CASE CompleteControlPlaneUpgrade
    BY <1>0, <1>1, <1>8 DEF CompleteControlPlaneUpgrade, ClusterType
<1>9. CASE DeleteCluster
    BY <1>0, <1>9, PhaseMoves DEF DeleteCluster, ClusterType
<1>10. ASSUME NEW m \in Ids, AnnotateMachine(m) PROVE AbstractStep
    BY <1>0, <1>1, <1>10 DEF AnnotateMachine, MachineType
<1>11. ASSUME NEW m \in Ids, DeleteMachineByHand(m) PROVE AbstractStep
    BY <1>11, LosingMaps DEF DeleteMachineByHand
<1>12. CASE SyncCluster \/ SyncMachines
    BY <1>1, <1>12 DEF SyncCluster, SyncMachines
<1> QED
    BY <1>2, <1>3, <1>4, <1>5, <1>6, <1>7, <1>8, <1>9, <1>10, <1>11, <1>12
    DEF WorldNext, InfraNext, UserNext

\* The reconciler at work.
LEMMA WorkingMaps ==
    ASSUME TypeOK, FinalizerInv, FinalizerInv', OwnedInv, Working PROVE AbstractStep
<1>0. /\ mach \in [Ids -> MachineType] /\ plane \in [Ids -> MachineType]
      /\ todo \subseteq Ids
    BY DEF TypeOK, WorldTypeOK
<1>1. CASE UNCHANGED <<ec, mach>>
    BY <1>1, SameLives, LifeStutters DEF Phase
<1>2. CASE Disown
    <2>1. PICK k \in Ids : k = target
        BY <1>2, UpdateWrites DEF Disown
    <2>2. /\ mach' = [mach EXCEPT ![k] = [mach[k] EXCEPT !.owned = FALSE]]
          /\ k \in EtcdClusterMachines(mach) /\ UNCHANGED ec
        BY <1>2, <2>1, UpdateWrites DEF Disown, Unchanged
    <2>3. /\ mach'[k].st = mach[k].st /\ ~mach'[k].owned
          /\ \A m \in Ids \ {k} : mach'[m] = mach[m]
        BY <1>0, <2>2 DEF MachineType
    <2>4. CASE mach[k].st = "live" /\ mach[k].owned
        <3>1. Life(k) = "owned" /\ Life(k)' = "disowned"
            BY <2>3, <2>4 DEF Life
        <3>2. ec.exists
            BY <2>2 DEF FinalizerInv, Held
        <3> QED  BY <2>2, <2>3, <3>1, <3>2, OneLife
    <2>5. CASE ~(mach[k].st = "live" /\ mach[k].owned)
        <3>1. LifeOf' = LifeOf
            BY <2>3, <2>5 DEF LifeOf, Life
        <3> QED  BY <2>2, <3>1, LifeStutters DEF Phase
    <2> QED  BY <2>4, <2>5
<1>3. CASE DeleteMachine
    BY <1>3, DeletionMaps DEF DeleteMachine, TypeOK
<1>4. CASE DeleteEach
    BY <1>0, <1>1, <1>4, DeletionMaps DEF DeleteEach
<1>5. CASE CheckOwnedMachines
    <2>1. LifeOf' = LifeOf
        BY <1>5, LabelKeepsMachines, SameLives
    <2> QED  BY <1>5, <2>1, LifeStutters DEF CheckOwnedMachines, Phase
<1>6. CASE AddFinalizer \/ PatchEtcdCluster
    BY <1>6, PatchMaps
<1>7. CASE Act
    BY <1>1, <1>2, <1>3, <1>4, <1>7, CreationMaps
    DEF Act, CreateFails, DisownFails, MemberList, MemberRemove, RemovalFails,
        ReconcileDelete, Continue, worldVars
<1>8. CASE Report
    BY <1>1, <1>5, <1>6, <1>8, StatusEffect DEF Report, CheckFails, worldVars
<1>9. CASE Decide \/ Reconcile
    BY <1>1, <1>9, DecideEffect DEF Reconcile, worldVars
<1> QED  BY <1>6, <1>7, <1>8, <1>9 DEF Working

LEMMA LossMaps == ProcessLost => AbstractStep
BY SameLives, LifeStutters DEF ProcessLost, Phase

LEMMA LifecycleStep ==
    /\ TypeOK /\ FinalizerInv /\ OwnedInv
    /\ [Next]_vars
    /\ FinalizerInv'
    => AbstractStep
<1>1. UNCHANGED vars => AbstractStep
    BY SameLives, LifeStutters DEF vars, worldVars, Phase
<1> QED
    BY <1>1, WorldMaps, WorkingMaps, LossMaps DEF Next, ReconcilerNext, Restart

\* Whatever is stale, lost or killed, machines live their lives one way only,
\* and the cluster does not go before them.
THEOREM LifecycleImplemented == Spec => ImplementsLifecycle
<1>1. Spec => [](TypeOK /\ FinalizerInv /\ OwnedInv)
    BY TypeInit, TypeNext, FinalizerInit, FinalizerNext, OwnedInit, OwnedNext, PTL
    DEF Spec
<1> QED
    BY <1>1, LifecycleInitial, LifecycleStep, PTL
    DEF Spec, ImplementsLifecycle, Lifecycle!LifecycleSpec, AbstractStep
=============================================================================
