----------------------------- MODULE DisownedProofs -----------------------------
(***************************************************************************)
(* Disowned machines wait for the control plane: DisownedKept for every    *)
(* number of machines and replicas and however old the copies of the       *)
(* machines are, as long as the user waits for one upgrade to be over      *)
(* before the next, no call fails, no copy of the object is old, and the   *)
(* controller is killed only beside a cluster of one replica               *)
(* (SerialWorld).  With three replicas a kill between the calls of a patch *)
(* is enough to break it.                                                  *)
(***************************************************************************)
EXTENDS RolloutProofs

SerialWorld ==
    /\ UserMode = "serial" /\ ~StaleCluster /\ ~Faults
    /\ Crashes => Replicas \subseteq {1}
    /\ UserOps \subseteq {"upgrade", "controlplane", "delete"}

(***************************************************************************)
(* Why.  The control plane's annotation is set only while no machine needs *)
(* a rollout: the reconcile that disowns the first machine takes Ready     *)
(* away, so it is gone when a later one says that there are outdated       *)
(* machines; and a single replica leaves no second machine to disown.  So  *)
(* no machine is disowned while the annotation is there, and it goes       *)
(* before the user starts the next upgrade.                                *)
(***************************************************************************)
DisownedMachines == EtcdClusterMachines(mach) \ OwnedMachines(mach)
NeedNow == MachinesNeedingRollout(mach, ec.ver)
UpToDateNow == {m \in EtcdClusterMachines(mach) : mach[m].ver = ec.ver}

Removing == {"remove", "memberRemove", "deleteMachine"}
Choosing == {"decide", "gate", "create", "disown"}
Decided == PcType \ {"idle", "addFinalizer", "decide"}
Patching == {"patch", "patchObject", "patchStatus"}

\* Whatever happens, a reconcile that removes machines has read that the
\* control plane is done with those that are disowned.
ReleasedInv ==
    /\ pc \in Choosing => Owned \cap EtcdClusterMachines(mach) \subseteq OwnedMachines(mach)
    /\ pc = "decide" /\ cur.cpDone => All \ Owned \subseteq released
    /\ pc \in Removing =>
        (todo \cup {target}) \cap DisownedMachines \subseteq released

\* The annotation, Ready and the conditions of the object.
AnnotationInv ==
    /\ ec.cpDone => DisownedMachines \subseteq released /\ NeedNow = {}
    /\ ec.ready /\ ec.noOutdated = "False" => NeedNow = {}
    /\ ec.noOutdated = "False" => ec.cpDone \/ DisownedMachines # {}
    /\ ~ec.cpDone => \A m \in DisownedMachines : mach[m].st = "live"
    /\ ec.specUpToDate # "MaxReached"

\* Between two reconciles a cluster that is in the middle of a rollout is not
\* Ready; one with a single replica never is in the middle.
MiddleInv ==
    /\ pc \notin Decided /\ ec.ready /\ DisownedMachines # {} => NeedNow = {}
    /\ ec.replicas = 1 =>
        /\ \A a, b \in NeedNow : a = b
        /\ DisownedMachines # {} => NeedNow = {}

\* The machines: those of the newest spec are all owned, and not too many.
FleetInv ==
    /\ ec.exists /\ ec.replicas > 0
    /\ \A m \in Ids : ~mach[m].ann
    /\ \A m \in OwnedMachines(mach) : mach[m].st = "live"
    /\ UpToDateNow \subseteq OwnedMachines(mach)
    /\ Cardinality(UpToDateNow) <= ec.replicas

\* The copy of the object in the hands of a reconcile; nobody else writes the
\* conditions, and only the reconcile takes the annotation away.
CopyInv ==
    pc # "idle" =>
        /\ pc \notin {"delete", "deleteAll"}
        /\ cur.replicas = ec.replicas
        /\ before.ready = ec.ready /\ before.noOutdated = ec.noOutdated
        /\ before.cpDone => ec.cpDone
        /\ cur.cpDone => before.cpDone
        /\ cur.specUpToDate # "MaxReached"
        /\ pc \in {"addFinalizer", "decide"} =>
            /\ cur.cpDone = before.cpDone /\ cur.ready = before.ready
            /\ cur.noOutdated = before.noOutdated

\* The listing on which it decides.
DecisionInv ==
    /\ pc \in Choosing =>
        /\ Owned = OwnedMachines(mach) /\ EtcdClusterMachines(mach) \subseteq All
        /\ \A m \in Owned : /\ plane[m].ver = mach[m].ver
                            /\ plane[m].st = "live" /\ ~plane[m].ann
    /\ pc = "decide" =>
        /\ \A m \in All \ Owned : plane[m].ver # cur.ver
        /\ cur.noOutdated = "False" \/ Owned # All => ec.cpDone \/ DisownedMachines # {}
        /\ ~cur.cpDone => \A m \in DisownedMachines : mach[m].st = "live"
    /\ pc = "gate" => NeedNow # {}
    /\ pc = "disown" => target \in NeedNow /\ cur.specUpToDate = "Rolling"
    /\ pc = "create" =>
        /\ Cardinality(UpToDateNow) < ec.replicas
        /\ NeedNow # {} \/ Cardinality(OwnedMachines(mach)) < ec.replicas
    /\ pc \in Removing =>
        /\ ec.cpDone /\ cur.cpDone
        /\ (todo \cup {target}) \cap OwnedMachines(mach) = {}

\* What it has decided: a rollout in the middle is marked, and then not Ready.
VerdictInv ==
    pc \in Decided =>
        /\ cur.noOutdated = "False" =>
            /\ cur.cpDone = before.cpDone
            /\ ec.cpDone \/ DisownedMachines # {}
            /\ before.ready => NeedNow = {}
        /\ cur.specUpToDate # "Rolling" /\ DisownedMachines # {} => NeedNow = {}
        /\ ~cur.cpDone => \A m \in DisownedMachines : mach[m].st = "live"
        /\ pc \in Patching /\ cur.specUpToDate = "Rolling" => ~cur.ready

\* A reconcile that began before the user changed the spec finds nothing to do.
OldCopyInv ==
    pc # "idle" /\ cur.ver # ec.ver =>
        /\ pc \notin Removing \cup {"gate", "create", "disown"}
        /\ \A m \in EtcdClusterMachines(mach) : mach[m].owned /\ mach[m].ver = cur.ver
        /\ ~ec.cpDone /\ ec.noOutdated # "False" /\ cur.noOutdated # "False"
        /\ pc = "decide" => Owned = All /\ Cardinality(Owned) = cur.replicas

RolloutInv ==
    /\ AnnotationInv /\ FleetInv /\ MiddleInv
    /\ CopyInv /\ DecisionInv /\ VerdictInv /\ OldCopyInv

KeptInv == ReleasedInv /\ (~ec.del => RolloutInv)

-----------------------------------------------------------------------------
(* Machines that are disowned, outdated or up to date                       *)

LEMMA FleetSets ==
    /\ EtcdClusterMachines(mach) \subseteq Ids
    /\ OwnedMachines(mach) = {m \in EtcdClusterMachines(mach) : mach[m].owned}
    /\ DisownedMachines = {m \in EtcdClusterMachines(mach) : ~mach[m].owned}
    /\ NeedNow = {m \in OwnedMachines(mach) : mach[m].st # "deleting" /\ mach[m].ver # ec.ver}
    /\ UpToDateNow = {m \in EtcdClusterMachines(mach) : mach[m].ver = ec.ver}
BY DEF DisownedMachines, NeedNow, UpToDateNow, OwnedMachines, EtcdClusterMachines,
       MachinesNeedingRollout, HasDeletionTimestamp, MatchesEtcdadmClusterConfiguration

\* Etcd starts, labels are set: nothing that the invariant speaks of.
FleetKept ==
    \A m \in Ids : /\ mach'[m].st = mach[m].st /\ mach'[m].owned = mach[m].owned
                   /\ mach'[m].ver = mach[m].ver /\ mach'[m].ann = mach[m].ann

LEMMA SameFleet ==
    ASSUME FleetKept, ec'.ver = ec.ver
    PROVE  /\ EtcdClusterMachines(mach)' = EtcdClusterMachines(mach)
           /\ OwnedMachines(mach)' = OwnedMachines(mach)
           /\ DisownedMachines' = DisownedMachines
           /\ NeedNow' = NeedNow /\ UpToDateNow' = UpToDateNow
BY DEF FleetKept, DisownedMachines, NeedNow, UpToDateNow, OwnedMachines,
       EtcdClusterMachines, MachinesNeedingRollout, HasDeletionTimestamp,
       MatchesEtcdadmClusterConfiguration

LEMMA BootKeepsFleet ==
    ASSUME mach \in [Ids -> MachineType], NEW m \in Ids,
           \/ mach' = [mach EXCEPT ![m].boot = "addr"]
           \/ mach' = [mach EXCEPT ![m].boot = "joined"]
    PROVE  FleetKept
<1> DEFINE Same(r, s) == /\ s.st = r.st /\ s.owned = r.owned
                         /\ s.ver = r.ver /\ s.ann = r.ann
<1>1. \A r \in MachineType : /\ Same(r, [r EXCEPT !.boot = "addr"])
                             /\ Same(r, [r EXCEPT !.boot = "joined"])
    BY DEF MachineType
<1>2. \/ mach' = [mach EXCEPT ![m] = [mach[m] EXCEPT !.boot = "addr"]]
      \/ mach' = [mach EXCEPT ![m] = [mach[m] EXCEPT !.boot = "joined"]]
    OBVIOUS
<1>3. Same(mach[m], mach'[m]) /\ \A k \in Ids \ {m} : mach'[k] = mach[k]
    <2> HIDE DEF Same
    <2> QED  BY <1>1, <1>2
<1> QED  BY <1>3 DEF FleetKept

\* What the invariant knows of the object between two reconciles.
ObjectKept ==
    UNCHANGED <<ec.exists, ec.del, ec.replicas, ec.ver, ec.ready, ec.noOutdated,
                ec.cpDone, ec.specUpToDate>>

LEMMA KeptFleet ==
    ASSUME AnnotationInv, FleetInv, FleetKept, ObjectKept, released' = released
    PROVE  AnnotationInv' /\ FleetInv'
<1>1. AnnotationInv'
    <2>1. \A m \in DisownedMachines : mach'[m].st = mach[m].st
        BY FleetSets DEF FleetKept
    <2> QED  BY <2>1, SameFleet DEF AnnotationInv, ObjectKept
<1>2. FleetInv'
    <2>1. \A m \in OwnedMachines(mach) : mach'[m].st = mach[m].st
        BY FleetSets DEF FleetKept
    <2> QED  BY <2>1, SameFleet DEF FleetInv, FleetKept, ObjectKept
<1> QED  BY <1>1, <1>2

\* Nothing happens that the invariant speaks of.
LEMMA RolloutStutters ==
    ASSUME RolloutInv, FleetKept, ObjectKept, released' = released, UNCHANGED recVars
    PROVE  RolloutInv'
<1>0. /\ UNCHANGED <<pc, before, cur, plane, todo, target>>
      /\ Owned' = Owned /\ All' = All
    BY DEF recVars, Owned, All
<1>1. /\ \A m \in DisownedMachines \cup OwnedMachines(mach) :
            mach'[m].st = mach[m].st /\ mach'[m].ver = mach[m].ver
      /\ \A m \in EtcdClusterMachines(mach) :
            mach'[m].owned = mach[m].owned /\ mach'[m].ver = mach[m].ver
    BY FleetSets DEF FleetKept
<1>2. /\ EtcdClusterMachines(mach)' = EtcdClusterMachines(mach)
      /\ OwnedMachines(mach)' = OwnedMachines(mach)
      /\ DisownedMachines' = DisownedMachines
      /\ NeedNow' = NeedNow /\ UpToDateNow' = UpToDateNow
    BY SameFleet DEF ObjectKept
<1>3. AnnotationInv' /\ FleetInv'
    BY KeptFleet DEF RolloutInv
<1>4. CopyInv'
    BY <1>0 DEF RolloutInv, CopyInv, ObjectKept
<1>5. DecisionInv'
    BY <1>0, <1>1, <1>2 DEF RolloutInv, DecisionInv, ObjectKept, Choosing, Removing
<1>6. VerdictInv'
    BY <1>0, <1>1, <1>2 DEF RolloutInv, VerdictInv, ObjectKept
<1>7. OldCopyInv'
    BY <1>0, <1>1, <1>2 DEF RolloutInv, OldCopyInv, ObjectKept
<1>8. MiddleInv'
    BY <1>0, <1>2 DEF RolloutInv, MiddleInv, ObjectKept
<1> QED  BY <1>3, <1>4, <1>5, <1>6, <1>7, <1>8 DEF RolloutInv

-----------------------------------------------------------------------------
(* What is about to be removed has been released                            *)

\* The world gives no machine another owner.
LEMMA WorldKeepsOwners ==
    ASSUME TypeOK, WorldNext
    PROVE  /\ \A m \in EtcdClusterMachines(mach') :
                m \in EtcdClusterMachines(mach) /\ mach'[m].owned = mach[m].owned
           /\ released \subseteq released'
           /\ UNCHANGED recVars
<1> DEFINE Effect == /\ \A m \in Ids : \/ /\ mach'[m].st = mach[m].st \/ mach[m].st = "live"
                                          /\ mach'[m].owned = mach[m].owned
                                       \/ mach'[m].st = "gone"
                     /\ released \subseteq released'
<1>0. mach \in [Ids -> MachineType] /\ \A m \in Ids : mach[m] \in MachineType
    BY DEF TypeOK, WorldTypeOK
<1>1. \A r \in MachineType :
        /\ [r EXCEPT !.boot = "addr"].st = r.st /\ [r EXCEPT !.boot = "addr"].owned = r.owned
        /\ [r EXCEPT !.boot = "joined"].st = r.st /\ [r EXCEPT !.boot = "joined"].owned = r.owned
        /\ [r EXCEPT !.ann = TRUE].st = r.st /\ [r EXCEPT !.ann = TRUE].owned = r.owned
        /\ [r EXCEPT !.st = "deleting"].owned = r.owned
    BY DEF MachineType
<1>2. ASSUME NEW m \in Ids, AssignAddress(m) \/ InitMember(m) \/ JoinMember(m) PROVE Effect
    <2>1. \/ mach' = [mach EXCEPT ![m] = [mach[m] EXCEPT !.boot = "addr"]]
          \/ mach' = [mach EXCEPT ![m] = [mach[m] EXCEPT !.boot = "joined"]]
        BY <1>2 DEF AssignAddress, InitMember, JoinMember
    <2> QED  BY <1>0, <1>1, <1>2, <2>1 DEF AssignAddress, InitMember, JoinMember
<1>3. ASSUME NEW m \in Ids, FinishMachineDeletion(m) PROVE Effect
    BY <1>0, <1>3 DEF FinishMachineDeletion, Removed, Unborn
<1>4. ASSUME NEW m \in Ids, AnnotateMachine(m) PROVE Effect
    <2>1. mach' = [mach EXCEPT ![m] = [mach[m] EXCEPT !.ann = TRUE]] /\ released' = released
        BY <1>4 DEF AnnotateMachine
    <2> QED  BY <1>0, <1>1, <2>1
<1>5. ASSUME NEW m \in Ids, LoseMachine(m) PROVE Effect
    <2>1. /\ mach' = [mach EXCEPT ![m] = [mach[m] EXCEPT !.st = "deleting"]]
          /\ released' = released /\ mach[m].st = "live"
        BY <1>5 DEF LoseMachine
    <2> QED  BY <1>0, <1>1, <2>1
<1>6. ASSUME mach' = mach, released \subseteq released' PROVE Effect
    BY <1>6
<1>7. ASSUME \/ \E r \in Replicas : Scale(r)
             \/ \E v \in Versions : Upgrade(v)
             \/ CompleteControlPlaneUpgrade \/ DeleteCluster
             \/ SyncCluster \/ SyncMachines
      PROVE  Effect
    <2>1. mach' = mach /\ released \subseteq released'
        BY <1>7 DEF Scale, Upgrade, CompleteControlPlaneUpgrade, DeleteCluster,
                    SyncCluster, SyncMachines
    <2> QED  BY <1>6, <2>1
<1>8. Effect
    BY <1>2, <1>3, <1>4, <1>5, <1>7
    DEF WorldNext, InfraNext, UserNext, DeleteMachineByHand
<1> QED  BY <1>8 DEF WorldNext, EtcdClusterMachines

\* Decisions on the listing of a reconcile.
LEMMA DecideKeepsReleased ==
    ASSUME TypeOK, ReleasedInv, Decide
    PROVE  ReleasedInv'
<1>0. /\ UNCHANGED <<mach, released, before>> /\ pc \in {"decide", "gate"}
      /\ pc' \in {"create", "disown", "remove", "gate", "check"}
      /\ pc' # "check" => plane' = plane
      /\ Owned \cap EtcdClusterMachines(mach) \subseteq OwnedMachines(mach)
    BY DecideEffect, ListingKept DEF worldVars, ReleasedInv, Choosing
<1>1. Owned' = Owned \/ pc' = "check"
    BY <1>0 DEF Owned
<1>2. CASE pc' # "remove"
    BY <1>0, <1>1, <1>2 DEF ReleasedInv, Choosing, Removing, DisownedMachines
<1>3. CASE pc' = "remove"
    <2>0. \A e : ~Continue("gate", e) /\ ~Continue("create", e)
                 /\ ~Continue("disown", e) /\ ~Continue("check", e)
        BY <1>3 DEF Continue
    <2>1. RemoveOutdatedMembers \/ ScaleDown
        BY <2>0
        DEF Decide, ReconcileFails, HoldAtMaximum, RolloutWaits, RolloutChecksNewest,
            RolloutStarts, GatePasses, GateFails, upgradeEtcdCluster, CertRenewalFails,
            InitializeCluster, AwaitInitialization, ScaleUp, NothingToDo
    <2>2. pc = "decide" /\ target' = 0 /\ 0 \notin Ids
        BY <2>1, MaxMachinesAssumption
        DEF RemoveOutdatedMembers, ScaleDown, Sized, NoRollout, NoRemoval, TypeOK, Ids
    <2>3. todo' \cap DisownedMachines \subseteq released
        <3>1. CASE RemoveOutdatedMembers
            BY <3>1 DEF RemoveOutdatedMembers, ReleasedInv
        <3>2. CASE ScaleDown
            <4>1. todo' \subseteq Owned
                <5>1. Owned # {}
                    BY <3>2 DEF ScaleDown, Sized
                <5> QED  BY <3>2, <5>1, SelectsOwned DEF ScaleDown, Owned
            <4> QED  BY <1>0, <4>1 DEF DisownedMachines
        <3> QED  BY <2>1, <3>1, <3>2
    <2>4. DisownedMachines \subseteq Ids /\ DisownedMachines' = DisownedMachines
        BY <1>0, FleetSets DEF DisownedMachines
    <2> QED
        BY <1>0, <1>3, <2>2, <2>3, <2>4 DEF ReleasedInv, Choosing, Removing
<1> QED  BY <1>2, <1>3

\* A machine that a reconcile or the infrastructure deletes is as owned as before.
LEMMA DeletionKeepsOwners ==
    ASSUME TypeOK, NEW m \in Ids, mach' = Deleted(m)
    PROVE  /\ EtcdClusterMachines(mach)' = EtcdClusterMachines(mach)
           /\ OwnedMachines(mach)' = OwnedMachines(mach)
           /\ \A k \in Ids : /\ mach'[k].owned = mach[k].owned /\ mach'[k].ver = mach[k].ver
                             /\ mach'[k].ann = mach[k].ann
                             /\ k # m => mach'[k] = mach[k]
<1>1. mach \in [Ids -> MachineType] /\ \A k \in Ids : mach[k] \in MachineType
    BY DEF TypeOK, WorldTypeOK
<1>2. \A r \in MachineType :
        /\ [r EXCEPT !.st = "deleting"].owned = r.owned
        /\ [r EXCEPT !.st = "deleting"].ver = r.ver
        /\ [r EXCEPT !.st = "deleting"].ann = r.ann
        /\ [r EXCEPT !.st = "deleting"].st = "deleting"
    BY DEF MachineType
<1>3. \/ mach' = mach
      \/ mach[m].st = "live" /\ mach' = [mach EXCEPT ![m] = [mach[m] EXCEPT !.st = "deleting"]]
    BY DEF Deleted
<1>4. \A k \in Ids : /\ mach'[k].owned = mach[k].owned /\ mach'[k].ver = mach[k].ver
                     /\ mach'[k].ann = mach[k].ann
                     /\ k # m => mach'[k] = mach[k]
                     /\ \/ mach'[k].st = mach[k].st
                        \/ mach[k].st = "live" /\ mach'[k].st = "deleting"
    <2>1. CASE mach[m].st = "live"
               /\ mach' = [mach EXCEPT ![m] = [mach[m] EXCEPT !.st = "deleting"]]
        <3>1. mach'[m] = [mach[m] EXCEPT !.st = "deleting"]
            BY <1>1, <2>1
        <3>2. \A k \in Ids \ {m} : mach'[k] = mach[k]
            BY <1>1, <2>1
        <3>3. /\ mach'[m].owned = mach[m].owned /\ mach'[m].ver = mach[m].ver
              /\ mach'[m].ann = mach[m].ann /\ mach'[m].st = "deleting"
            BY <1>1, <1>2, <3>1
        <3> QED  BY <2>1, <3>2, <3>3
    <2> QED  BY <1>3, <2>1
<1> QED  BY <1>4 DEF OwnedMachines, EtcdClusterMachines

\* Carrying out a decision.
LEMMA ActKeepsReleased ==
    ASSUME TypeOK, ReleasedInv, Act
    PROVE  ReleasedInv'
<1>1. pc' \in {"check", "remove", "memberRemove", "deleteMachine", "deleteAll"}
    BY ActEffect
<1>2. CASE pc' \notin Removing
    BY <1>1, <1>2 DEF ReleasedInv, Choosing
<1>3. CASE pc' \in Removing
    <2>1. MemberList \/ MemberRemove \/ DeleteMachine
        BY <1>3
        DEF Act, CreateMachine, CreateFails, Disown, DisownFails, RemovalFails, Step,
            ReconcileDelete, DeleteEach, Continue, Removing
    <2>2. /\ pc \in Removing /\ UNCHANGED released
          /\ todo' \subseteq todo /\ target' \in todo \cup {0, target}
        <3>1. CASE MemberList
            BY <3>1 DEF MemberList, NextRemoval, Removing, worldVars
        <3>2. CASE MemberRemove
            BY <3>2 DEF MemberRemove, Removing
        <3>3. CASE DeleteMachine
            BY <3>3 DEF DeleteMachine, NextRemoval, Removing
        <3> QED  BY <2>1, <3>1, <3>2, <3>3
    <2>3. DisownedMachines' = DisownedMachines
        <3>1. CASE MemberList \/ MemberRemove
            BY <3>1 DEF MemberList, MemberRemove, worldVars, DisownedMachines
        <3>2. CASE DeleteMachine
            <4>1. target \in Ids /\ mach' = Deleted(target)
                BY <3>2 DEF DeleteMachine, TypeOK
            <4> QED  BY <4>1, DeletionKeepsOwners DEF DisownedMachines
        <3> QED  BY <2>1, <3>1, <3>2
    <2>4. 0 \notin DisownedMachines
        BY FleetSets, MaxMachinesAssumption DEF Ids
    <2> QED
        BY <1>1, <1>3, <2>2, <2>3, <2>4 DEF ReleasedInv, Choosing, Removing
<1> QED  BY <1>2, <1>3

LEMMA ReleasedNext ==
    SerialWorld /\ TypeOK /\ KeptInv /\ [Next]_vars => ReleasedInv'
<1> SUFFICES ASSUME SerialWorld, TypeOK, KeptInv, [Next]_vars PROVE ReleasedInv'
    OBVIOUS
<1>0. ReleasedInv
    BY DEF KeptInv
<1>1. ASSUME \A m \in EtcdClusterMachines(mach') :
                m \in EtcdClusterMachines(mach) /\ mach'[m].owned = mach[m].owned,
             released \subseteq released', UNCHANGED recVars
      PROVE  ReleasedInv'
    <2>1. /\ DisownedMachines' \subseteq DisownedMachines
          /\ EtcdClusterMachines(mach)' \subseteq EtcdClusterMachines(mach)
          /\ EtcdClusterMachines(mach)' \cap OwnedMachines(mach) \subseteq OwnedMachines(mach)'
        BY <1>1 DEF DisownedMachines, OwnedMachines
    <2>2. UNCHANGED <<pc, cur, plane, todo, target>> /\ Owned' = Owned /\ All' = All
        BY <1>1 DEF recVars, Owned, All
    <2>3. pc \in Choosing =>
            Owned \cap EtcdClusterMachines(mach)' \subseteq OwnedMachines(mach)'
        BY <1>0, <2>1 DEF ReleasedInv
    <2>4. pc \in Removing => (todo \cup {target}) \cap DisownedMachines' \subseteq released'
        BY <1>0, <1>1, <2>1 DEF ReleasedInv
    <2> QED  BY <1>0, <1>1, <2>2, <2>3, <2>4 DEF ReleasedInv, Choosing, Removing
<1>2. CASE WorldNext
    BY <1>1, <1>2, WorldKeepsOwners
<1>3. CASE UNCHANGED vars
    BY <1>1, <1>3 DEF vars, worldVars
<1>4. CASE Reconcile
    <2>1. /\ CachedCluster = ec /\ UNCHANGED <<mach, released>>
          /\ pc' \in {"addFinalizer", "delete"}
             \/ (pc' = "decide" /\ ~ec.del /\ cur' = ec /\ plane' = mach)
        BY <1>4 DEF Reconcile, UncachedList, CachedCluster, SerialWorld, worldVars
    <2>2. CASE pc' \in {"addFinalizer", "delete"}
        BY <2>2 DEF ReleasedInv, Choosing, Removing
    <2>3. CASE pc' = "decide"
        <3>1. ~ec.del /\ cur' = ec /\ plane' = mach
            BY <2>1, <2>3
        <3>2. ec.cpDone => DisownedMachines \subseteq released
            BY <3>1 DEF KeptInv, RolloutInv, AnnotationInv
        <3>3. Owned' = OwnedMachines(mach) /\ (All \ Owned)' = DisownedMachines
            BY <3>1 DEF Owned, All, DisownedMachines
        <3> QED  BY <2>1, <2>3, <3>1, <3>2, <3>3 DEF ReleasedInv, Choosing, Removing
    <2> QED  BY <2>1, <2>2, <2>3
<1>5. CASE AddFinalizer \/ Restart \/ Report
    <2>1. pc' \in {"idle", "status"} \cup Patching
        BY <1>5
        DEF AddFinalizer, Restart, ProcessLost, Report, CheckOwnedMachines, CheckFails,
            StatusDeleting, StatusResizing, StatusUnhealthy, StatusReady,
            StatusNewEndpoints, ToPatch, PatchEtcdCluster, PatchConditions, PatchObject,
            PatchStatus, Return, Patching
    <2> QED  BY <2>1 DEF ReleasedInv, Choosing, Removing, Patching
<1> QED
    BY <1>0, <1>2, <1>3, <1>4, <1>5, DecideKeepsReleased, ActKeepsReleased
    DEF Next, ReconcilerNext, Working

-----------------------------------------------------------------------------
(* The world during a rollout                                               *)

\* Only a disowned machine is ever deleted, after the control plane is done.
LEMMA DeletionEndsRollout ==
    ASSUME TypeOK, RolloutInv, NEW m \in Ids, FinishMachineDeletion(m), UNCHANGED recVars
    PROVE  RolloutInv'
<1>0. /\ UNCHANGED <<ec, released>>
      /\ m \in EtcdClusterMachines(mach) /\ mach[m].st = "deleting"
      /\ mach'[m].st = "gone" /\ ~mach'[m].ann
      /\ \A k \in Ids \ {m} : mach'[k] = mach[k]
    BY DEF FinishMachineDeletion, TypeOK, WorldTypeOK, Removed, Unborn, EtcdClusterMachines
<1>1. m \in DisownedMachines /\ m \notin OwnedMachines(mach)
    BY <1>0 DEF RolloutInv, FleetInv, DisownedMachines
<1>2. ec.cpDone
    BY <1>0, <1>1 DEF RolloutInv, AnnotationInv
<1>3. m \notin UpToDateNow /\ m \notin NeedNow
    BY <1>1, FleetSets DEF RolloutInv, FleetInv
<1>4. /\ EtcdClusterMachines(mach)' = EtcdClusterMachines(mach) \ {m}
      /\ OwnedMachines(mach)' = OwnedMachines(mach)
    BY <1>0, <1>1 DEF EtcdClusterMachines, OwnedMachines
<1>5. DisownedMachines' = DisownedMachines \ {m}
    BY <1>1, <1>4 DEF DisownedMachines
<1>6. NeedNow' = NeedNow /\ UpToDateNow' = UpToDateNow
    BY <1>0, <1>1, <1>3, <1>4
    DEF NeedNow, UpToDateNow, MachinesNeedingRollout, HasDeletionTimestamp,
        MatchesEtcdadmClusterConfiguration, OwnedMachines, EtcdClusterMachines
<1>7. /\ UNCHANGED <<pc, before, cur, plane, todo, target>>
      /\ Owned' = Owned /\ All' = All
    BY DEF recVars, Owned, All
<1>8. \A k \in DisownedMachines' : k \in DisownedMachines /\ mach'[k] = mach[k]
    BY <1>0, <1>5, FleetSets
<1>9. \A k \in OwnedMachines(mach) : mach'[k] = mach[k]
    BY <1>0, <1>1, FleetSets
<1>10. AnnotationInv'
    BY <1>0, <1>2, <1>5, <1>6, <1>8 DEF RolloutInv, AnnotationInv
<1>11. FleetInv'
    BY <1>0, <1>4, <1>6, <1>9 DEF RolloutInv, FleetInv
<1>12. CopyInv'
    BY <1>0, <1>7 DEF RolloutInv, CopyInv
<1>13. DecisionInv'
    BY <1>0, <1>2, <1>4, <1>6, <1>7, <1>8, <1>9
    DEF RolloutInv, DecisionInv, Choosing, Removing
<1>14. VerdictInv'
    BY <1>0, <1>2, <1>6, <1>7, <1>8 DEF RolloutInv, VerdictInv
<1>15. OldCopyInv'
    BY <1>0, <1>1, <1>7, FleetSets DEF RolloutInv, OldCopyInv
<1>16. MiddleInv'
    BY <1>0, <1>5, <1>6, <1>7 DEF RolloutInv, MiddleInv
<1> QED  BY <1>10, <1>11, <1>12, <1>13, <1>14, <1>15, <1>16 DEF RolloutInv

\* The user waits for a change to be over: no annotation, no disowned machine,
\* nothing about to be created, disowned or removed.
LEMMA UpgradeFindsNoRollout ==
    ASSUME TypeOK, SerialWorld, RolloutInv, NEW v \in Versions, Upgrade(v), UNCHANGED recVars
    PROVE  RolloutInv'
<1>1. /\ ~ec.cpDone /\ Cardinality(EtcdClusterMachines(mach)) = ec.replicas
      /\ \A m \in EtcdClusterMachines(mach) :
            mach[m].st = "live" /\ mach[m].owned /\ mach[m].ver = ec.ver
      /\ v # ec.ver /\ UNCHANGED <<mach, released>>
    BY DEF Upgrade, SerialWorld, ChangesOver
<1>2. /\ ec'.ver = v /\ UNCHANGED <<ec.replicas, ec.ready, ec.noOutdated, ec.cpDone>>
      /\ ec'.specUpToDate = ec.specUpToDate /\ ec'.exists = ec.exists
    <2> DEFINE e == [ec EXCEPT !.ver = v]
    <2>0. ec \in ClusterType /\ ec' = e
        BY DEF TypeOK, WorldTypeOK, Upgrade
    <2>1. e.ver = v /\ e.replicas = ec.replicas /\ e.ready = ec.ready
        BY <2>0 DEF ClusterType
    <2>2. e.noOutdated = ec.noOutdated /\ e.cpDone = ec.cpDone
        BY <2>0 DEF ClusterType
    <2>3. e.specUpToDate = ec.specUpToDate /\ e.exists = ec.exists
        BY <2>0 DEF ClusterType
    <2> HIDE DEF e
    <2> QED  BY <2>0, <2>1, <2>2, <2>3
<1>3. /\ OwnedMachines(mach) = EtcdClusterMachines(mach)
      /\ DisownedMachines = {} /\ NeedNow = {}
    BY <1>1, FleetSets
<1>4. /\ DisownedMachines' = {} /\ UpToDateNow' = {}
      /\ EtcdClusterMachines(mach)' = EtcdClusterMachines(mach)
      /\ OwnedMachines(mach)' = OwnedMachines(mach)
    BY <1>1, <1>2, <1>3
    DEF DisownedMachines, UpToDateNow, OwnedMachines, EtcdClusterMachines
<1>5. ec.replicas \in Nat /\ EtcdClusterMachines(mach) # {}
    <2>1. ec.replicas \in Nat
        BY ReplicasAssumption DEF TypeOK, WorldTypeOK, ClusterType
    <2>2. Cardinality(EtcdClusterMachines(mach)) > 0
        BY <1>1 DEF RolloutInv, FleetInv
    <2> QED  BY <2>1, <2>2, FS_EmptySet
<1>6. /\ UNCHANGED <<pc, before, cur, plane, todo, target>>
      /\ Owned' = Owned /\ All' = All
    BY DEF recVars, Owned, All
<1>7. pc # "idle" => cur.ver = ec.ver
    BY <1>1, <1>5 DEF RolloutInv, OldCopyInv
<1>8. pc \notin Removing \cup {"gate", "create", "disown"}
    <2>1. pc # "create"
        BY <1>1, <1>3, <1>5 DEF RolloutInv, DecisionInv
    <2> QED  BY <1>1, <1>3, <2>1 DEF RolloutInv, DecisionInv
<1>9. ec.noOutdated # "False"
    BY <1>1, <1>3 DEF RolloutInv, AnnotationInv
<1>10. pc # "idle" => cur.noOutdated # "False"
    BY <1>1, <1>3, <1>9 DEF RolloutInv, CopyInv, DecisionInv, VerdictInv, Decided, TypeOK
<1>11. pc = "decide" => Owned = All /\ Cardinality(Owned) = cur.replicas
    BY <1>1, <1>3 DEF RolloutInv, CopyInv, DecisionInv, Choosing
<1>12. AnnotationInv'
    BY <1>1, <1>2, <1>4, <1>9 DEF RolloutInv, AnnotationInv
<1>13. FleetInv'
    <2>1. Cardinality(UpToDateNow') <= ec'.replicas
        BY <1>2, <1>4, <1>5, FS_EmptySet
    <2> QED  BY <1>1, <1>2, <1>4, <2>1 DEF RolloutInv, FleetInv
<1>14. CopyInv'
    BY <1>2, <1>6 DEF RolloutInv, CopyInv
<1>15. DecisionInv'
    BY <1>1, <1>2, <1>4, <1>6, <1>8, <1>10, <1>11
    DEF RolloutInv, DecisionInv, Choosing, Removing
<1>16. VerdictInv'
    BY <1>4, <1>6, <1>10 DEF RolloutInv, VerdictInv, Decided
<1>17. OldCopyInv'
    BY <1>1, <1>2, <1>4, <1>6, <1>7, <1>8, <1>9, <1>10, <1>11 DEF OldCopyInv
<1>18. MiddleInv'
    <2>1. ec.replicas = 1 => \A a, b \in EtcdClusterMachines(mach) : a = b
        <3>1. IsFiniteSet(EtcdClusterMachines(mach))
            BY IdsFinite, FS_Subset, FleetSets
        <3>2. ec.replicas = 1 => \E a : EtcdClusterMachines(mach) = {a}
            BY <1>1, <3>1, FS_Singleton
        <3> QED  BY <3>2
    <2>2. NeedNow' \subseteq EtcdClusterMachines(mach)
        BY <1>1 DEF NeedNow, MachinesNeedingRollout, OwnedMachines
    <2> QED  BY <1>2, <1>4, <2>1, <2>2 DEF MiddleInv
<1> QED  BY <1>12, <1>13, <1>14, <1>15, <1>16, <1>17, <1>18 DEF RolloutInv

\* The control plane is rolled out on a ready cluster, hence after a rollout.
LEMMA ControlPlaneFindsNoRollout ==
    ASSUME TypeOK, RolloutInv, CompleteControlPlaneUpgrade, UNCHANGED recVars
    PROVE  RolloutInv'
<1>1. /\ UNCHANGED mach /\ released' = released \cup DisownedMachines
      /\ ec.ready /\ ec.noOutdated = "False" /\ ~ec.cpDone
    BY DEF CompleteControlPlaneUpgrade, DisownedMachines
<1>2. /\ ec'.cpDone /\ UNCHANGED <<ec.replicas, ec.ready, ec.noOutdated, ec.ver>>
      /\ ec'.specUpToDate = ec.specUpToDate /\ ec'.exists = ec.exists
    <2> DEFINE e == [ec EXCEPT !.cpDone = TRUE]
    <2>0. ec \in ClusterType /\ ec' = e
        BY DEF TypeOK, WorldTypeOK, CompleteControlPlaneUpgrade
    <2>1. e.cpDone /\ e.replicas = ec.replicas /\ e.ready = ec.ready
        BY <2>0 DEF ClusterType
    <2>2. e.noOutdated = ec.noOutdated /\ e.ver = ec.ver
        BY <2>0 DEF ClusterType
    <2>3. e.specUpToDate = ec.specUpToDate /\ e.exists = ec.exists
        BY <2>0 DEF ClusterType
    <2> HIDE DEF e
    <2> QED  BY <2>0, <2>1, <2>2, <2>3
<1>3. NeedNow = {} /\ NeedNow' = {} /\ UpToDateNow' = UpToDateNow
      /\ DisownedMachines' = DisownedMachines
    BY <1>1, <1>2 DEF RolloutInv, AnnotationInv, NeedNow, UpToDateNow, DisownedMachines
<1>4. pc # "idle" => cur.ver = ec.ver
    BY <1>1 DEF RolloutInv, OldCopyInv
<1>5. /\ UNCHANGED <<pc, before, cur, plane, todo, target>>
      /\ Owned' = Owned /\ All' = All
    BY DEF recVars, Owned, All
<1>6. AnnotationInv'
    BY <1>1, <1>2, <1>3 DEF RolloutInv, AnnotationInv
<1>7. FleetInv'
    BY <1>1, <1>2, <1>3 DEF RolloutInv, FleetInv
<1>8. CopyInv'
    BY <1>2, <1>5 DEF RolloutInv, CopyInv
<1>9. DecisionInv'
    BY <1>1, <1>2, <1>3, <1>5 DEF RolloutInv, DecisionInv, Choosing, Removing
<1>10. VerdictInv'
    BY <1>1, <1>2, <1>3, <1>5 DEF RolloutInv, VerdictInv, Decided
<1>11. OldCopyInv'
    BY <1>2, <1>4, <1>5 DEF OldCopyInv
<1>12. MiddleInv'
    BY <1>3 DEF MiddleInv
<1> QED  BY <1>6, <1>7, <1>8, <1>9, <1>10, <1>11, <1>12 DEF RolloutInv

LEMMA WorldKeepsRollout ==
    ASSUME TypeOK, SerialWorld, RolloutInv, WorldNext, ~ec'.del
    PROVE  RolloutInv'
<1>0. ec \in ClusterType /\ mach \in [Ids -> MachineType] /\ UNCHANGED recVars
    BY DEF TypeOK, WorldTypeOK, WorldNext
<1>1. ASSUME NEW m \in Ids, AssignAddress(m) PROVE RolloutInv'
    <2>1. FleetKept
        BY <1>0, <1>1, BootKeepsFleet DEF AssignAddress
    <2> QED  BY <1>0, <1>1, <2>1, RolloutStutters DEF AssignAddress, ObjectKept
<1>2. ASSUME NEW m \in Ids, InitMember(m) PROVE RolloutInv'
    <2>1. FleetKept
        BY <1>0, <1>2, BootKeepsFleet DEF InitMember
    <2>2. ObjectKept
        <3> DEFINE e == [ec EXCEPT !.initialized = TRUE]
        <3>1. e.del = ec.del /\ e.replicas = ec.replicas /\ e.ver = ec.ver
            BY <1>0 DEF ClusterType
        <3>2. e.ready = ec.ready /\ e.noOutdated = ec.noOutdated /\ e.cpDone = ec.cpDone
            BY <1>0 DEF ClusterType
        <3>3. e.specUpToDate = ec.specUpToDate /\ e.exists = ec.exists
            BY <1>0 DEF ClusterType
        <3>4. ec' = e
            BY <1>2 DEF InitMember
        <3> HIDE DEF e
        <3> QED  BY <3>1, <3>2, <3>3, <3>4 DEF ObjectKept
    <2> QED  BY <1>0, <1>2, <2>1, <2>2, RolloutStutters DEF InitMember
<1>3. ASSUME NEW m \in Ids, JoinMember(m) PROVE RolloutInv'
    <2>1. FleetKept
        BY <1>0, <1>3, BootKeepsFleet DEF JoinMember
    <2> QED  BY <1>0, <1>3, <2>1, RolloutStutters DEF JoinMember, ObjectKept
<1>4. CASE SyncCluster \/ SyncMachines
    BY <1>0, <1>4, RolloutStutters DEF SyncCluster, SyncMachines, ObjectKept, FleetKept
<1>5. ASSUME UserNext PROVE \/ \E v \in Versions : Upgrade(v)
                            \/ CompleteControlPlaneUpgrade
    <2>1. ~DeleteCluster
        BY <1>0 DEF DeleteCluster, ClusterType
    <2> QED
        BY <1>5, <2>1 DEF UserNext, SerialWorld, Scale, AnnotateMachine, DeleteMachineByHand
<1> QED
    BY <1>0, <1>1, <1>2, <1>3, <1>4, <1>5, DeletionEndsRollout, UpgradeFindsNoRollout,
       ControlPlaneFindsNoRollout DEF WorldNext, InfraNext

-----------------------------------------------------------------------------
(* A reconcile begins, and ends                                             *)

LEMMA BeginKeepsRollout ==
    ASSUME TypeOK, SerialWorld, RolloutInv, Reconcile, ~ec.del
    PROVE  RolloutInv'
<1>0. /\ CachedCluster = ec /\ UNCHANGED <<ec, mach, released>> /\ before' = ec
      /\ ec \in ClusterType
    BY DEF Reconcile, CachedCluster, SerialWorld, worldVars, TypeOK, WorldTypeOK
<1>1. \/ pc' = "addFinalizer" /\ cur' = [ec EXCEPT !.fin = TRUE]
      \/ pc' = "decide" /\ cur' = ec /\ plane' = mach
    BY <1>0 DEF Reconcile, UncachedList
<1>2. /\ cur'.replicas = ec.replicas /\ cur'.ver = ec.ver /\ cur'.cpDone = ec.cpDone
      /\ cur'.ready = ec.ready /\ cur'.noOutdated = ec.noOutdated
      /\ cur'.specUpToDate = ec.specUpToDate
    BY <1>0, <1>1 DEF ClusterType
<1>3. /\ EtcdClusterMachines(mach)' = EtcdClusterMachines(mach)
      /\ OwnedMachines(mach)' = OwnedMachines(mach)
      /\ DisownedMachines' = DisownedMachines
      /\ NeedNow' = NeedNow /\ UpToDateNow' = UpToDateNow
    BY <1>0, SameFleet DEF FleetKept
<1>4. AnnotationInv' /\ FleetInv'
    BY <1>0, KeptFleet DEF RolloutInv, ObjectKept, FleetKept
<1>5. CopyInv'
    BY <1>0, <1>1, <1>2 DEF RolloutInv, AnnotationInv, CopyInv
<1>6. DecisionInv'
    <2>1. CASE pc' = "addFinalizer"
        BY <2>1 DEF DecisionInv, Choosing, Removing
    <2>2. CASE pc' = "decide" /\ cur' = ec /\ plane' = mach
        <3>1. /\ Owned' = OwnedMachines(mach) /\ All' = EtcdClusterMachines(mach)
              /\ All' \ Owned' = DisownedMachines
            BY <2>2 DEF Owned, All, DisownedMachines
        <3>2. \A m \in OwnedMachines(mach) : mach[m].st = "live" /\ ~mach[m].ann
            BY FleetSets DEF RolloutInv, FleetInv
        <3>3. \A m \in DisownedMachines : mach[m].ver # ec.ver
            BY FleetSets DEF RolloutInv, FleetInv
        <3>4. /\ ec.noOutdated = "False" \/ DisownedMachines # {} =>
                    ec.cpDone \/ DisownedMachines # {}
              /\ ~ec.cpDone => \A m \in DisownedMachines : mach[m].st = "live"
            BY DEF RolloutInv, AnnotationInv
        <3>5. OwnedMachines(mach) \subseteq EtcdClusterMachines(mach)
            BY DEF OwnedMachines
        <3> QED
            BY <1>0, <1>3, <2>2, <3>1, <3>2, <3>3, <3>4, <3>5
            DEF DecisionInv, Choosing, Removing, DisownedMachines
    <2> QED  BY <1>1, <2>1, <2>2
<1>7. VerdictInv'
    BY <1>1 DEF VerdictInv, Decided
<1>8. OldCopyInv'
    BY <1>0, <1>2 DEF OldCopyInv
<1>9. MiddleInv'
    <2>1. pc \notin Decided
        BY DEF Reconcile, Decided
    <2> QED  BY <1>0, <1>3, <2>1 DEF RolloutInv, MiddleInv
<1> QED  BY <1>4, <1>5, <1>6, <1>7, <1>8, <1>9 DEF RolloutInv

\* The finalizer is all that its own patch writes.
LEMMA FinalizerKeepsRollout ==
    ASSUME TypeOK, DealtInv, SerialWorld, RolloutInv, ~ec.del, AddFinalizer
    PROVE  RolloutInv'
<1>0. /\ ec \in ClusterType /\ before \in ClusterType /\ cur \in ClusterType
      /\ pc = "addFinalizer" /\ pc' = "idle" /\ UNCHANGED <<mach, released>>
      /\ SameSpec(ec', ec) /\ ec'.exists = ec.exists
    BY PatchEffect DEF AddFinalizer, Return, TypeOK, WorldTypeOK
<1>1. ObjectKept
    <2>1. SameConditions(ec', ec) /\ SameStatus(ec', ec) /\ (ec' = ec \/ MergedMeta(ec', ec))
        BY <1>0, ObjectCall DEF AddFinalizer
    <2>2. cur.cpDone = before.cpDone
        BY <1>0 DEF DealtInv
    <2> QED
        BY <1>0, <2>1, <2>2
        DEF ObjectKept, SameSpec, SameConditions, SameStatus, MergedMeta, Merge
<1>2. AnnotationInv' /\ FleetInv'
    BY <1>0, <1>1, KeptFleet DEF RolloutInv, FleetKept
<1>3. MiddleInv'
    <2>1. DisownedMachines' = DisownedMachines /\ NeedNow' = NeedNow
        BY <1>0, <1>1, SameFleet DEF FleetKept, ObjectKept
    <2> QED  BY <1>0, <1>1, <2>1 DEF RolloutInv, MiddleInv, ObjectKept, Decided
<1> QED
    BY <1>0, <1>2, <1>3
    DEF RolloutInv, CopyInv, DecisionInv, VerdictInv, OldCopyInv, Choosing, Removing, Decided

\* The object takes the conditions of the copy first, then loses the annotation
\* that the copy has lost, and takes Ready last.
LEMMA PatchKeepsRollout ==
    ASSUME TypeOK, DealtInv, SerialWorld, RolloutInv, ~ec.del, PatchEtcdCluster
    PROVE  RolloutInv'
<1>0. /\ ec \in ClusterType /\ before \in ClusterType /\ cur \in ClusterType
      /\ UNCHANGED <<mach, released>> /\ ec.exists /\ ec'.exists
      /\ ec'.ver = ec.ver /\ ec'.replicas = ec.replicas
      /\ pc \in Patching /\ pc \in Decided /\ pc # "idle"
    <2>1. ec.exists /\ pc \in Patching
        BY DEF RolloutInv, FleetInv, PatchEtcdCluster, PatchConditions, PatchObject,
               PatchStatus, Patching
    <2> QED
        BY <2>1, PatchEffect DEF TypeOK, WorldTypeOK, SameSpec, Patching, Decided, PcType
<1>1. /\ DisownedMachines' = DisownedMachines
      /\ NeedNow' = NeedNow /\ UpToDateNow' = UpToDateNow
      /\ EtcdClusterMachines(mach)' = EtcdClusterMachines(mach)
      /\ OwnedMachines(mach)' = OwnedMachines(mach)
    BY <1>0, SameFleet DEF FleetKept
<1>2. /\ before.ready = ec.ready /\ before.noOutdated = ec.noOutdated
      /\ before.cpDone => ec.cpDone
      /\ cur.cpDone => before.cpDone
      /\ cur.specUpToDate # "MaxReached" /\ ec.specUpToDate # "MaxReached"
    BY <1>0 DEF RolloutInv, CopyInv, AnnotationInv
<1>3. /\ cur.noOutdated = "False" =>
            /\ cur.cpDone = before.cpDone
            /\ ec.cpDone \/ DisownedMachines # {}
            /\ before.ready => NeedNow = {}
      /\ cur.ready /\ DisownedMachines # {} => NeedNow = {}
      /\ ~cur.cpDone => \A m \in DisownedMachines : mach[m].st = "live"
    BY <1>0 DEF RolloutInv, VerdictInv
<1>4. /\ ec'.noOutdated = cur.noOutdated /\ ec'.specUpToDate # "MaxReached"
      /\ ec'.cpDone => ec.cpDone
      /\ ~ec'.cpDone => ~ec.cpDone \/ ~cur.cpDone
      /\ cur.cpDone = before.cpDone => ec'.cpDone = ec.cpDone
      /\ \/ /\ ec'.ready = ec.ready /\ pc' \in Patching
            /\ UNCHANGED cur /\ before'.ready = before.ready
            /\ before'.noOutdated = cur.noOutdated
            /\ \/ before'.cpDone = before.cpDone /\ ec'.cpDone = ec.cpDone
               \/ before'.cpDone = cur.cpDone
         \/ ec'.ready = cur.ready /\ pc' = "idle"
    <2>1. CASE PatchConditions
        <3>1. /\ MergedConditions(ec', ec) /\ SameMeta(ec', ec) /\ SameStatus(ec', ec)
              /\ SameConditions(before', cur) /\ SameMeta(before', before)
              /\ SameStatus(before', before) /\ pc' = "patchObject" /\ UNCHANGED cur
            BY <1>0, <2>1, ConditionsCall DEF SerialWorld
        <3> QED
            BY <1>2, <3>1
            DEF MergedConditions, Merge, SameMeta, SameStatus, SameConditions, Patching
    <2>2. CASE PatchObject
        <3>1. /\ MergedMeta(ec', ec) /\ SameConditions(ec', ec) /\ SameStatus(ec', ec)
            BY <1>0, <2>2, ObjectCall DEF SerialWorld, PatchObject
        <3>2. /\ SameConditions(before', before) /\ SameMeta(before', cur)
              /\ SameStatus(before', before) /\ pc = "patchObject" /\ pc' = "patchStatus"
              /\ UNCHANGED cur /\ SameConditions(before, cur)
            BY <1>0, <2>2, ObjectCallGoesOn DEF DealtInv
        <3> QED
            BY <1>2, <3>1, <3>2
            DEF MergedMeta, Merge, SameMeta, SameStatus, SameConditions, Patching
    <2>3. CASE PatchStatus
        <3>1. /\ MergedStatus(ec', ec) /\ SameConditions(ec', ec) /\ SameMeta(ec', ec)
              /\ pc' = "idle" /\ SameConditions(before, cur) /\ SameMeta(before, cur)
            BY <1>0, <2>3, StatusCall DEF SerialWorld, DealtInv, Return
        <3> QED
            BY <1>2, <3>1 DEF MergedStatus, Merge, SameMeta, SameConditions
    <2> QED  BY <2>1, <2>2, <2>3 DEF PatchEtcdCluster
<1>5. AnnotationInv'
    <2>1. ec'.noOutdated = "False" => ec'.cpDone \/ DisownedMachines # {}
        BY <1>3, <1>4
    <2>2. ec'.ready /\ ec'.noOutdated = "False" => NeedNow = {}
        BY <1>2, <1>3, <1>4 DEF RolloutInv, AnnotationInv
    <2>3. ~ec'.cpDone => \A m \in DisownedMachines : mach[m].st = "live"
        BY <1>3, <1>4 DEF RolloutInv, AnnotationInv
    <2> QED  BY <1>0, <1>1, <1>4, <2>1, <2>2, <2>3 DEF RolloutInv, AnnotationInv
<1>6. FleetInv'
    BY <1>0, <1>1 DEF RolloutInv, FleetInv
<1>7. MiddleInv'
    <2>1. pc' \notin Decided /\ ec'.ready /\ DisownedMachines # {} => NeedNow = {}
        BY <1>3, <1>4 DEF Decided, Patching, PcType
    <2> QED  BY <1>0, <1>1, <2>1 DEF RolloutInv, MiddleInv
<1>8. CASE pc' = "idle"
    BY <1>5, <1>6, <1>7, <1>8
    DEF RolloutInv, CopyInv, DecisionInv, VerdictInv, OldCopyInv, Choosing, Removing, Decided
<1>9. CASE pc' \in Patching
    <2>0. /\ UNCHANGED cur /\ before'.ready = before.ready /\ ec'.ready = ec.ready
          /\ before'.noOutdated = cur.noOutdated
          /\ \/ before'.cpDone = before.cpDone /\ ec'.cpDone = ec.cpDone
             \/ before'.cpDone = cur.cpDone
        BY <1>4, <1>9 DEF Patching
    <2>1. CopyInv'
        BY <1>0, <1>2, <1>4, <1>9, <2>0 DEF RolloutInv, CopyInv, Patching
    <2>2. DecisionInv'
        BY <1>9 DEF DecisionInv, Choosing, Removing, Patching
    <2>3. VerdictInv'
        BY <1>0, <1>1, <1>3, <1>4, <1>9, <2>0 DEF RolloutInv, VerdictInv
    <2>4. OldCopyInv'
        BY <1>0, <1>1, <1>4, <1>9, <2>0
        DEF RolloutInv, OldCopyInv, Removing, Patching
    <2> QED  BY <1>5, <1>6, <1>7, <2>1, <2>2, <2>3, <2>4 DEF RolloutInv
<1> QED  BY <1>4, <1>8, <1>9

\* A single replica is never in the middle of a rollout.
LEMMA LossKeepsRollout ==
    ASSUME TypeOK, SerialWorld, RolloutInv, Restart
    PROVE  RolloutInv'
<1>1. UNCHANGED <<ec, mach, released>> /\ pc' = "idle" /\ Crashes
    BY DEF Restart, ProcessLost, Return
<1>2. AnnotationInv' /\ FleetInv'
    BY <1>1, KeptFleet DEF RolloutInv, ObjectKept, FleetKept
<1>3. MiddleInv'
    <2>1. ec.replicas = 1
        BY <1>1 DEF SerialWorld, TypeOK, WorldTypeOK, ClusterType
    <2>2. DisownedMachines' = DisownedMachines /\ NeedNow' = NeedNow
        BY <1>1, SameFleet DEF FleetKept
    <2> QED  BY <1>1, <2>1, <2>2 DEF RolloutInv, MiddleInv
<1> QED
    BY <1>1, <1>2, <1>3
    DEF RolloutInv, CopyInv, DecisionInv, VerdictInv, OldCopyInv, Choosing, Removing, Decided

-----------------------------------------------------------------------------
(* The rest of a reconcile, and the calls that carry out a decision         *)

\* Nothing is left to do but to report: the verdict stands.
LEMMA ReportStandsBy ==
    ASSUME RolloutInv, FleetKept, UNCHANGED <<ec, released, before>>,
           pc \in Decided, pc' \in {"check", "status", "patch"},
           cur'.replicas = cur.replicas, cur'.ver = cur.ver, cur'.cpDone = cur.cpDone,
           cur'.specUpToDate = cur.specUpToDate, cur'.noOutdated = cur.noOutdated,
           pc' = "patch" /\ cur'.specUpToDate = "Rolling" => ~cur'.ready
    PROVE  RolloutInv'
<1>0. /\ EtcdClusterMachines(mach)' = EtcdClusterMachines(mach)
      /\ DisownedMachines' = DisownedMachines /\ NeedNow' = NeedNow
      /\ pc # "idle" /\ pc' \in Decided
    BY SameFleet DEF Decided, PcType
<1>1. /\ \A m \in DisownedMachines : mach'[m].st = mach[m].st
      /\ \A m \in EtcdClusterMachines(mach) :
            mach'[m].owned = mach[m].owned /\ mach'[m].ver = mach[m].ver
    BY FleetSets DEF FleetKept
<1>2. AnnotationInv' /\ FleetInv'
    BY KeptFleet DEF RolloutInv, ObjectKept
<1>3. CopyInv'
    BY <1>0 DEF RolloutInv, CopyInv
<1>4. DecisionInv'
    BY DEF DecisionInv, Choosing, Removing
<1>5. VerdictInv'
    BY <1>0, <1>1 DEF RolloutInv, VerdictInv, Patching
<1>6. OldCopyInv'
    BY <1>0, <1>1 DEF RolloutInv, OldCopyInv, Removing
<1>7. MiddleInv'
    BY <1>0 DEF RolloutInv, MiddleInv
<1> QED  BY <1>2, <1>3, <1>4, <1>5, <1>6, <1>7 DEF RolloutInv

LEMMA ReportKeepsRollout ==
    ASSUME TypeOK, DealtInv, SerialWorld, RolloutInv, ~ec.del, Report
    PROVE  RolloutInv'
<1>1. CASE CheckOwnedMachines
    <2>1. FleetKept
        BY <1>1, LabelKeepsMachines, LabelKeepsVersions DEF FleetKept
    <2> QED  BY <1>1, <2>1, ReportStandsBy DEF CheckOwnedMachines, Decided, PcType
<1>2. CASE \/ StatusDeleting \/ StatusResizing \/ StatusUnhealthy
           \/ StatusReady \/ StatusNewEndpoints
    <2>1. /\ UNCHANGED <<ec, mach, released, before>> /\ pc = "status" /\ pc' = "patch"
        BY <1>2, StatusEffect
        DEF StatusDeleting, StatusResizing, StatusUnhealthy, StatusReady,
            StatusNewEndpoints, ToPatch
    <2> QED
        BY <1>2, <2>1, StatusKeeps, ReportStandsBy DEF FleetKept, Decided, PcType
<1>3. CASE PatchEtcdCluster
    BY <1>3, PatchKeepsRollout
<1>4. ~CheckFails
    BY DEF CheckFails, SerialWorld
<1> QED  BY <1>1, <1>2, <1>3, <1>4 DEF Report

\* A machine of the newest spec, while there are not enough of them.
LEMMA CreationKeepsRollout ==
    ASSUME TypeOK, RolloutInv, CreateMachine
    PROVE  RolloutInv'
<1> DEFINE k == Min(FreeIds)
<1>0. /\ pc = "create" /\ pc' = "check" /\ UNCHANGED <<ec, released, before, cur>>
      /\ cur.ver = ec.ver /\ Cardinality(UpToDateNow) < ec.replicas
    BY DEF CreateMachine, Step, RolloutInv, DecisionInv, OldCopyInv
<1>1. /\ k \in Ids /\ mach[k].st = "none" /\ mach'[k].st = "live" /\ mach'[k].owned
      /\ \A m \in Ids \ {k} : mach'[m] = mach[m]
    BY CreationEffect
<1>2. mach'[k].ver = ec.ver /\ ~mach'[k].ann
    <2>1. mach \in [Ids -> MachineType]
        BY DEF TypeOK, WorldTypeOK
    <2>2. \A f : LET r == [Unborn EXCEPT !.st = "live", !.owned = TRUE,
                                         !.ver = cur.ver, !.fd = f] IN
                 r.ver = cur.ver /\ ~r.ann
        BY DEF Unborn
    <2> QED  BY <1>0, <1>1, <2>1, <2>2 DEF CreateMachine
<1> HIDE DEF k
<1>3. /\ EtcdClusterMachines(mach)' = EtcdClusterMachines(mach) \cup {k}
      /\ OwnedMachines(mach)' = OwnedMachines(mach) \cup {k}
      /\ k \notin EtcdClusterMachines(mach)
    BY <1>1 DEF EtcdClusterMachines, OwnedMachines
<1>4. DisownedMachines' = DisownedMachines
    BY <1>3 DEF DisownedMachines, OwnedMachines
<1>5. NeedNow' = NeedNow /\ UpToDateNow' = UpToDateNow \cup {k}
    BY <1>0, <1>1, <1>2, <1>3
    DEF NeedNow, UpToDateNow, MachinesNeedingRollout, HasDeletionTimestamp,
        MatchesEtcdadmClusterConfiguration, OwnedMachines, EtcdClusterMachines
<1>6. \A m \in EtcdClusterMachines(mach) : m \in Ids /\ mach'[m] = mach[m]
    BY <1>1, <1>3 DEF EtcdClusterMachines
<1>7. \A m \in DisownedMachines : mach'[m] = mach[m]
    BY <1>6 DEF DisownedMachines
<1>8. AnnotationInv'
    BY <1>0, <1>4, <1>5, <1>7 DEF RolloutInv, AnnotationInv
<1>9. Cardinality(UpToDateNow') <= ec.replicas
    <2>1. UpToDateNow \subseteq Ids /\ k \notin UpToDateNow
        BY <1>3, FleetSets
    <2>2. /\ IsFiniteSet(UpToDateNow) /\ Cardinality(UpToDateNow) \in Nat
          /\ ec.replicas \in Nat
        BY <2>1, IdsFinite, FS_Subset, FS_CardinalityType, ReplicasAssumption
        DEF TypeOK, WorldTypeOK, ClusterType
    <2>3. Cardinality(UpToDateNow') = Cardinality(UpToDateNow) + 1
        BY <1>5, <2>1, <2>2, FS_AddElement
    <2> QED  BY <1>0, <2>2, <2>3
<1>10. FleetInv'
    <2>1. \A m \in OwnedMachines(mach) : mach'[m] = mach[m]
        BY <1>6 DEF OwnedMachines
    <2> QED  BY <1>0, <1>1, <1>2, <1>3, <1>5, <1>9, <2>1 DEF RolloutInv, FleetInv
<1>11. CopyInv'
    BY <1>0 DEF RolloutInv, CopyInv
<1>12. DecisionInv'
    BY <1>0 DEF DecisionInv, Choosing, Removing
<1>13. VerdictInv'
    BY <1>0, <1>4, <1>5, <1>7 DEF RolloutInv, VerdictInv, Decided, PcType, Patching
<1>14. OldCopyInv'
    BY <1>0 DEF OldCopyInv
<1>15. MiddleInv'
    BY <1>0, <1>4, <1>5 DEF RolloutInv, MiddleInv, Decided, PcType
<1> QED  BY <1>8, <1>10, <1>11, <1>12, <1>13, <1>14, <1>15 DEF RolloutInv

\* An outdated machine is disowned, which the control plane has not seen yet.
LEMMA DisowningKeepsRollout ==
    ASSUME TypeOK, RolloutInv, Disown
    PROVE  RolloutInv'
<1>0. /\ pc = "disown" /\ pc' = "check" /\ UNCHANGED <<ec, released, before, cur>>
      /\ cur.ver = ec.ver /\ target \in NeedNow /\ cur.specUpToDate = "Rolling"
    BY DEF Disown, Step, RolloutInv, DecisionInv, OldCopyInv
<1>1. /\ target \in OwnedMachines(mach) /\ mach[target].ver # ec.ver
      /\ mach[target].st = "live" /\ target \in Ids
    BY <1>0, FleetSets DEF RolloutInv, FleetInv
<1>2. /\ ~mach'[target].owned /\ mach'[target].ver = mach[target].ver
      /\ mach'[target].st = "live" /\ mach'[target].ann = mach[target].ann
      /\ \A m \in Ids \ {target} : mach'[m] = mach[m]
    <2>1. mach \in [Ids -> MachineType] /\ mach[target] \in MachineType
        BY <1>1 DEF TypeOK, WorldTypeOK
    <2>2. mach' = [mach EXCEPT ![target] = [mach[target] EXCEPT !.owned = FALSE]]
        BY UpdateWrites DEF Disown
    <2>3. \A r \in MachineType : LET s == [r EXCEPT !.owned = FALSE] IN
                /\ ~s.owned /\ s.ver = r.ver
                /\ s.st = r.st /\ s.ann = r.ann
        BY DEF MachineType
    <2>4. mach'[target] = [mach[target] EXCEPT !.owned = FALSE]
        BY <1>1, <2>1, <2>2
    <2>5. \A m \in Ids \ {target} : mach'[m] = mach[m]
        BY <2>1, <2>2
    <2> QED  BY <1>1, <2>1, <2>3, <2>4, <2>5
<1>3. /\ EtcdClusterMachines(mach)' = EtcdClusterMachines(mach)
      /\ OwnedMachines(mach)' = OwnedMachines(mach) \ {target}
    BY <1>1, <1>2 DEF EtcdClusterMachines, OwnedMachines
<1>4. DisownedMachines' = DisownedMachines \cup {target}
    BY <1>1, <1>3 DEF DisownedMachines, OwnedMachines
<1>5. NeedNow' = NeedNow \ {target} /\ UpToDateNow' = UpToDateNow
      /\ target \notin UpToDateNow
    BY <1>0, <1>1, <1>2, <1>3
    DEF NeedNow, UpToDateNow, MachinesNeedingRollout, HasDeletionTimestamp,
        MatchesEtcdadmClusterConfiguration, OwnedMachines, EtcdClusterMachines
<1>6. /\ \A m \in DisownedMachines : mach'[m].st = mach[m].st
      /\ \A m \in OwnedMachines(mach)' : mach'[m] = mach[m]
      /\ \A m \in Ids : mach'[m].ann = mach[m].ann
    BY <1>1, <1>2, <1>3, FleetSets
<1>7. AnnotationInv'
    BY <1>0, <1>1, <1>2, <1>4, <1>5, <1>6 DEF RolloutInv, AnnotationInv
<1>8. FleetInv'
    BY <1>0, <1>3, <1>5, <1>6 DEF RolloutInv, FleetInv
<1>9. CopyInv'
    BY <1>0 DEF RolloutInv, CopyInv
<1>10. DecisionInv'
    BY <1>0 DEF DecisionInv, Choosing, Removing
<1>11. VerdictInv'
    BY <1>0, <1>2, <1>4, <1>5, <1>6 DEF RolloutInv, VerdictInv, Decided, PcType, Patching
<1>12. OldCopyInv'
    BY <1>0 DEF OldCopyInv
<1>13. MiddleInv'
    <2>1. ec.replicas = 1 => NeedNow' = {}
        BY <1>0, <1>5 DEF RolloutInv, MiddleInv
    <2> QED  BY <1>0, <2>1 DEF MiddleInv, Decided, PcType
<1> QED  BY <1>7, <1>8, <1>9, <1>10, <1>11, <1>12, <1>13 DEF RolloutInv

\* What is removed is not owned, and the control plane is done with it.
LEMMA RemovalKeepsRollout ==
    ASSUME TypeOK, RolloutInv, MemberList \/ MemberRemove \/ DeleteMachine
    PROVE  RolloutInv'
<1>0. /\ pc \in Removing /\ UNCHANGED <<ec, released, before, cur>>
      /\ pc' \in Removing \cup {"check"}
      /\ todo' \subseteq todo /\ target' \in todo \cup {0, target}
    <2>1. CASE MemberList
        BY <2>1 DEF MemberList, NextRemoval, Removing, Step, worldVars
    <2>2. CASE MemberRemove
        BY <2>2 DEF MemberRemove, Removing, Step
    <2>3. CASE DeleteMachine
        BY <2>3 DEF DeleteMachine, NextRemoval, Removing, Step
    <2> QED  BY <2>1, <2>2, <2>3
<1>1. /\ ec.cpDone /\ cur.cpDone /\ cur.ver = ec.ver
      /\ (todo \cup {target}) \cap OwnedMachines(mach) = {}
    BY <1>0 DEF RolloutInv, DecisionInv, OldCopyInv, Removing
<1>2. /\ EtcdClusterMachines(mach)' = EtcdClusterMachines(mach)
      /\ OwnedMachines(mach)' = OwnedMachines(mach)
      /\ \A m \in Ids : /\ mach'[m].owned = mach[m].owned /\ mach'[m].ver = mach[m].ver
                        /\ mach'[m].ann = mach[m].ann
      /\ \A m \in OwnedMachines(mach) : mach'[m] = mach[m]
    <2>1. CASE MemberList \/ MemberRemove
        BY <2>1 DEF MemberList, MemberRemove, worldVars
    <2>2. CASE DeleteMachine
        <3>1. target \in Ids /\ mach' = Deleted(target)
            BY <2>2 DEF DeleteMachine, TypeOK
        <3> QED  BY <1>1, <3>1, DeletionKeepsOwners, FleetSets
    <2> QED  BY <2>1, <2>2
<1>3. DisownedMachines' = DisownedMachines
    BY <1>2 DEF DisownedMachines
<1>4. UpToDateNow' = UpToDateNow
    BY <1>0, <1>2, FleetSets DEF UpToDateNow
<1>5. NeedNow' = NeedNow
    BY <1>0, <1>2
    DEF NeedNow, MachinesNeedingRollout, HasDeletionTimestamp,
        MatchesEtcdadmClusterConfiguration
<1>6. AnnotationInv'
    BY <1>0, <1>1, <1>3, <1>5 DEF RolloutInv, AnnotationInv
<1>7. FleetInv'
    BY <1>0, <1>2, <1>4 DEF RolloutInv, FleetInv
<1>8. CopyInv'
    BY <1>0 DEF RolloutInv, CopyInv, Removing
<1>9. DecisionInv'
    <2>1. 0 \notin OwnedMachines(mach)
        BY FleetSets, MaxMachinesAssumption DEF Ids
    <2>2. (todo' \cup {target'}) \cap OwnedMachines(mach) = {}
        BY <1>0, <1>1, <2>1
    <2> QED  BY <1>0, <1>1, <1>2, <2>2 DEF DecisionInv, Choosing, Removing
<1>10. VerdictInv'
    BY <1>0, <1>1, <1>3, <1>5
    DEF RolloutInv, VerdictInv, Decided, Removing, PcType, Patching
<1>11. OldCopyInv'
    BY <1>0, <1>1 DEF OldCopyInv
<1>12. MiddleInv'
    BY <1>0, <1>3, <1>5 DEF RolloutInv, MiddleInv, Decided, Removing, PcType
<1> QED  BY <1>6, <1>7, <1>8, <1>9, <1>10, <1>11, <1>12 DEF RolloutInv

LEMMA ActKeepsRollout ==
    ASSUME TypeOK, RolloutInv, Act
    PROVE  RolloutInv'
<1>1. CASE CreateFails \/ DisownFails \/ RemovalFails
    <2>1. /\ UNCHANGED <<ec, mach, released, before, cur>> /\ pc' = "check"
          /\ pc \in Decided
        BY <1>1
        DEF CreateFails, DisownFails, RemovalFails, Step, worldVars, Decided, PcType
    <2> QED  BY <2>1, ReportStandsBy DEF FleetKept
<1>2. ~ReconcileDelete /\ ~DeleteEach
    BY DEF ReconcileDelete, DeleteEach, RolloutInv, CopyInv
<1> QED
    BY <1>1, <1>2, CreationKeepsRollout, DisowningKeepsRollout, RemovalKeepsRollout DEF Act

-----------------------------------------------------------------------------
(* Decisions                                                                *)

\* What every verdict of a reconcile keeps to.
Sound(e) ==
    /\ e.replicas = cur.replicas /\ e.ver = cur.ver
    /\ e.cpDone => before.cpDone
    /\ ~e.cpDone => \A m \in DisownedMachines : mach[m].st = "live"
    /\ e.noOutdated = "False" =>
            /\ e.cpDone = before.cpDone
            /\ ec.cpDone \/ DisownedMachines # {}
            /\ before.ready => NeedNow = {}

\* A rollout that is marked, or none.
Marked(e) ==
    /\ e.specUpToDate # "MaxReached"
    /\ e.specUpToDate # "Rolling" /\ DisownedMachines # {} => NeedNow = {}

\* What a decision relies on and has to establish.
LEMMA DecisionMovesOn ==
    ASSUME RolloutInv, pc \in {"decide", "gate"},
           UNCHANGED <<ec, mach, released, before>>,
           pc' \in {"create", "disown", "remove", "gate", "check"},
           pc' # "check" => plane' = plane,
           Sound(cur'), Marked(cur'),
           pc' = "gate" => NeedNow # {},
           pc' = "disown" => target' \in NeedNow /\ cur'.specUpToDate = "Rolling",
           pc' = "create" =>
                /\ Cardinality(UpToDateNow) < ec.replicas
                /\ NeedNow # {} \/ Cardinality(OwnedMachines(mach)) < ec.replicas,
           pc' = "remove" =>
                /\ ec.cpDone /\ cur'.cpDone
                /\ (todo' \cup {target'}) \cap OwnedMachines(mach) = {},
           cur.ver # ec.ver => pc' = "check" /\ cur'.noOutdated # "False"
    PROVE  RolloutInv'
<1>0. /\ EtcdClusterMachines(mach)' = EtcdClusterMachines(mach)
      /\ OwnedMachines(mach)' = OwnedMachines(mach)
      /\ DisownedMachines' = DisownedMachines
      /\ NeedNow' = NeedNow /\ UpToDateNow' = UpToDateNow
    BY SameFleet DEF FleetKept
<1>1. AnnotationInv' /\ FleetInv'
    BY KeptFleet DEF RolloutInv, ObjectKept, FleetKept
<1>2. CopyInv'
    BY DEF RolloutInv, CopyInv, Sound, Marked
<1>3. DecisionInv'
    <2>1. pc' # "check" => Owned' = Owned /\ All' = All
        BY DEF Owned, All
    <2> QED  BY <1>0, <2>1 DEF RolloutInv, DecisionInv, Choosing, Removing
<1>4. VerdictInv'
    BY <1>0 DEF VerdictInv, Sound, Marked, Patching
<1>5. OldCopyInv'
    BY <1>0 DEF RolloutInv, OldCopyInv, Sound, Removing
<1>6. MiddleInv'
    BY <1>0 DEF RolloutInv, MiddleInv, Decided, PcType
<1> QED  BY <1>1, <1>2, <1>3, <1>4, <1>5, <1>6 DEF RolloutInv

\* The facts a decision starts from.
LEMMA FleetOnListing ==
    ASSUME TypeOK, RolloutInv, pc \in {"decide", "gate"}
    PROVE  /\ Owned = OwnedMachines(mach) /\ Owned \subseteq Ids /\ Owned \subseteq All
           /\ UpToDateNow \subseteq Owned /\ NeedNow \subseteq Owned
           /\ \A m \in Owned : plane[m].ver = mach[m].ver /\ ~plane[m].ann
           /\ NeedRollout = {m \in Owned : plane[m].ver # cur.ver}
           /\ cur.ver = ec.ver => NeedRollout = NeedNow
           /\ cur.ver # ec.ver =>
                /\ pc = "decide" /\ NeedRollout = {} /\ Owned = All
                /\ Cardinality(Owned) = cur.replicas /\ cur.noOutdated # "False"
           /\ cur.replicas = ec.replicas /\ ec.replicas > 0 /\ ec.replicas \in Nat
           /\ cur.specUpToDate # "MaxReached"
<1>1. /\ Owned = OwnedMachines(mach) /\ EtcdClusterMachines(mach) \subseteq All
      /\ \A m \in Owned : plane[m].ver = mach[m].ver /\ plane[m].st = "live" /\ ~plane[m].ann
    BY DEF RolloutInv, DecisionInv, Choosing
<1>2. /\ Owned \subseteq Ids /\ Owned \subseteq All
      /\ UpToDateNow \subseteq Owned /\ NeedNow \subseteq Owned
    BY <1>1, FleetSets DEF RolloutInv, FleetInv, Owned, All, OwnedMachines
<1>3. NeedRollout = {m \in Owned : plane[m].ver # cur.ver}
    BY <1>1 DEF NeedRollout, MachinesNeedingRollout, Owned, HasDeletionTimestamp,
                MatchesEtcdadmClusterConfiguration
<1>4. cur.ver = ec.ver => NeedRollout = NeedNow
    <2>1. \A m \in Owned : mach[m].st = "live"
        BY <1>1 DEF RolloutInv, FleetInv
    <2> QED  BY <1>1, <1>2, <1>3, <2>1, FleetSets
<1>5. cur.ver # ec.ver =>
        /\ pc = "decide" /\ Owned = All /\ Cardinality(Owned) = cur.replicas
        /\ cur.noOutdated # "False"
        /\ \A m \in EtcdClusterMachines(mach) : mach[m].ver = cur.ver
    BY DEF RolloutInv, OldCopyInv
<1>6. cur.ver # ec.ver => NeedRollout = {}
    BY <1>1, <1>3, <1>5, FleetSets
<1>7. /\ cur.replicas = ec.replicas /\ ec.replicas > 0 /\ ec.replicas \in Nat
      /\ cur.specUpToDate # "MaxReached"
    BY ReplicasAssumption
    DEF RolloutInv, CopyInv, FleetInv, TypeOK, WorldTypeOK, ClusterType
<1> QED  BY <1>1, <1>2, <1>3, <1>4, <1>5, <1>6, <1>7

\* NoteOutdated is sound, and so is what changes only the other conditions.
LEMMA NoteIsSound ==
    ASSUME TypeOK, RolloutInv, pc = "decide"
    PROVE  /\ Sound(NoteOutdated(cur))
           /\ cur.ver # ec.ver => NoteOutdated(cur).noOutdated # "False"
           /\ Owned # All => NoteOutdated(cur).cpDone = cur.cpDone
<1>0. /\ cur \in ClusterType /\ cur.cpDone = before.cpDone
      /\ NoteOutdated(cur).replicas = cur.replicas /\ NoteOutdated(cur).ver = cur.ver
    BY DecisionKeeps DEF TypeOK, RolloutInv, CopyInv
<1>1. CASE Owned # All
    <2>1. NoteOutdated(cur).noOutdated = "False" /\ NoteOutdated(cur).cpDone = cur.cpDone
        BY <1>0, <1>1 DEF NoteOutdated, ClusterType
    <2>2. cur.ver = ec.ver /\ (ec.cpDone \/ DisownedMachines # {})
        BY <1>1 DEF RolloutInv, DecisionInv, OldCopyInv
    <2>3. before.ready => NeedNow = {}
        BY <2>2 DEF RolloutInv, AnnotationInv, MiddleInv, CopyInv, Decided
    <2> QED  BY <1>0, <2>1, <2>2, <2>3 DEF Sound, RolloutInv, DecisionInv
<1>2. CASE Owned = All
    <2>1. NoteOutdated(cur).noOutdated # "False" /\ ~NoteOutdated(cur).cpDone
        BY <1>0, <1>2 DEF NoteOutdated, ClusterType, ConditionType
    <2>2. DisownedMachines = {}
        BY <1>2 DEF RolloutInv, DecisionInv, Choosing, DisownedMachines
    <2> QED  BY <1>0, <1>2, <2>1, <2>2 DEF Sound
<1> QED  BY <1>1, <1>2

LEMMA SoundAlike ==
    ASSUME NEW e, Sound(e), NEW f,
           f.replicas = e.replicas, f.ver = e.ver,
           f.cpDone = e.cpDone, f.noOutdated = e.noOutdated
    PROVE  Sound(f)
BY DEF Sound

\* A rollout marks what it finds.
LEMMA RollingIsMarked ==
    ASSUME NEW e \in ClusterType, Sound(e)
    PROVE  /\ Sound(MarkRolling(e)) /\ Marked(MarkRolling(e))
           /\ MarkRolling(e).noOutdated = e.noOutdated
           /\ MarkRolling(e).specUpToDate = "Rolling"
<1> DEFINE f == [e EXCEPT !.specUpToDate = "Rolling"]
           g == [f EXCEPT !.certs = "False"]
<1>1. /\ f \in ClusterType /\ f.specUpToDate = "Rolling" /\ f.replicas = e.replicas
      /\ f.ver = e.ver /\ f.cpDone = e.cpDone /\ f.noOutdated = e.noOutdated
    BY DEF ClusterType
<1>2. /\ g.specUpToDate = "Rolling" /\ g.replicas = e.replicas
      /\ g.ver = e.ver /\ g.cpDone = e.cpDone /\ g.noOutdated = e.noOutdated
    <2> HIDE DEF f
    <2> QED  BY <1>1 DEF ClusterType
<1>3. MarkRolling(e) = g
    BY DEF MarkRolling
<1> HIDE DEF g
<1> QED  BY <1>2, <1>3, SoundAlike DEF Marked

\* Without an outdated machine there is nothing to mark.
LEMMA SettledIsSound ==
    ASSUME TypeOK, RolloutInv, pc = "decide", NeedRollout = {}
    PROVE  /\ SettledAndRenewed \in ClusterType
           /\ Sound(SettledAndRenewed) /\ Marked(SettledAndRenewed)
           /\ cur.ver # ec.ver => SettledAndRenewed.noOutdated # "False"
<1> DEFINE e == NoteOutdated(cur)
           f == SettledAndRenewed
<1>1. /\ e \in ClusterType /\ Settled \in ClusterType /\ f \in ClusterType
      /\ cur.specUpToDate # "MaxReached" /\ e.specUpToDate = cur.specUpToDate
    BY DecisionKeeps, SettledType, FleetOnListing DEF TypeOK
<1>2. /\ Settled.specUpToDate # "MaxReached" /\ Settled.replicas = e.replicas
      /\ Settled.ver = e.ver /\ Settled.cpDone = e.cpDone
      /\ Settled.noOutdated = e.noOutdated
    <2> HIDE DEF e
    <2> QED  BY <1>1 DEF Settled, ClusterType, e
<1>3. /\ f.specUpToDate = Settled.specUpToDate /\ f.replicas = Settled.replicas
      /\ f.ver = Settled.ver /\ f.cpDone = Settled.cpDone
      /\ f.noOutdated = Settled.noOutdated
    BY <1>1 DEF SettledAndRenewed, ClusterType
<1> HIDE DEF e, f
<1>4. Sound(f)
    BY <1>2, <1>3, NoteIsSound, SoundAlike DEF e
<1>5. cur.ver # ec.ver => f.noOutdated # "False"
    BY <1>2, <1>3, NoteIsSound DEF e
<1>6. DisownedMachines # {} => NeedNow = {}
    <2>1. cur.ver # ec.ver => DisownedMachines = {}
        BY FleetSets DEF RolloutInv, OldCopyInv
    <2> QED  BY <2>1, FleetOnListing
<1> QED  BY <1>1, <1>2, <1>3, <1>4, <1>5, <1>6 DEF Marked, f

\* There are never more machines of the newest spec than replicas.
LEMMA MaximumNotReached ==
    ASSUME TypeOK, RolloutInv, pc = "decide", NeedRollout # {}
    PROVE  ~MaxReached
<1> DEFINE Old == OutOfDateMachines(plane, cur.ver)
           New == All \ Old
<1>1. cur.ver = ec.ver
    BY FleetOnListing
<1>2. New \subseteq UpToDateNow
    <2>1. New \subseteq Owned
        BY DEF OutOfDateMachines, MatchesEtcdadmClusterConfiguration, All, RolloutInv, DecisionInv
    <2>2. \A m \in New : plane[m].ver = cur.ver
        BY DEF OutOfDateMachines, MatchesEtcdadmClusterConfiguration, All
    <2> HIDE DEF New
    <2> QED  BY <1>1, <2>1, <2>2, FleetOnListing, FleetSets
<1>3. IsFiniteSet(All) /\ IsFiniteSet(UpToDateNow) /\ Old \subseteq All
    BY IdsFinite, FS_Subset, FleetSets DEF All, EtcdClusterMachines, OutOfDateMachines
<1>4. Cardinality(New) <= cur.replicas
    <2>1. Cardinality(New) <= Cardinality(UpToDateNow)
        BY <1>2, <1>3, FS_Subset
    <2>2. Cardinality(UpToDateNow) <= cur.replicas
        BY FleetOnListing DEF RolloutInv, FleetInv
    <2>3. Cardinality(New) \in Nat /\ Cardinality(UpToDateNow) \in Nat /\ cur.replicas \in Nat
        BY <1>3, FS_Subset, FS_CardinalityType, FleetOnListing
    <2> QED  BY <2>1, <2>2, <2>3
<1>5. Cardinality(New) = Cardinality(All) - Cardinality(Old)
    <2>1. All \cap Old = Old
        BY <1>3
    <2> QED  BY <1>3, <2>1, FS_Difference
<1>6. /\ Cardinality(All) \in Nat /\ Cardinality(Old) \in Nat /\ cur.replicas \in Nat
    BY <1>3, FS_Subset, FS_CardinalityType, FleetOnListing
<1> QED  BY <1>4, <1>5, <1>6 DEF MaxReached

\* One more machine, or one outdated machine less.
LEMMA UpgradeKeepsRollout ==
    ASSUME TypeOK, RolloutInv, pc \in {"decide", "gate"}, NeedRollout # {},
           NEW e \in ClusterType, Sound(e), upgradeEtcdCluster(e)
    PROVE  RolloutInv'
<1>0. cur.ver = ec.ver /\ NeedRollout = NeedNow
    BY FleetOnListing
<1>1. /\ cur' = MarkRolling(e) /\ UNCHANGED <<worldVars, before, plane>>
      /\ \/ pc' = "create" /\ UpgradeScalesUp
         \/ pc' = "disown" /\ target' \in selectMachineForScaleDown(plane, NeedRollout)
    BY DEF upgradeEtcdCluster, Continue, PlaneAt
<1>2. Sound(cur') /\ Marked(cur')
    BY <1>1, RollingIsMarked
<1>3. pc' = "create" => Cardinality(UpToDateNow) < ec.replicas
    <2> SUFFICES ASSUME UpgradeScalesUp PROVE Cardinality(UpToDateNow) < ec.replicas
        BY <1>1
    <2>1. IsFiniteSet(Owned) /\ UpToDateNow \subseteq Owned /\ UpToDateNow # Owned
        BY <1>0, FleetOnListing, IdsFinite, FS_Subset, FleetSets
    <2>2. /\ Cardinality(UpToDateNow) <= Cardinality(Owned)
          /\ Cardinality(UpToDateNow) # Cardinality(Owned)
          /\ Cardinality(UpToDateNow) \in Nat /\ Cardinality(Owned) \in Nat
        BY <2>1, FS_Subset, FS_CardinalityType
    <2>3. Cardinality(Owned) <= ec.replicas /\ ec.replicas \in Nat
        BY <2>2, FleetOnListing DEF UpgradeScalesUp
    <2> QED  BY <2>2, <2>3
<1>4. pc' = "disown" => target' \in NeedNow /\ cur'.specUpToDate = "Rolling"
    <2>1. NeedRollout \subseteq Owned /\ \A m \in Owned : ~plane[m].ann
        BY FleetOnListing
    <2>2. selectMachineForScaleDown(plane, NeedRollout) \subseteq NeedRollout
        BY <2>1, SelectsOutdated DEF Owned
    <2> QED  BY <1>0, <1>1, <2>2, RollingIsMarked
<1> QED
    BY <1>0, <1>1, <1>2, <1>3, <1>4, DecisionMovesOn DEF worldVars

\* No outdated machine: the first machine, one more, or nothing.
LEMMA SettledKeepsRollout ==
    ASSUME TypeOK, SerialWorld, RolloutInv,
           \/ CertRenewalFails \/ InitializeCluster \/ AwaitInitialization
           \/ ScaleUp \/ ScaleDown \/ NothingToDo
    PROVE  RolloutInv'
<1>0. /\ pc = "decide" /\ NeedRollout = {}
      /\ Sound(SettledAndRenewed) /\ Marked(SettledAndRenewed)
      /\ SettledAndRenewed \in ClusterType
      /\ cur.ver # ec.ver => SettledAndRenewed.noOutdated # "False"
    BY SettledIsSound
    DEF CertRenewalFails, InitializeCluster, AwaitInitialization, ScaleUp, ScaleDown,
        NothingToDo, Sized, NoRollout, NoRemoval
<1>1. ASSUME NEW e, Continue("check", e), Sound(e), Marked(e),
             cur.ver # ec.ver => e.noOutdated # "False"
      PROVE  RolloutInv'
    <2>1. /\ UNCHANGED <<ec, mach, released, before>> /\ pc' = "check" /\ cur' = e
        BY <1>1 DEF Continue, worldVars
    <2> QED  BY <1>0, <1>1, <2>1, DecisionMovesOn
<1>2. ASSUME NEW e, Continue("create", e), Sound(e), Marked(e),
             Cardinality(Owned) < cur.replicas
      PROVE  RolloutInv'
    <2>1. /\ UNCHANGED <<ec, mach, released, before, plane>> /\ pc' = "create" /\ cur' = e
        BY <1>2 DEF Continue, PlaneAt, worldVars
    <2>2. cur.ver = ec.ver /\ cur.replicas = ec.replicas /\ Owned = OwnedMachines(mach)
          /\ UpToDateNow \subseteq Owned /\ Owned \subseteq Ids
          /\ Cardinality(Owned) < ec.replicas /\ ec.replicas \in Nat
        <3>1. cur.replicas \in Nat => ~(Cardinality(Owned) = cur.replicas)
            BY <1>2
        <3> QED  BY <1>2, <3>1, FleetOnListing, <1>0
    <2>3. Cardinality(UpToDateNow) < ec.replicas
        BY <2>2, FewerMachines
    <2> QED  BY <1>0, <1>2, <2>1, <2>2, <2>3, DecisionMovesOn
<1> DEFINE s == SettledAndRenewed
<1> HIDE DEF s
<1>3. s \in ClusterType /\ Sound(s) /\ Marked(s)
      /\ (cur.ver # ec.ver => s.noOutdated # "False")
    BY <1>0 DEF s
<1>4. CASE InitializeCluster
    <2> DEFINE i == [s EXCEPT !.initCond = "False"]
               c == [i EXCEPT !.certs = "True"]
    <2>1. Continue("create", c) /\ Owned = {}
        BY <1>4 DEF InitializeCluster, SerialWorld, s
    <2>2. /\ i \in ClusterType /\ i.replicas = s.replicas /\ i.ver = s.ver
          /\ i.cpDone = s.cpDone /\ i.noOutdated = s.noOutdated
          /\ i.specUpToDate = s.specUpToDate
        BY <1>3 DEF ClusterType, ConditionType
    <2>3. /\ c.replicas = s.replicas /\ c.ver = s.ver
          /\ c.cpDone = s.cpDone /\ c.noOutdated = s.noOutdated
          /\ c.specUpToDate = s.specUpToDate
        <3> HIDE DEF i
        <3> QED  BY <2>2 DEF ClusterType
    <2>4. Cardinality(Owned) < cur.replicas
        BY <1>0, <2>1, FS_EmptySet, FleetOnListing
    <2> HIDE DEF c
    <2> QED  BY <1>2, <1>3, <2>1, <2>3, <2>4, SoundAlike DEF Marked
<1>5. CASE AwaitInitialization
    <2> DEFINE c == [s EXCEPT !.initCond = IF cur.initialized THEN "True" ELSE @]
    <2>1. Continue("check", c)
        BY <1>5 DEF AwaitInitialization, s
    <2>2. /\ c.replicas = s.replicas /\ c.ver = s.ver
          /\ c.cpDone = s.cpDone /\ c.noOutdated = s.noOutdated
          /\ c.specUpToDate = s.specUpToDate
        BY <1>3 DEF ClusterType
    <2> HIDE DEF c
    <2> QED  BY <1>1, <1>3, <2>1, <2>2, SoundAlike DEF Marked
<1>6. CASE ScaleUp
    BY <1>2, <1>3, <1>6 DEF ScaleUp, s
<1>7. CASE NothingToDo
    BY <1>1, <1>3, <1>7 DEF NothingToDo, s
<1>8. ~ScaleDown
    <2> SUFFICES ASSUME ScaleDown PROVE FALSE
        OBVIOUS
    <2>1. Cardinality(Owned) > cur.replicas /\ cur.replicas \in Nat
        BY <1>0, FleetOnListing DEF ScaleDown
    <2>2. cur.ver = ec.ver
        BY <1>0, <2>1, FleetOnListing
    <2>3. Owned \subseteq UpToDateNow
        BY <1>0, <2>2, FleetOnListing, FleetSets
    <2>4. UpToDateNow \subseteq Ids
        BY FleetSets
    <2>5. /\ Cardinality(Owned) <= Cardinality(UpToDateNow)
          /\ Cardinality(Owned) \in Nat /\ Cardinality(UpToDateNow) \in Nat
        BY <2>3, <2>4, FewerMachines
    <2>6. Cardinality(UpToDateNow) <= cur.replicas
        BY <1>0, FleetOnListing DEF RolloutInv, FleetInv
    <2> QED  BY <2>1, <2>5, <2>6
<1>9. ~CertRenewalFails
    BY DEF CertRenewalFails, SerialWorld
<1> QED  BY <1>4, <1>5, <1>6, <1>7, <1>8, <1>9

LEMMA DecideKeepsRollout ==
    ASSUME TypeOK, SerialWorld, RolloutInv, Decide
    PROVE  RolloutInv'
<1>0. cur \in ClusterType
    BY DEF TypeOK
<1>1. CASE pc = "gate"
    <2>1. /\ cur.ver = ec.ver /\ NeedNow # {} /\ NeedRollout # {} /\ Sound(cur)
        BY <1>1, FleetOnListing
        DEF RolloutInv, DecisionInv, OldCopyInv, VerdictInv, CopyInv, Sound, Decided, PcType
    <2>2. CASE GateFails
        <3>1. UNCHANGED <<ec, mach, released, before, cur>> /\ pc' = "check"
            BY <2>2 DEF GateFails, Continue, worldVars
        <3> QED  BY <1>1, <3>1, ReportStandsBy DEF FleetKept, Decided, PcType
    <2>3. CASE GatePasses
        BY <1>0, <1>1, <2>1, <2>3, UpgradeKeepsRollout DEF GatePasses
    <2> QED
        BY <1>1, <2>2, <2>3
        DEF Decide, ReconcileFails, RemoveOutdatedMembers, HoldAtMaximum, RolloutWaits,
            RolloutChecksNewest, RolloutGoesOn, RolloutStarts, CertRenewalFails,
            InitializeCluster, AwaitInitialization, ScaleUp, ScaleDown, NothingToDo,
            Sized, NoRollout, NoRemoval
<1>2. CASE pc = "decide"
    <2> DEFINE n == NoteOutdated(cur)
    <2>0. /\ n \in ClusterType /\ Sound(n) /\ n.specUpToDate = cur.specUpToDate
          /\ cur.specUpToDate # "MaxReached"
          /\ cur.ver # ec.ver => n.noOutdated # "False"
        BY <1>0, <1>2, DecisionKeeps, NoteIsSound, FleetOnListing
    <2>1. CASE RemoveOutdatedMembers
        <3>1. /\ pc' = "remove" /\ cur' = n /\ todo' = All \ Owned
              /\ UNCHANGED <<ec, mach, released, before, plane, target>>
              /\ Owned # All /\ cur.cpDone
            BY <2>1 DEF RemoveOutdatedMembers, Continue, PlaneAt, worldVars
        <3>2. cur.ver = ec.ver /\ n.cpDone /\ ec.cpDone /\ NeedNow = {}
            BY <1>2, <3>1, NoteIsSound, FleetOnListing
            DEF RolloutInv, CopyInv, AnnotationInv
        <3>3. target = 0 /\ 0 \notin Owned /\ Owned = OwnedMachines(mach)
            BY <1>2, FleetOnListing, MaxMachinesAssumption DEF TypeOK, Ids
        <3>4. Marked(n)
            BY <2>0, <3>2 DEF Marked
        <3> HIDE DEF n
        <3> QED  BY <1>2, <2>0, <3>1, <3>2, <3>3, <3>4, DecisionMovesOn
    <2>2. ASSUME RolloutWaits \/ RolloutChecksNewest PROVE RolloutInv'
        <3>1. /\ pc' \in {"check", "gate"} /\ cur' = n
              /\ pc' # "check" => plane' = plane
              /\ UNCHANGED <<ec, mach, released, before>>
              /\ NeedRollout # {} /\ SpecOutOfDate(cur)
            BY <2>2
            DEF RolloutWaits, RolloutChecksNewest, RolloutGoesOn, RolloutUnderWay, Continue,
                PlaneAt, worldVars
        <3>2. n.specUpToDate = "Rolling" /\ cur.ver = ec.ver /\ NeedNow # {}
            BY <1>2, <2>0, <3>1, FleetOnListing DEF SpecOutOfDate
        <3>3. Marked(n)
            BY <3>2 DEF Marked
        <3> HIDE DEF n
        <3> QED  BY <1>2, <2>0, <3>1, <3>2, <3>3, DecisionMovesOn
    <2>3. CASE RolloutStarts
        BY <1>2, <2>0, <2>3, UpgradeKeepsRollout DEF RolloutStarts
    <2>4. ~HoldAtMaximum
        BY <1>2, MaximumNotReached DEF HoldAtMaximum
    <2> QED
        BY <1>2, <2>1, <2>2, <2>3, <2>4, SettledKeepsRollout
        DEF Decide, ReconcileFails, GatePasses, GateFails, SerialWorld
<1> QED  BY <1>1, <1>2, DecideEffect

-----------------------------------------------------------------------------
(* The theorem                                                              *)

LEMMA RolloutInit == Init => ReleasedInv /\ RolloutInv
<1> SUFFICES ASSUME Init PROVE ReleasedInv /\ RolloutInv
    OBVIOUS
<1>1. /\ \A m \in Ids : mach[m].st = "none" /\ ~mach[m].ann
      /\ pc = "idle"
    BY DEF Init, WorldInit, RecInit, Unborn
<1>2. /\ EtcdClusterMachines(mach) = {} /\ OwnedMachines(mach) = {}
      /\ DisownedMachines = {} /\ NeedNow = {} /\ UpToDateNow = {}
    BY <1>1 DEF DisownedMachines, NeedNow, UpToDateNow, MachinesNeedingRollout,
                OwnedMachines, EtcdClusterMachines
<1>3. /\ ec.replicas > 0 /\ ec.replicas \in Nat /\ ~ec.cpDone
      /\ ec.specUpToDate = "Unknown" /\ ec.noOutdated = "Unknown"
      /\ ec.exists
    BY ReplicasAssumption DEF Init, WorldInit, NewCluster, validateCommon
<1>4. Cardinality(UpToDateNow) <= ec.replicas
    BY <1>2, <1>3, FS_EmptySet
<1>5. AnnotationInv /\ FleetInv /\ MiddleInv
    BY <1>1, <1>2, <1>3, <1>4 DEF AnnotationInv, FleetInv, MiddleInv
<1> QED
    BY <1>1, <1>5
    DEF ReleasedInv, RolloutInv, CopyInv, DecisionInv, VerdictInv, OldCopyInv, Choosing,
        Removing, Decided

LEMMA KeptNext ==
    SerialWorld /\ TypeOK /\ DealtInv /\ KeptInv /\ [Next]_vars => KeptInv'
<1> SUFFICES ASSUME SerialWorld, TypeOK, DealtInv, KeptInv, [Next]_vars PROVE KeptInv'
    OBVIOUS
<1>1. ReleasedInv'
    BY ReleasedNext
<1>2. ASSUME ~ec'.del PROVE RolloutInv'
    <2>1. ec.del => ec'.del
        <3>1. WorldNext => (ec.del => ec'.del)
            BY WorldEffect
        <3>2. Act \/ Decide => ec' = ec
            BY ActEffect, DecideEffect DEF worldVars
        <3>3. AddFinalizer \/ PatchEtcdCluster => (ec.del => ec'.del)
            BY PatchEffect DEF SameSpec
        <3>4. UNCHANGED vars \/ Reconcile \/ Restart => ec' = ec
            BY DEF vars, worldVars, Reconcile, Restart, ProcessLost
        <3>5. Report => ec' = ec \/ PatchEtcdCluster
            BY DEF Report, CheckOwnedMachines, CheckFails, worldVars, StatusDeleting,
                   StatusResizing, StatusUnhealthy, StatusReady, StatusNewEndpoints,
                   ToPatch
        <3> QED
            BY <3>1, <3>2, <3>3, <3>4, <3>5 DEF Next, ReconcilerNext, Working
    <2>2. RolloutInv /\ ~ec.del
        BY <1>2, <2>1 DEF KeptInv
    <2>3. CASE WorldNext
        BY <1>2, <2>2, <2>3, WorldKeepsRollout
    <2>4. CASE UNCHANGED vars
        BY <2>2, <2>4, RolloutStutters DEF vars, worldVars, recVars, FleetKept, ObjectKept
    <2>5. CASE AddFinalizer
        BY <2>2, <2>5, FinalizerKeepsRollout
    <2>6. CASE Restart
        BY <2>2, <2>6, LossKeepsRollout
    <2> QED
        BY <2>2, <2>3, <2>4, <2>5, <2>6, BeginKeepsRollout, DecideKeepsRollout,
           ActKeepsRollout, ReportKeepsRollout DEF Next, ReconcilerNext, Working
<1> QED  BY <1>1, <1>2 DEF KeptInv

\* With changes one after the other and every call of a patch made, no machine
\* that was disowned is removed before the control plane that uses it has been
\* upgraded, whenever the cluster is deleted;  beside a single replica not even
\* a kill between two calls of a patch changes that (reconcile, the loop over
\* outdatedMachines).
THEOREM DisownedWait == SerialWorld /\ Spec => DisownedKept
<1>1. TypeOK /\ KeptInv /\ [Next]_vars =>
        [DeleteMachine /\ mach[target].st = "live" /\ ~mach[target].owned
            => target \in released]_vars
    <2> SUFFICES ASSUME TypeOK, KeptInv, DeleteMachine, mach[target].st = "live",
                        ~mach[target].owned
                 PROVE  target \in released
        OBVIOUS
    <2>1. target \in Ids /\ pc \in Removing
        BY DEF DeleteMachine, TypeOK, Removing
    <2>2. target \in DisownedMachines
        BY <2>1, FleetSets DEF EtcdClusterMachines
    <2> QED  BY <2>1, <2>2 DEF KeptInv, ReleasedInv
<1>2. SerialWorld => SerialWorld'
    BY DEF SerialWorld
<1>3. Init => KeptInv
    BY RolloutInit DEF KeptInv
<1> QED
    BY TypeInit, TypeNext, DealtInit, DealtNext, KeptNext, <1>1, <1>2, <1>3, PTL
    DEF Spec, DisownedKept
=============================================================================
