------------------------------ MODULE SecretProofs ------------------------------
(***************************************************************************)
(* What the status says.  The secret with the join address keeps up with   *)
(* the endpoints of the status: EndpointsPublished for every number of     *)
(* machines and every way the user scales, as long as the controller is    *)
(* not killed, no call fails, no copy of the object is old, and the spec   *)
(* of the machines stays as it is (ConstantSpec).  Two statements of the   *)
(* repository that some execution refutes hold in all the others: without  *)
(* answers that are not 200, Ready stands for machines that have passed    *)
(* their health check, and without crashes, failing calls and old copies   *)
(* of the object the Initialized condition is there.                       *)
(***************************************************************************)
EXTENDS MCReconciler, RolloutProofs

-----------------------------------------------------------------------------
(* Steps that leave the machines where they are *)

Machines == EtcdClusterMachines(mach)

\* No machine comes or goes, and none loses its etcd.
MachinesKept ==
    /\ Machines' = Machines
    /\ \A m \in Machines :
        /\ mach'[m].st = mach[m].st /\ mach'[m].owned = mach[m].owned
        /\ mach'[m].ver = mach[m].ver
        /\ mach[m].boot = "joined" => mach'[m].boot = "joined"

\* The fields of the object that the invariant speaks of.
ObjectKept ==
    UNCHANGED <<ec.exists, ec.del, ec.ver, ec.initialized, ec.initCond, ec.endpoints>>

LEMMA SameMachines ==
    ASSUME mach' = mach PROVE MachinesKept
BY DEF MachinesKept, Machines

LEMMA BootKeepsMachines ==
    ASSUME mach \in [Ids -> MachineType], NEW m \in Ids,
           \/ mach' = [mach EXCEPT ![m].boot = "addr"] /\ mach[m].boot = "new"
           \/ mach' = [mach EXCEPT ![m].boot = "joined"]
           \/ mach' = [mach EXCEPT ![m].ann = TRUE]
    PROVE  MachinesKept
<1> DEFINE Same(r, s) == /\ s.st = r.st /\ s.owned = r.owned /\ s.ver = r.ver
                         /\ r.boot = "joined" => s.boot = "joined"
<1>1. \A r \in MachineType : /\ r.boot = "new" => Same(r, [r EXCEPT !.boot = "addr"])
                             /\ Same(r, [r EXCEPT !.boot = "joined"])
                             /\ Same(r, [r EXCEPT !.ann = TRUE])
    BY DEF MachineType
<1>2. \/ mach' = [mach EXCEPT ![m] = [mach[m] EXCEPT !.boot = "addr"]] /\ mach[m].boot = "new"
      \/ mach' = [mach EXCEPT ![m] = [mach[m] EXCEPT !.boot = "joined"]]
      \/ mach' = [mach EXCEPT ![m] = [mach[m] EXCEPT !.ann = TRUE]]
    OBVIOUS
<1>3. Same(mach[m], mach'[m]) /\ \A k \in Ids \ {m} : mach'[k] = mach[k]
    <2> HIDE DEF Same
    <2> QED  BY <1>1, <1>2
<1> QED  BY <1>3 DEF MachinesKept, Machines, EtcdClusterMachines

\* Nothing happens that the invariant speaks of.
LEMMA PublishedStutters ==
    ASSUME PublishedInv, MachinesKept, ObjectKept, ec'.replicas > 0,
           UNCHANGED <<members, secret>>, UNCHANGED recVars
    PROVE  PublishedInv'
<1>1. UniformInv'
    BY DEF PublishedInv, UniformInv, MachinesKept, Machines, ObjectKept, recVars, All
<1>2. Young' = Young /\ CurrEndpoints' = CurrEndpoints /\ All' = All
    BY DEF Young, ObjectKept, recVars, CurrEndpoints, All
<1>3. YoungInv'
    BY <1>2 DEF PublishedInv, YoungInv, MachinesKept, Machines, ObjectKept, recVars
<1>4. SecretInv'
    BY DEF PublishedInv, SecretInv, ObjectKept, recVars
<1> QED  BY <1>1, <1>3, <1>4 DEF PublishedInv

\* Once the reconcile in progress knows the name of the secret, a step that
\* leaves secret and endpoints alone has nothing left to show but uniformity.
LEMMA OldPublished ==
    ASSUME PublishedInv, ~Young,
           UNCHANGED <<ec, secret, pc, cur>>, UniformInv'
    PROVE  PublishedInv'
BY DEF PublishedInv, YoungInv, SecretInv, Young

LEMMA InitMemberPublished ==
    ASSUME TypeOK, PublishedInv, NEW m \in Ids, InitMember(m), UNCHANGED recVars
    PROVE  PublishedInv'
<1>0. ec \in ClusterType /\ mach \in [Ids -> MachineType]
    BY DEF TypeOK, WorldTypeOK
<1>1. /\ Young /\ Machines = {m} /\ mach[m].st = "live"
      /\ members = {} /\ ec.endpoints = {}
    <2>1. Young /\ m \in Machines
        BY DEF InitMember, Young, Machines, EtcdClusterMachines
    <2> QED  BY <2>1 DEF PublishedInv, YoungInv, InitMember, Machines
<1>2. MachinesKept /\ mach'[m].boot = "joined"
    <2>1. MachinesKept
        BY <1>0, BootKeepsMachines DEF InitMember
    <2>2. \A r \in MachineType : [r EXCEPT !.boot = "joined"].boot = "joined"
        BY DEF MachineType
    <2>3. mach' = [mach EXCEPT ![m] = [mach[m] EXCEPT !.boot = "joined"]]
        BY DEF InitMember
    <2> QED  BY <1>0, <2>1, <2>2, <2>3
<1>3. /\ ec'.initialized
      /\ UNCHANGED <<ec.exists, ec.del, ec.ver, ec.replicas, ec.initCond, ec.endpoints>>
    BY <1>0 DEF InitMember, ClusterType
<1>4. members' = {m} /\ secret' = {m} /\ ~ec.initialized
    BY <1>1 DEF InitMember
<1>5. UNCHANGED <<pc, cur, before, plane, checked>> /\ CurrEndpoints' = CurrEndpoints
    BY DEF recVars, CurrEndpoints
<1>6. pc # "idle" => ~cur.initialized
    BY <1>4 DEF PublishedInv, UniformInv
<1>7. UniformInv'
    BY <1>2, <1>3, <1>5 DEF PublishedInv, UniformInv, MachinesKept, Machines, All
<1>8. YoungInv'
    BY <1>1, <1>2, <1>3, <1>4, <1>5, <1>6
    DEF PublishedInv, YoungInv, MachinesKept, Machines, All, Young
<1>9. SecretInv'
    BY <1>1, <1>3, <1>5, <1>6 DEF PublishedInv, YoungInv, SecretInv
<1> QED  BY <1>7, <1>8, <1>9 DEF PublishedInv

LEMMA WorldPublished ==
    ASSUME TypeOK, PublishedInv, ConstantSpec, WorldNext
    PROVE  PublishedInv'
<1>0. /\ ec \in ClusterType /\ mach \in [Ids -> MachineType]
      /\ ec.replicas > 0 /\ UNCHANGED recVars
    BY DEF TypeOK, WorldTypeOK, WorldNext, PublishedInv, UniformInv
<1>1. ASSUME NEW m \in Ids, AssignAddress(m) \/ JoinMember(m) \/ AnnotateMachine(m)
      PROVE  MachinesKept /\ ec' = ec /\ secret' = secret
    BY <1>0, <1>1, BootKeepsMachines DEF AssignAddress, JoinMember, AnnotateMachine
<1>2. CASE \E m \in Ids : AssignAddress(m) \/ AnnotateMachine(m)
    BY <1>0, <1>1, <1>2, PublishedStutters DEF AssignAddress, AnnotateMachine, ObjectKept
<1>3. ASSUME NEW m \in Ids, JoinMember(m) PROVE PublishedInv'
    <2>1. ~Young
        BY <1>3 DEF JoinMember, PublishedInv, YoungInv, Machines, EtcdClusterMachines
    <2>2. UniformInv'
        BY <1>0, <1>1, <1>3
        DEF PublishedInv, UniformInv, MachinesKept, Machines, All, recVars
    <2> QED  BY <1>0, <1>1, <1>3, <2>1, <2>2, OldPublished DEF recVars
<1>4. ASSUME NEW m \in Ids, FinishMachineDeletion(m) PROVE PublishedInv'
    <2>1. ~Young
        BY <1>4 DEF FinishMachineDeletion, PublishedInv, YoungInv, Machines, EtcdClusterMachines
    <2>2. mach'[m].st = "gone" /\ \A k \in Ids \ {m} : mach'[k] = mach[k]
        BY <1>0, <1>4 DEF FinishMachineDeletion, Removed, Unborn
    <2>3. ec' = ec /\ secret' = secret
        BY <1>4 DEF FinishMachineDeletion
    <2>4. UniformInv'
        BY <1>0, <2>2, <2>3 DEF PublishedInv, UniformInv, EtcdClusterMachines, All, recVars
    <2> QED  BY <1>0, <2>1, <2>3, <2>4, OldPublished DEF recVars
<1>5. ASSUME NEW r \in Replicas, Scale(r) PROVE PublishedInv'
    <2>1. ObjectKept /\ ec'.replicas = r /\ r > 0
        BY <1>0, <1>5 DEF Scale, ObjectKept, ClusterType, validateCommon
    <2> QED  BY <1>0, <1>5, <2>1, SameMachines, PublishedStutters DEF Scale
<1>6. CASE SyncCluster \/ SyncMachines
    BY <1>0, <1>6, SameMachines, PublishedStutters DEF SyncCluster, SyncMachines, ObjectKept
<1>7. UserNext => (\E r \in Replicas : Scale(r)) \/ \E m \in Ids : AnnotateMachine(m)
    BY DEF UserNext, ConstantSpec, Upgrade, CompleteControlPlaneUpgrade, DeleteCluster,
           DeleteMachineByHand
<1> QED
    BY <1>0, <1>2, <1>3, <1>4, <1>5, <1>6, <1>7, InitMemberPublished DEF WorldNext, InfraNext

-----------------------------------------------------------------------------
(* A reconcile at work *)

\* What the reconcile knows of the object and does not change on the way.
SameObject(e, f) ==
    /\ e.ver = f.ver /\ e.replicas = f.replicas /\ e.del = f.del
    /\ e.initialized = f.initialized /\ e.endpoints = f.endpoints

Later == PcType \ {"idle", "addFinalizer", "decide", "gate", "disown", "delete", "deleteAll"}

LEMMA WorkPublished ==
    ASSUME PublishedInv, MachinesKept, UNCHANGED <<ec, before, members, secret>>,
           pc # "idle", pc' \in Later, SameObject(cur', cur),
           pc' = "create" => plane' = plane /\ pc = "decide",
           Young =>
            /\ Machines # {} => cur'.initCond = "False"
            /\ pc' = "create" => Machines = {} /\ cur'.initCond = "False"
            /\ pc' \in {"check", "status", "patch", "create"}
            /\ pc' = "status" => CurrEndpoints' \subseteq members
    PROVE  PublishedInv'
<1> USE DEF SameObject, Later, PcType
<1>1. UniformInv'
    BY DEF PublishedInv, UniformInv, MachinesKept, Machines, All
<1>2. Young' = Young
    BY DEF Young
<1>3. YoungInv'
    BY <1>2 DEF PublishedInv, YoungInv, MachinesKept, Machines, All
<1>4. SecretInv'
    BY DEF PublishedInv, SecretInv
<1> QED  BY <1>1, <1>3, <1>4 DEF PublishedInv

\* All listed machines are owned and as the spec wants them.
LEMMA UniformListing ==
    ASSUME PublishedInv, pc = "decide"
    PROVE  /\ Owned = All /\ NeedRollout = {}
           /\ Young => All = Machines /\ (All # {} => cur.initCond = "False")
           /\ Young => ~cur.initialized
BY DEF PublishedInv, UniformInv, YoungInv, Young, Owned, OwnedMachines, All, Machines,
       NeedRollout, MachinesNeedingRollout, MatchesEtcdadmClusterConfiguration

LEMMA SettledKeeps ==
    ASSUME cur \in ClusterType
    PROVE  SameObject(SettledAndRenewed, cur) /\ SettledAndRenewed.initCond = cur.initCond
<1> DEFINE Like(e) == SameObject(e, cur) /\ e.initCond = cur.initCond
<1> USE DEF SameObject
<1>1. NoteOutdated(cur) \in ClusterType /\ Like(NoteOutdated(cur))
    <2> DEFINE n == NoteOutdated(cur)
    <2>1. n \in ClusterType /\ n.ver = cur.ver /\ n.replicas = cur.replicas
        BY DecisionKeeps, DecisionType
    <2>2. n.del = cur.del /\ n.initialized = cur.initialized
        BY DEF NoteOutdated, ClusterType
    <2>3. n.endpoints = cur.endpoints /\ n.initCond = cur.initCond
        BY DEF NoteOutdated, ClusterType
    <2> QED  BY <2>1, <2>2, <2>3
<1>2. Settled \in ClusterType /\ Like(Settled)
    BY <1>1, SettledType DEF Settled, ClusterType
<1> QED  BY <1>2 DEF SettledAndRenewed, ClusterType

LEMMA DecidePublished ==
    ASSUME TypeOK, PublishedInv, ConstantSpec, Decide
    PROVE  PublishedInv'
<1> DEFINE s == SettledAndRenewed
<1>0. s \in ClusterType /\ SameObject(s, cur) /\ s.initCond = cur.initCond
    BY SettledType, SettledKeeps DEF TypeOK
<1>1. pc = "decide" /\ pc # "idle"
    BY DEF Decide, ReconcileFails, RemoveOutdatedMembers, HoldAtMaximum, RolloutWaits,
           RolloutChecksNewest, RolloutStarts, GatePasses, GateFails, CertRenewalFails,
           InitializeCluster, AwaitInitialization, ScaleUp, ScaleDown, NothingToDo,
           RolloutGoesOn, Sized, NoRollout, NoRemoval, PublishedInv, UniformInv
<1>2. /\ Owned = All /\ NeedRollout = {}
      /\ Young => All = Machines /\ (All # {} => cur.initCond = "False")
      /\ Young => ~cur.initialized
    BY <1>1, UniformListing
<1>3. ASSUME NEW next \in {"check", "create", "remove"}, NEW e, Continue(next, e),
             SameObject(e, cur),
             Young => /\ Machines # {} => e.initCond = "False"
                      /\ next # "remove"
                      /\ next = "create" => Machines = {} /\ e.initCond = "False"
      PROVE  PublishedInv'
    <2>1. /\ pc' = next /\ cur' = e /\ UNCHANGED <<ec, before, members, secret>>
          /\ mach' = mach
          /\ next = "create" => plane' = plane
        BY <1>3 DEF Continue, PlaneAt, worldVars
    <2>2. pc' \in Later
        BY <2>1 DEF Later, PcType
    <2>3. Young => /\ Machines # {} => cur'.initCond = "False"
                   /\ pc' = "create" => Machines = {} /\ cur'.initCond = "False"
                   /\ pc' \in {"check", "status", "patch", "create"}
                   /\ pc' = "status" => CurrEndpoints' \subseteq members
        BY <1>3, <2>1
    <2>4. SameObject(cur', cur)
        BY <1>3, <2>1
    <2>5. MachinesKept
        BY <2>1, SameMachines
    <2> QED  BY <1>1, <2>1, <2>2, <2>3, <2>4, <2>5, WorkPublished
<1>4. CASE InitializeCluster
    <2> DEFINE i == [s EXCEPT !.initCond = "False"]
               c == [i EXCEPT !.certs = "True"]
    <2>1. Continue("create", c) /\ Owned = {}
        BY <1>4 DEF InitializeCluster, ConstantSpec
    <2>2. i \in ClusterType /\ SameObject(i, cur) /\ i.initCond = "False"
        <3> HIDE DEF s
        <3> QED  BY <1>0 DEF ClusterType, ConditionType, SameObject
    <2>3. SameObject(c, cur) /\ c.initCond = "False"
        <3> HIDE DEF i
        <3> QED  BY <2>2 DEF ClusterType, SameObject
    <2> HIDE DEF c
    <2> QED  BY <1>2, <1>3, <2>1, <2>3
<1>5. CASE AwaitInitialization
    <2> DEFINE e == [s EXCEPT !.initCond = IF cur.initialized THEN "True" ELSE @]
    <2>1. Continue("check", e)
        BY <1>5 DEF AwaitInitialization
    <2>2. SameObject(e, cur) /\ (Young => e.initCond = cur.initCond)
        <3> HIDE DEF s
        <3> QED  BY <1>0, <1>2 DEF ClusterType, SameObject
    <2> HIDE DEF e
    <2> QED  BY <1>2, <1>3, <2>1, <2>2
<1>6. CASE ScaleUp \/ ScaleDown \/ NothingToDo
    <2>1. ~Young
        BY <1>2, <1>6 DEF ScaleUp, ScaleDown, NothingToDo, Sized
    <2>2. \E next \in {"check", "create", "remove"} : Continue(next, s)
        BY <1>6 DEF ScaleUp, ScaleDown, NothingToDo
    <2> HIDE DEF s
    <2> QED  BY <1>0, <1>3, <2>1, <2>2
<1>7. ~CertRenewalFails /\ ~ReconcileFails
    BY DEF CertRenewalFails, ReconcileFails, ConstantSpec
<1>8. ~RemoveOutdatedMembers /\ ~HoldAtMaximum /\ ~RolloutWaits
    BY <1>2 DEF RemoveOutdatedMembers, HoldAtMaximum, RolloutWaits, RolloutGoesOn
<1>9. ~RolloutChecksNewest /\ ~RolloutStarts /\ ~GatePasses /\ ~GateFails
    BY <1>1, <1>2 DEF RolloutChecksNewest, RolloutStarts, RolloutGoesOn, GatePasses, GateFails
<1> QED  BY <1>4, <1>5, <1>6, <1>7, <1>8, <1>9 DEF Decide

\* A machine is created from the spec as it is; the first one is alone.
LEMMA CreationPublished ==
    ASSUME TypeOK, PublishedInv, CreateMachine
    PROVE  PublishedInv'
<1> DEFINE k == Min(FreeIds)
<1>0. /\ pc = "create" /\ pc' = "check" /\ plane' = NoMachines
      /\ UNCHANGED <<ec, before, cur, members, secret>>
    BY DEF CreateMachine, Step, PlaneAt
<1>1. /\ k \in Ids /\ mach[k].st = "none"
      /\ mach'[k].st = "live" /\ mach'[k].owned
      /\ \A m \in Ids : m # k => mach'[m] = mach[m]
    BY CreationEffect
<1>2. mach'[k].ver = cur.ver
    <2>1. PICK fd : mach' = [mach EXCEPT ![k] =
                        [Unborn EXCEPT !.st = "live", !.owned = TRUE,
                                       !.ver = cur.ver, !.fd = fd]]
        BY DEF CreateMachine
    <2>2. mach \in [Ids -> MachineType]
        BY DEF TypeOK, WorldTypeOK
    <2> QED  BY <1>1, <2>1, <2>2 DEF Unborn
<1> HIDE DEF k
<1>3. Machines' = Machines \cup {k}
    BY <1>1 DEF Machines, EtcdClusterMachines
<1>4. UniformInv'
    BY <1>0, <1>1, <1>2, <1>3 DEF PublishedInv, UniformInv, Machines, EtcdClusterMachines
<1>5. Young' = Young
    BY <1>0 DEF Young
<1>6. YoungInv'
    <2>1. SUFFICES ASSUME Young PROVE YoungInv'
        BY <1>5 DEF YoungInv
    <2>2. /\ Machines = {} /\ cur.initCond = "False" /\ ~ec.initialized
          /\ members = {} /\ secret = {} /\ ec.endpoints = {} /\ cur.endpoints = {}
        BY <1>0, <2>1 DEF PublishedInv, YoungInv, Machines
    <2> QED  BY <1>0, <1>1, <1>3, <2>2 DEF YoungInv, Machines
<1>7. SecretInv'
    BY <1>0 DEF PublishedInv, SecretInv
<1> QED  BY <1>4, <1>6, <1>7 DEF PublishedInv

LEMMA ActPublished ==
    ASSUME TypeOK, PublishedInv, ConstantSpec, Act
    PROVE  PublishedInv'
<1>1. CASE CreateFails
    <2>1. /\ pc = "create" /\ pc' = "check" /\ UNCHANGED <<before, cur>>
          /\ UNCHANGED <<mach, ec, members, secret>>
        BY <1>1 DEF CreateFails, Step, worldVars
    <2>2. Young => (Machines # {} => cur'.initCond = "False")
        BY <2>1 DEF PublishedInv, YoungInv, Machines
    <2>3. pc # "idle" /\ pc' \in Later /\ SameObject(cur', cur) /\ MachinesKept
        BY <2>1, SameMachines DEF Later, PcType, SameObject
    <2> QED  BY <2>1, <2>2, <2>3, WorkPublished
<1>2. CASE MemberList \/ MemberRemove \/ DeleteMachine \/ RemovalFails
    <2>0. /\ pc \in {"remove", "memberRemove", "deleteMachine"}
          /\ UNCHANGED <<ec, before, cur, secret>>
          /\ pc' \in {"check", "remove", "memberRemove", "deleteMachine"}
        BY <1>2 DEF MemberList, MemberRemove, DeleteMachine, RemovalFails, NextRemoval,
                    Step, worldVars
    <2>1. ~Young /\ ~Young'
        BY <2>0 DEF PublishedInv, YoungInv, Young
    <2>2. /\ EtcdClusterMachines(mach') = Machines
          /\ \A m \in Machines : mach'[m].owned = mach[m].owned /\ mach'[m].ver = mach[m].ver
        <3>1. CASE mach' = mach
            BY <3>1 DEF Machines
        <3>2. CASE DeleteMachine
            <4>1. target \in Ids /\ mach \in [Ids -> MachineType]
                BY <3>2 DEF DeleteMachine, TypeOK, WorldTypeOK
            <4>2. \/ mach' = mach
                  \/ /\ \A m \in Ids \ {target} : mach'[m] = mach[m]
                     /\ mach'[target].owned = mach[target].owned
                     /\ mach'[target].ver = mach[target].ver
                     /\ mach'[target].st = "deleting" /\ mach[target].st = "live"
                BY <3>2, <4>1 DEF DeleteMachine, Deleted, MachineType
            <4> QED  BY <3>1, <4>1, <4>2 DEF Machines, EtcdClusterMachines
        <3> QED  BY <1>2, <3>1, <3>2 DEF MemberList, MemberRemove, RemovalFails, worldVars
    <2>3. UniformInv'
        BY <2>0, <2>2 DEF PublishedInv, UniformInv, Machines
    <2>4. SecretInv'
        BY <2>0 DEF PublishedInv, SecretInv
    <2> QED  BY <2>1, <2>3, <2>4 DEF PublishedInv, YoungInv
<1>3. ~Disown /\ ~DisownFails /\ ~ReconcileDelete /\ ~DeleteEach
    BY DEF Disown, DisownFails, ReconcileDelete, DeleteEach, PublishedInv, UniformInv
<1> QED  BY <1>1, <1>2, <1>3, CreationPublished DEF Act

-----------------------------------------------------------------------------
(* The report *)

\* Only members of the etcd cluster listen.
LEMMA CheckPublished ==
    ASSUME TypeOK, PublishedInv, ConstantSpec, CheckOwnedMachines
    PROVE  PublishedInv'
<1>1. /\ pc = "check" /\ pc' = "status"
      /\ UNCHANGED <<ec, before, cur, members, secret, plane>>
    BY DEF CheckOwnedMachines
<1>2. MachinesKept
    BY LabelKeepsMachines, LabelKeepsVersions DEF MachinesKept, Machines, EtcdClusterMachines
<1>3. CurrEndpoints' \subseteq members
    <2>1. PICK answer \in AnswersOf(OwnedWithAddress) :
            checked' = [m \in Ids |->
                            IF m \in OwnedWithAddress THEN answer[m]
                            ELSE IF m \in OwnedMachines(CurrentMachines) THEN "noaddr"
                            ELSE "none"]
        BY DEF CheckOwnedMachines
    <2>2. \A m \in Ids : Listening(checked'[m]) => m \in OwnedWithAddress /\ Listening(answer[m])
        BY <2>1 DEF Listening, Answers
    <2>3. \A m \in OwnedWithAddress : answer[m] \in Probe(m)
        BY DEF AnswersOf
    <2>4. \A m \in OwnedWithAddress : Listening(answer[m]) => m \in members
        BY <2>3 DEF Probe, isPortOpen, Alive, Running, Listening, ConstantSpec
    <2>5. CurrEndpoints' = {m \in Ids : Listening(checked'[m])}
        BY DEF CurrEndpoints, Listening
    <2> QED  BY <2>2, <2>4, <2>5
<1>4. Young => (Machines # {} => cur'.initCond = "False")
    BY <1>1 DEF PublishedInv, YoungInv, Machines
<1>5. pc # "idle" /\ pc' \in Later /\ SameObject(cur', cur)
    BY <1>1 DEF Later, PcType, SameObject
<1> QED  BY <1>1, <1>2, <1>3, <1>4, <1>5, WorkPublished

\* What a report may write besides the endpoints.
LEMMA ToPatchKeeps ==
    ASSUME NEW e \in ClusterType, ToPatch(e)
    PROVE  /\ SameObject(cur', e) /\ cur'.initCond = e.initCond
           /\ pc' = "patch" /\ UNCHANGED <<ec, before, mach, members>>
BY DEF ToPatch, ForceNotReady, SameObject, ClusterType

LEMMA StatusPublished ==
    ASSUME TypeOK, PublishedInv, ConstantSpec, UNCHANGED secret,
           NEW e \in ClusterType, ToPatch(e), pc = "status",
           SameObject(e, cur), e.initCond = cur.initCond
    PROVE  PublishedInv'
<1>1. /\ SameObject(cur', cur) /\ cur'.initCond = cur.initCond
      /\ pc' = "patch" /\ UNCHANGED <<ec, before, members>> /\ mach' = mach
    BY ToPatchKeeps DEF SameObject
<1>2. Young => (Machines # {} => cur'.initCond = "False")
    BY <1>1 DEF PublishedInv, YoungInv, Machines
<1>3. pc # "idle" /\ pc' \in Later /\ MachinesKept
    BY <1>1, SameMachines DEF Later, PcType
<1> QED  BY <1>1, <1>2, <1>3, WorkPublished

\* The secret gets the new endpoints, or holds the one there is already.
LEMMA EndpointsChangePublished ==
    ASSUME TypeOK, PublishedInv, ConstantSpec, StatusNewEndpoints
    PROVE  PublishedInv'
<1> DEFINE p == CurrEndpoints
           e == [cur EXCEPT !.ready = TRUE, !.endpoints = p]
           f == [e EXCEPT !.creationComplete = TRUE]
           New(g) == /\ g \in ClusterType /\ g.endpoints = p
                     /\ g.ver = cur.ver /\ g.replicas = cur.replicas /\ g.del = cur.del
                     /\ g.initialized = cur.initialized /\ g.initCond = cur.initCond
<1>0. cur \in ClusterType /\ pc = "status" /\ p \in SUBSET Ids
    BY DEF TypeOK, StatusNewEndpoints, AllHealthy, CurrEndpoints
<1> HIDE DEF p
<1>1. New(e)
    BY <1>0 DEF ClusterType
<1>2. New(f)
    <2> HIDE DEF e
    <2> QED  BY <1>1 DEF ClusterType
<1>3. \/ cur.initialized /\ ToPatch(f) /\ secret' = p
      \/ ~cur.initialized /\ ToPatch(e) /\ UNCHANGED secret
    BY DEF StatusNewEndpoints, ConstantSpec, p
<1> HIDE DEF e, f
<1>4. /\ cur'.endpoints = p /\ cur'.initCond = cur.initCond
      /\ cur'.ver = cur.ver /\ cur'.replicas = cur.replicas
      /\ cur'.del = cur.del /\ cur'.initialized = cur.initialized
      /\ pc' = "patch" /\ UNCHANGED <<ec, before, members>> /\ mach' = mach
    BY <1>1, <1>2, <1>3, ToPatchKeeps DEF SameObject
<1>5. UniformInv'
    BY <1>0, <1>4 DEF PublishedInv, UniformInv
<1>6. Young' = Young /\ (cur.initialized => ~Young)
    BY <1>0, <1>4 DEF Young, PublishedInv, UniformInv
<1>7. Young => /\ members = secret /\ p \subseteq secret
               /\ \A a, b \in secret : a = b
    BY <1>0 DEF PublishedInv, YoungInv, p
<1>8. YoungInv'
    BY <1>0, <1>3, <1>4, <1>6, <1>7 DEF PublishedInv, YoungInv
<1>9. SecretInv'
    <2>1. CASE cur.initialized
        BY <1>3, <1>4, <2>1 DEF SecretInv
    <2>2. CASE ~cur.initialized
        <3>1. p # {} => secret = p
            BY <1>0, <1>7, <2>2 DEF Young
        <3> QED  BY <1>3, <1>4, <2>2, <3>1 DEF SecretInv
    <2> QED  BY <2>1, <2>2
<1> QED  BY <1>5, <1>8, <1>9 DEF PublishedInv

\* The patch stores the condition of the copy first and its endpoints last; until
\* then the object has the old ones, and the secret follows the copy.
LEMMA PatchPublished ==
    ASSUME TypeOK, DealtInv, PublishedInv, ConstantSpec, AddFinalizer \/ PatchEtcdCluster
    PROVE  PublishedInv'
<1>0. /\ ec \in ClusterType /\ before \in ClusterType /\ cur \in ClusterType
      /\ ec.exists /\ ~ec.del
    BY DEF TypeOK, WorldTypeOK, PublishedInv, UniformInv
<1>1. /\ UNCHANGED <<mach, members, secret>> /\ pc # "idle"
      /\ ec'.exists /\ SameSpec(ec', ec)
    BY <1>0, PatchEffect
<1>2. before.endpoints = ec.endpoints /\ before.initCond = ec.initCond
    BY <1>1 DEF PublishedInv, UniformInv
<1>3. CASE PatchConditions \/ PatchObject
    <2>1. /\ UNCHANGED cur /\ pc' \in {"patchObject", "patchStatus"}
          /\ SameStatus(ec', ec) /\ SameStatus(before', before)
        BY <1>0, <1>3, ConditionsCall, ObjectCall, ObjectCallGoesOn DEF PatchObject
    <2>2. ASSUME PatchConditions PROVE before'.initCond = ec'.initCond
        <3>1. MergedConditions(ec', ec) /\ SameConditions(before', cur)
            BY <1>0, <2>2, ConditionsCall DEF ConstantSpec
        <3> QED  BY <1>2, <3>1 DEF MergedConditions, SameConditions, Merge
    <2>3. ASSUME PatchObject PROVE before'.initCond = ec'.initCond
        <3>1. SameConditions(ec', ec) /\ SameConditions(before', before)
            BY <1>0, <2>3, ObjectCall, ObjectCallGoesOn DEF PatchObject
        <3> QED  BY <1>2, <3>1 DEF SameConditions
    <2>4. before'.endpoints = ec'.endpoints /\ before'.initCond = ec'.initCond
        BY <1>2, <1>3, <2>1, <2>2, <2>3 DEF SameStatus
    <2>5. UniformInv'
        BY <1>1, <2>1, <2>4 DEF PublishedInv, UniformInv, SameSpec
    <2>6. Young' = Young
        BY <1>1, <2>1 DEF Young, SameSpec
    <2>7. YoungInv'
        BY <1>1, <2>1, <2>6 DEF PublishedInv, YoungInv, SameSpec, SameStatus
    <2>8. SecretInv'
        BY <1>1, <2>1 DEF PublishedInv, SecretInv
    <2> QED  BY <2>5, <2>7, <2>8 DEF PublishedInv
<1>4. CASE AddFinalizer \/ PatchStatus
    <2>1. SameConditions(ec', ec) /\ SameConditions(before, cur) /\ pc' = "idle"
        BY <1>0, <1>4, ObjectCall, StatusCall
        DEF AddFinalizer, PatchStatus, Return, DealtInv
    <2>2. ec'.endpoints = cur.endpoints
        <3>1. CASE AddFinalizer
            BY <1>0, <1>2, <3>1, ObjectCall DEF AddFinalizer, DealtInv, SameStatus
        <3>2. CASE PatchStatus
            BY <1>0, <1>2, <3>2, StatusCall DEF ConstantSpec, MergedStatus, Merge
        <3> QED  BY <1>4, <3>1, <3>2
    <2>3. ec'.initCond = cur.initCond
        BY <1>2, <2>1 DEF SameConditions
    <2>4. Young' => Young /\ ~ec.initialized
        BY <1>1, <2>1 DEF Young, SameSpec
    <2>5. UniformInv'
        BY <1>1, <2>1 DEF PublishedInv, UniformInv, SameSpec
    <2>6. YoungInv'
        BY <1>1, <2>1, <2>2, <2>3, <2>4 DEF PublishedInv, YoungInv, SameSpec
    <2>7. SecretInv'
        BY <1>1, <2>1, <2>2 DEF PublishedInv, SecretInv
    <2> QED  BY <2>5, <2>6, <2>7 DEF PublishedInv
<1> QED  BY <1>3, <1>4 DEF PatchEtcdCluster

LEMMA ReportPublished ==
    ASSUME TypeOK, DealtInv, PublishedInv, ConstantSpec, Report
    PROVE  PublishedInv'
<1>0. cur \in ClusterType
    BY DEF TypeOK
<1>1. CASE StatusDeleting
    BY <1>0, <1>1, StatusPublished DEF StatusDeleting, SameObject
<1>2. CASE StatusResizing
    <2> DEFINE e == [cur EXCEPT !.ready = FALSE]
    <2>1. e \in ClusterType /\ SameObject(e, cur) /\ e.initCond = cur.initCond
        BY <1>0 DEF ClusterType, SameObject
    <2>2. ToPatch(e) /\ pc = "status" /\ UNCHANGED secret
        BY <1>2 DEF StatusResizing
    <2> HIDE DEF e
    <2> QED  BY <2>1, <2>2, StatusPublished
<1>3. CASE StatusUnhealthy
    <2>1. PICK m \in OwnedNow :
            ToPatch([cur EXCEPT !.ready = IF Listening(checked[m]) THEN FALSE ELSE @])
        BY <1>3 DEF StatusUnhealthy
    <2> DEFINE e == [cur EXCEPT !.ready = IF Listening(checked[m]) THEN FALSE ELSE @]
    <2>2. e \in ClusterType /\ SameObject(e, cur) /\ e.initCond = cur.initCond
        BY <1>0 DEF ClusterType, SameObject
    <2>3. ToPatch(e) /\ pc = "status" /\ UNCHANGED secret
        BY <1>3, <2>1 DEF StatusUnhealthy
    <2> HIDE DEF e
    <2> QED  BY <2>2, <2>3, StatusPublished
<1>4. CASE StatusReady
    <2> DEFINE e == [cur EXCEPT !.ready = TRUE, !.creationComplete = TRUE]
    <2>1. e \in ClusterType /\ SameObject(e, cur) /\ e.initCond = cur.initCond
        BY <1>0 DEF ClusterType, SameObject
    <2>2. ToPatch(e) /\ pc = "status" /\ UNCHANGED secret
        BY <1>4 DEF StatusReady, AllHealthy
    <2> HIDE DEF e
    <2> QED  BY <2>1, <2>2, StatusPublished
<1>5. CASE PatchEtcdCluster
    BY <1>5, PatchPublished
<1>6. ~CheckFails
    BY DEF CheckFails, ConstantSpec
<1> QED
    BY <1>1, <1>2, <1>3, <1>4, <1>5, <1>6, CheckPublished, EndpointsChangePublished DEF Report

-----------------------------------------------------------------------------
(* The invariant, and the theorem *)

\* A reconcile begins with the object and the machines as they are.
LEMMA BeginPublished ==
    ASSUME TypeOK, PublishedInv, ConstantSpec, Reconcile
    PROVE  PublishedInv'
<1>0. /\ CachedCluster = ec /\ pc = "idle" /\ ec \in ClusterType
      /\ UNCHANGED <<mach, ec, members, secret>> /\ before' = ec
    BY DEF Reconcile, CachedCluster, ConstantSpec, worldVars, TypeOK, WorldTypeOK
<1>1. \/ pc' = "addFinalizer" /\ cur' = [ec EXCEPT !.fin = TRUE]
      \/ pc' = "decide" /\ cur' = ec /\ plane' = mach
    BY <1>0 DEF Reconcile, UncachedList, PublishedInv, UniformInv
<1>2. SameObject(cur', ec) /\ cur'.initCond = ec.initCond
    BY <1>0, <1>1 DEF SameObject, ClusterType
<1>3. pc' = "decide" => All' = Machines
    BY <1>0, <1>1 DEF All, Machines
<1>4. Young' = ~ec.initialized /\ Young = ~ec.initialized
    BY <1>0, <1>1, <1>2 DEF Young, SameObject
<1>5. UniformInv'
    BY <1>0, <1>1, <1>2, <1>3 DEF PublishedInv, UniformInv, SameObject, Machines
<1>6. YoungInv'
    BY <1>0, <1>1, <1>2, <1>3, <1>4 DEF PublishedInv, YoungInv, SameObject, Machines
<1>7. SecretInv'
    BY <1>0, <1>1, <1>2 DEF PublishedInv, SecretInv, SameObject
<1> QED  BY <1>5, <1>6, <1>7 DEF PublishedInv

LEMMA PublishedInit == Init => PublishedInv
<1> SUFFICES ASSUME Init PROVE PublishedInv
    OBVIOUS
<1>1. EtcdClusterMachines(mach) = {}
    BY DEF Init, WorldInit, EtcdClusterMachines, Unborn
<1>2. /\ ec.exists /\ ~ec.del /\ ec.replicas > 0 /\ ~ec.initialized
      /\ ec.endpoints = {} /\ members = {} /\ secret = {} /\ pc = "idle"
    BY DEF Init, WorldInit, RecInit, NewCluster, validateCommon
<1>3. UniformInv
    BY <1>1, <1>2 DEF UniformInv
<1>4. YoungInv
    BY <1>1, <1>2 DEF YoungInv
<1>5. SecretInv
    BY <1>2 DEF SecretInv
<1> QED  BY <1>3, <1>4, <1>5 DEF PublishedInv

LEMMA PublishedNext ==
    ConstantSpec /\ TypeOK /\ DealtInv /\ PublishedInv /\ [Next]_vars => PublishedInv'
<1> SUFFICES ASSUME ConstantSpec, TypeOK, DealtInv, PublishedInv, [Next]_vars
             PROVE  PublishedInv'
    OBVIOUS
<1>1. CASE UNCHANGED vars
    BY <1>1, SameMachines, PublishedStutters
    DEF vars, worldVars, recVars, ObjectKept, PublishedInv, UniformInv
<1>2. CASE AddFinalizer
    BY <1>2, PatchPublished
<1>3. ~Restart
    BY DEF Restart, ConstantSpec
<1> QED
    BY <1>1, <1>2, <1>3, WorldPublished, BeginPublished, DecidePublished, ActPublished,
       ReportPublished
    DEF Next, ReconcilerNext, Working

\* When all replicas are healthy there are endpoints.
LEMMA ReadyMeansPublished ==
    ASSUME TypeOK, PublishedInv, StatusReady
    PROVE  secret = CurrEndpoints
<1>1. pc = "status" /\ cur.endpoints = CurrEndpoints /\ ReadyReplicas = cur.replicas
    BY DEF StatusReady, AllHealthy
<1>2. cur.replicas > 0
    BY <1>1 DEF PublishedInv, UniformInv
<1>3. {m \in Ids : Healthy(checked[m])} # {}
    BY <1>1, <1>2, FS_EmptySet DEF ReadyReplicas
<1>4. CurrEndpoints # {}
    BY <1>3 DEF CurrEndpoints, Healthy, Listening, HealthCheckError
<1> QED  BY <1>1, <1>4 DEF PublishedInv, SecretInv

\* As long as calls succeed and the spec of the machines stays, updateStatus
\* never skips the secret while the secret lacks the endpoints of the status:
\* not even in the reconcile that began before the cluster was initialized and
\* does not know the name of the secret (updateStatus, the endpoints).
THEOREM SecretFollows == ConstantSpec /\ Spec => EndpointsPublished
<1>1. TypeOK /\ PublishedInv => [StatusReady => secret = CurrEndpoints]_vars
    BY ReadyMeansPublished
<1>2. ConstantSpec => ConstantSpec'
    BY DEF ConstantSpec
<1> QED
    BY TypeInit, TypeNext, DealtInit, DealtNext, PublishedInit, PublishedNext, <1>1, <1>2,
       PTL
    DEF Spec, EndpointsPublished

-----------------------------------------------------------------------------
(***************************************************************************)
(* The Initialized condition.  It is absent only before the first machine: *)
(* the reconcile that creates it says so, and the first call of its patch  *)
(* stores that before the last one stores CreationComplete.                *)
(***************************************************************************)
Recorded == ec.initCond # "Unknown" \/ ~ec.exists
Noted == Recorded \/ (pc # "idle" /\ cur.initCond # "Unknown")

MachinesSeen == EtcdClusterMachines(mach) \cup EtcdClusterMachines(CachedMachines)

RecordInv ==
    /\ InitializationRecorded
    /\ ec.replicas > 0 /\ CachedCluster.replicas > 0
    /\ CachedCluster.initCond # "Unknown" \/ CachedCluster.creationComplete => Recorded
    /\ MachinesSeen # {} => Noted
    /\ pc # "idle" =>
        /\ cur.replicas > 0
        /\ before.initCond # "Unknown" => Recorded
        /\ cur.initCond = "Unknown" => before.initCond = "Unknown"
        /\ cur.creationComplete => Noted
    /\ pc \in {"decide", "gate"} /\ All # {} => Noted
    /\ pc = "create" => Noted
    /\ pc = "status" /\ OwnedNow # {} => Noted

\* Around a reconcile.
LEMMA RecordAround ==
    ASSUME RecordInv, UNCHANGED recVars, UNCHANGED <<ec.initCond, ec.creationComplete>>,
           ec'.exists => ec.exists, ec'.replicas > 0,
           cache' = cache \/ (cache' = ec /\ ec' = ec),
           MachinesSeen' \subseteq MachinesSeen
    PROVE  RecordInv'
<1>1. (Recorded => Recorded') /\ (Noted => Noted')
    BY DEF Recorded, Noted, recVars
<1>2. /\ InitializationRecorded'
      /\ CachedCluster'.replicas > 0
      /\ CachedCluster'.initCond # "Unknown" \/ CachedCluster'.creationComplete => Recorded'
    BY <1>1 DEF RecordInv, CachedCluster, Recorded, InitializationRecorded
<1>3. All' = All /\ OwnedNow' = OwnedNow
    BY DEF All, OwnedNow, recVars
<1> QED  BY <1>1, <1>2, <1>3 DEF RecordInv, recVars

LEMMA WorldRecorded ==
    ASSUME TypeOK, RecordInv, WorldNext
    PROVE  RecordInv'
<1> DEFINE Effect == /\ UNCHANGED <<ec.initCond, ec.creationComplete>>
                     /\ ec'.exists => ec.exists
                     /\ ec'.replicas > 0
                     /\ mcache' \in {mcache, mach}
<1>0. ec \in ClusterType /\ ec.replicas > 0
    BY DEF TypeOK, WorldTypeOK, RecordInv
<1>1. ASSUME NEW m \in Ids,
             \/ AssignAddress(m) \/ JoinMember(m) \/ FinishMachineDeletion(m)
             \/ AnnotateMachine(m) \/ DeleteMachineByHand(m)
      PROVE  Effect
    BY <1>0, <1>1
    DEF AssignAddress, JoinMember, FinishMachineDeletion, AnnotateMachine,
        DeleteMachineByHand, LoseMachine
<1>2. ASSUME NEW m \in Ids, InitMember(m) PROVE Effect
    <2>1. ec' = [ec EXCEPT !.initialized = TRUE] /\ mcache' = mcache
        BY <1>2 DEF InitMember
    <2> QED  BY <1>0, <2>1 DEF ClusterType
<1>3. ASSUME NEW r \in Replicas, Scale(r) PROVE Effect
    <2>1. ec' = [ec EXCEPT !.replicas = r] /\ r > 0 /\ mcache' = mcache
        BY <1>3 DEF Scale, validateCommon
    <2> QED  BY <1>0, <2>1 DEF ClusterType
<1>4. ASSUME NEW v \in Versions, Upgrade(v) PROVE Effect
    <2>1. ec' = [ec EXCEPT !.ver = v] /\ mcache' = mcache
        BY <1>4 DEF Upgrade
    <2> QED  BY <1>0, <2>1 DEF ClusterType
<1>5. ASSUME CompleteControlPlaneUpgrade PROVE Effect
    <2>1. ec' = [ec EXCEPT !.cpDone = TRUE] /\ mcache' = mcache
        BY <1>5 DEF CompleteControlPlaneUpgrade
    <2> QED  BY <1>0, <2>1 DEF ClusterType
<1>6. ASSUME DeleteCluster PROVE Effect
    BY <1>0, <1>6 DEF DeleteCluster, ClusterType
<1>7. ASSUME SyncCluster \/ SyncMachines PROVE Effect
    BY <1>0, <1>7 DEF SyncCluster, SyncMachines
<1>8. Effect
    BY <1>1, <1>2, <1>3, <1>4, <1>5, <1>6, <1>7 DEF WorldNext, InfraNext, UserNext
<1>9. MachinesSeen' \subseteq MachinesSeen
    <2>1. EtcdClusterMachines(mach') \subseteq EtcdClusterMachines(mach)
        BY WorldEffect
    <2>2. CASE StaleMachines
        BY <1>8, <2>1, <2>2 DEF MachinesSeen, CachedMachines
    <2>3. CASE ~StaleMachines
        BY <2>1, <2>3 DEF MachinesSeen, CachedMachines
    <2> QED  BY <2>2, <2>3
<1> QED  BY <1>8, <1>9, WorldEffect, RecordAround DEF WorldNext

\* A decision takes no condition away, and one to create a machine, where
\* there is none yet, sets it.
LEMMA DecideRecords ==
    ASSUME TypeOK, Decide
    PROVE  /\ cur'.initCond \in {cur.initCond, "True", "False"}
           /\ pc' = "create" => All # {} \/ cur'.initCond # "Unknown"
<1> DEFINE Effect == /\ cur'.initCond \in {cur.initCond, "True", "False"}
                     /\ pc' = "create" => All # {} \/ cur'.initCond # "Unknown"
           Like(e) == e.initCond = cur.initCond
<1>0. cur \in ClusterType
    BY DEF TypeOK
<1>1. /\ NoteOutdated(cur) \in ClusterType /\ Like(NoteOutdated(cur))
      /\ Settled \in ClusterType /\ Like(Settled)
      /\ SettledAndRenewed \in ClusterType /\ Like(SettledAndRenewed)
    <2>1. NoteOutdated(cur) \in ClusterType /\ Like(NoteOutdated(cur))
        <3>1. Like(NoteOutdated(cur))
            BY <1>0 DEF NoteOutdated, ClusterType
        <3> QED  BY <1>0, <3>1, DecisionType
    <2>2. Settled \in ClusterType /\ Like(Settled)
        BY <1>0, <2>1, SettledType DEF Settled, ClusterType
    <2>3. SettledAndRenewed \in ClusterType /\ Like(SettledAndRenewed)
        BY <1>0, <2>2, SettledType DEF SettledAndRenewed, ClusterType
    <2> QED  BY <2>1, <2>2, <2>3
<1>2. ASSUME NEW next, NEW e, Continue(next, e), Like(e), next = "create" => All # {}
      PROVE  Effect
    BY <1>2 DEF Continue
<1>3. CASE ReconcileFails \/ RemoveOutdatedMembers \/ RolloutWaits \/ RolloutChecksNewest
    BY <1>1, <1>2, <1>3
    DEF ReconcileFails, RemoveOutdatedMembers, RolloutWaits, RolloutChecksNewest
<1>4. CASE HoldAtMaximum
    <2> DEFINE e == [NoteOutdated(cur) EXCEPT !.specUpToDate = "MaxReached"]
    <2>1. Like(e)
        BY <1>1 DEF ClusterType
    <2>2. Continue("check", e)
        BY <1>4 DEF HoldAtMaximum
    <2> HIDE DEF e
    <2> QED  BY <1>2, <2>1, <2>2
<1>5. ASSUME NEW e \in ClusterType, Like(e), upgradeEtcdCluster(e), All # {} PROVE Effect
    <2>1. Like(MarkRolling(e))
        BY <1>5 DEF MarkRolling, ClusterType
    <2> QED  BY <1>2, <1>5, <2>1 DEF upgradeEtcdCluster
<1>6. CASE RolloutStarts
    <2>1. All # {}
        BY <1>6
        DEF RolloutStarts, NeedRollout, MachinesNeedingRollout, OwnedMachines, All
    <2> QED  BY <1>1, <1>5, <1>6, <2>1 DEF RolloutStarts
<1>7. CASE GatePasses
    <2>1. All # {}
        BY <1>7 DEF GatePasses, TypeOK, UpToDateMachines, OwnedMachines, All
    <2> QED  BY <1>0, <1>5, <1>7, <2>1 DEF GatePasses
<1>8. CASE GateFails
    BY <1>2, <1>8 DEF GateFails
<1>9. CASE CertRenewalFails
    BY <1>1, <1>2, <1>9 DEF CertRenewalFails
<1>10. CASE InitializeCluster
    <2> DEFINE e == [SettledAndRenewed EXCEPT !.initCond = "False"]
               d == [e EXCEPT !.certs = "True"]
    <2>1. e \in ClusterType /\ e.initCond = "False"
        BY <1>1 DEF ClusterType, ConditionType
    <2>2. d.initCond = "False"
        <3> HIDE DEF e
        <3> QED  BY <2>1 DEF ClusterType
    <2>3. cur' = d \/ cur' = e
        BY <1>10 DEF InitializeCluster, Continue
    <2> HIDE DEF e, d
    <2> QED  BY <2>1, <2>2, <2>3
<1>11. CASE AwaitInitialization
    <2> DEFINE e == [SettledAndRenewed EXCEPT
                        !.initCond = IF cur.initialized THEN "True" ELSE @]
    <2>1. e.initCond \in {cur.initCond, "True"}
        BY <1>1 DEF ClusterType
    <2>2. cur' = e /\ pc' = "check"
        BY <1>11 DEF AwaitInitialization, Continue
    <2> HIDE DEF e
    <2> QED  BY <2>1, <2>2
<1>12. CASE ScaleUp \/ ScaleDown \/ NothingToDo
    <2>1. All # {}
        BY <1>12 DEF ScaleUp, ScaleDown, NothingToDo, Sized, Owned, OwnedMachines, All
    <2> QED  BY <1>1, <1>2, <1>12, <2>1 DEF ScaleUp, ScaleDown, NothingToDo
<1> QED
    BY <1>3, <1>4, <1>6, <1>7, <1>8, <1>9, <1>10, <1>11, <1>12 DEF Decide

\* A reconcile goes on.
LEMMA RecordGoesOn ==
    ASSUME RecordInv, UNCHANGED <<ec, cache, before>>, pc # "idle",
           pc' \notin {"idle", "decide"}, cur'.replicas = cur.replicas,
           cur'.initCond \in {cur.initCond, "True", "False"},
           cur'.creationComplete => cur.creationComplete \/ Noted,
           MachinesSeen' # {} => Noted,
           pc' = "gate" => pc \in {"decide", "gate"} /\ plane' = plane,
           pc' = "create" => Noted',
           pc' = "status" /\ OwnedNow' # {} => Noted
    PROVE  RecordInv'
<1>1. (Recorded <=> Recorded') /\ (Noted => Noted')
    BY DEF Recorded, Noted
<1>2. /\ InitializationRecorded'
      /\ CachedCluster' = CachedCluster
    BY DEF RecordInv, CachedCluster, InitializationRecorded
<1>3. pc' \in {"decide", "gate"} /\ All' # {} => Noted'
    BY <1>1 DEF RecordInv, All
<1> QED  BY <1>1, <1>2, <1>3 DEF RecordInv

LEMMA DecideRecorded ==
    ASSUME TypeOK, RecordInv, Decide
    PROVE  RecordInv'
<1>1. /\ UNCHANGED <<worldVars, before>> /\ cur'.replicas = cur.replicas
      /\ cur'.creationComplete = cur.creationComplete
      /\ pc \in {"decide", "gate"} /\ pc' \in {"create", "disown", "remove", "gate", "check"}
    BY DecideEffect DEF SameMarks
<1>2. MachinesSeen' = MachinesSeen /\ UNCHANGED <<ec, cache>>
    BY <1>1 DEF worldVars, MachinesSeen, CachedMachines
<1>3. pc' = "gate" => plane' = plane
    BY ListingKept DEF OnListing
<1>4. pc' = "create" => Noted'
    BY <1>1, <1>2, DecideRecords DEF RecordInv, Noted, Recorded
<1>5. MachinesSeen' # {} => Noted
    BY <1>2 DEF RecordInv
<1> QED
    BY <1>1, <1>2, <1>3, <1>4, <1>5, DecideRecords, RecordGoesOn

LEMMA ActRecorded ==
    ASSUME TypeOK, RecordInv, Act
    PROVE  RecordInv'
<1>1. /\ UNCHANGED <<ec, cache, before>>
      /\ \/ EtcdClusterMachines(mach') \subseteq EtcdClusterMachines(mach)
         \/ pc = "create" /\ pc' = "check"
      /\ pc' \in {"check", "remove", "memberRemove", "deleteMachine", "deleteAll"}
      /\ pc \notin {"idle"} \cup Reporting
      /\ UNCHANGED <<cur.creationComplete, cur.initCond, cur.replicas>>
    BY ActEffect
<1>2. mcache' = mcache
    BY DEF Act, CreateMachine, CreateFails, Disown, DisownFails, MemberList, MemberRemove,
           DeleteMachine, RemovalFails, ReconcileDelete, DeleteEach, Continue, worldVars
<1>3. MachinesSeen' # {} => Noted
    BY <1>1, <1>2 DEF RecordInv, MachinesSeen, CachedMachines
<1> QED  BY <1>1, <1>3, RecordGoesOn

\* The patch writes the condition before it writes CreationComplete.
LEMMA PatchRecorded ==
    ASSUME TypeOK, DealtInv, RecordInv, ~Faults, ~StaleCluster,
           AddFinalizer \/ PatchEtcdCluster
    PROVE  RecordInv'
<1>0. /\ ec \in ClusterType /\ before \in ClusterType /\ cur \in ClusterType
      /\ CachedCluster = ec /\ CachedCluster' = ec'
    BY DEF TypeOK, WorldTypeOK, CachedCluster
<1>1. /\ SameSpec(ec', ec) /\ pc # "idle" /\ UNCHANGED <<mach, mcache>>
      /\ ec'.exists => ec.exists
      /\ ec'.creationComplete => ec.creationComplete \/ cur.creationComplete
    BY PatchEffect DEF Merge
<1>2. MachinesSeen' = MachinesSeen
    BY <1>1 DEF MachinesSeen, CachedMachines
<1>3. Noted => Recorded'
    <2>1. CASE PatchConditions
        <3>1. ec.exists => ec'.initCond = Merge(ec.initCond, before.initCond, cur.initCond)
            BY <1>0, <2>1, ConditionsCall DEF MergedConditions
        <3> QED  BY <1>1, <3>1 DEF Noted, Recorded, Merge, RecordInv
    <2>2. CASE AddFinalizer \/ PatchObject \/ PatchStatus
        <3>1. SameConditions(ec', ec) /\ SameConditions(before, cur)
            BY <1>0, <2>2, ObjectCall, StatusCall
            DEF AddFinalizer, PatchObject, PatchStatus, DealtInv
        <3>2. cur.initCond # "Unknown" => Recorded
            BY <1>1, <3>1 DEF RecordInv, SameConditions
        <3> QED  BY <1>1, <3>1, <3>2 DEF Noted, Recorded, SameConditions
    <2> QED  BY <2>1, <2>2 DEF PatchEtcdCluster
<1>4. InitializationRecorded'
    <2>1. CASE PatchConditions \/ PatchStatus
        <3>1. ec'.exists = ec.exists /\ (~ec.exists => ec' = ec)
            BY <1>0, <2>1, ConditionsCall, StatusCall
        <3> QED
            BY <1>1, <1>3, <3>1 DEF RecordInv, InitializationRecorded, Noted, Recorded
    <2>2. CASE AddFinalizer \/ PatchObject
        <3>1. SameConditions(ec', ec) /\ SameStatus(ec', ec)
            BY <1>0, <2>2, ObjectCall DEF AddFinalizer, PatchObject
        <3> QED
            BY <3>1 DEF RecordInv, InitializationRecorded, SameConditions, SameStatus
    <2> QED  BY <2>1, <2>2 DEF PatchEtcdCluster
<1>5. /\ Recorded' => Noted'
      /\ ec'.initCond # "Unknown" \/ ec'.creationComplete => Recorded'
    BY <1>4 DEF Noted, Recorded, InitializationRecorded
<1>6. CASE Return
    BY <1>0, <1>1, <1>2, <1>3, <1>4, <1>5, <1>6 DEF RecordInv, Return, SameSpec
<1>7. CASE PatchConditions \/ PatchObject
    <2>1. /\ UNCHANGED cur /\ pc' \in {"patchObject", "patchStatus"}
          /\ before'.initCond \in {before.initCond, cur.initCond}
        BY <1>0, <1>7, ConditionsCall, ObjectCallGoesOn DEF SameConditions
    <2>2. cur.initCond = "Unknown" => before'.initCond = "Unknown"
        BY <1>1, <2>1 DEF RecordInv
    <2>3. before'.initCond # "Unknown" => Noted
        BY <1>1, <2>1, <2>2 DEF Noted
    <2> QED
        BY <1>0, <1>1, <1>2, <1>3, <1>4, <1>5, <2>1, <2>2, <2>3 DEF RecordInv, SameSpec
<1> QED  BY <1>6, <1>7 DEF AddFinalizer, PatchEtcdCluster, PatchStatus

LEMMA ReportRecorded ==
    ASSUME TypeOK, DealtInv, RecordInv, ~Faults, ~StaleCluster, Report
    PROVE  RecordInv'
<1>1. CASE CheckOwnedMachines
    <2>1. MachinesSeen' = MachinesSeen
        BY <1>1, LabelKeepsMachines
        DEF MachinesSeen, CachedMachines, EtcdClusterMachines, CheckOwnedMachines
    <2>2. OwnedNow' # {} => MachinesSeen # {}
        <3>1. \A m \in Ids : m \notin OwnedMachines(CurrentMachines) => checked'[m] = "none"
            BY <1>1 DEF CheckOwnedMachines, OwnedWithAddress
        <3>2. OwnedMachines(CurrentMachines) \subseteq MachinesSeen
            BY DEF CurrentMachines, OwnedMachines, MachinesSeen
        <3> QED  BY <3>1, <3>2 DEF OwnedNow
    <2> QED  BY <1>1, <2>1, <2>2, RecordGoesOn DEF CheckOwnedMachines, RecordInv
<1>2. CASE \/ StatusDeleting \/ StatusResizing \/ StatusUnhealthy
           \/ StatusReady \/ StatusNewEndpoints
    <2>1. /\ UNCHANGED <<ec, cache, mach, before>> /\ pc = "status" /\ pc' = "patch"
          /\ UNCHANGED <<cur.initCond, cur.replicas>>
          /\ cur'.creationComplete = cur.creationComplete \/ AllHealthy
        BY <1>2, StatusEffect
    <2>2. mcache' = mcache
        BY <1>2 DEF StatusDeleting, StatusResizing, StatusUnhealthy, StatusReady,
                    StatusNewEndpoints, ToPatch
    <2>3. AllHealthy => OwnedNow # {}
        <3>1. SUFFICES ASSUME ReadyReplicas > 0 PROVE OwnedNow # {}
            BY <2>1 DEF AllHealthy, RecordInv
        <3>2. {m \in Ids : Healthy(checked[m])} # {}
            BY <3>1, FS_EmptySet DEF ReadyReplicas
        <3> QED  BY <3>2 DEF Healthy, Answers, OwnedNow
    <2>4. MachinesSeen' # {} => Noted
        BY <2>1, <2>2 DEF RecordInv, MachinesSeen, CachedMachines
    <2> QED  BY <2>1, <2>3, <2>4, RecordGoesOn DEF RecordInv
<1>3. CASE PatchEtcdCluster
    BY <1>3, PatchRecorded
<1>4. ~CheckFails
    BY DEF CheckFails
<1> QED  BY <1>1, <1>2, <1>3, <1>4 DEF Report

LEMMA BeginRecorded ==
    ASSUME TypeOK, RecordInv, Reconcile
    PROVE  RecordInv'
<1>0. /\ pc = "idle" /\ UNCHANGED worldVars /\ before' = CachedCluster
      /\ CachedCluster \in ClusterType
    BY DEF Reconcile, TypeOK, WorldTypeOK, CachedCluster
<1>1. /\ UNCHANGED <<ec, cache>> /\ MachinesSeen' = MachinesSeen
      /\ CachedCluster' = CachedCluster /\ (Recorded' <=> Recorded)
    BY <1>0 DEF worldVars, MachinesSeen, CachedMachines, CachedCluster, Recorded
<1>2. \/ pc' = "addFinalizer" /\ cur' = [CachedCluster EXCEPT !.fin = TRUE]
      \/ pc' \in {"decide", "delete"} /\ cur' = CachedCluster /\ plane' = mach
    BY DEF Reconcile, UncachedList
<1>3. /\ cur'.replicas = CachedCluster.replicas /\ cur'.initCond = CachedCluster.initCond
      /\ cur'.creationComplete = CachedCluster.creationComplete
    BY <1>0, <1>2 DEF ClusterType
<1>4. MachinesSeen # {} => Recorded
    BY <1>0 DEF RecordInv, Noted
<1>5. Recorded => Noted'
    BY <1>1 DEF Noted
<1>6. pc' = "decide" /\ All' # {} => MachinesSeen # {}
    BY <1>2 DEF All, MachinesSeen
<1> QED
    BY <1>0, <1>1, <1>2, <1>3, <1>4, <1>5, <1>6
    DEF RecordInv, InitializationRecorded

LEMMA RecordInit == Init => RecordInv
<1> SUFFICES ASSUME Init PROVE RecordInv
    OBVIOUS
<1>1. PICK r \in Replicas : validateCommon(r) /\ ec = NewCluster(r)
    BY DEF Init, WorldInit
<1>2. /\ ec.replicas > 0 /\ ec.initCond = "Unknown" /\ ~ec.creationComplete
      /\ CachedCluster = ec
    BY <1>1 DEF NewCluster, validateCommon, CachedCluster, Init, WorldInit
<1>3. MachinesSeen = {}
    BY DEF Init, WorldInit, MachinesSeen, CachedMachines, EtcdClusterMachines, Unborn
<1> QED
    BY <1>2, <1>3 DEF RecordInv, InitializationRecorded, Init, RecInit

\* Conditions are patched on a copy read through the cache: an old one may make
\* the helper give them up.
Recording == ~Faults /\ ~Crashes /\ ~StaleCluster

LEMMA RecordNext ==
    Recording /\ TypeOK /\ DealtInv /\ RecordInv /\ [Next]_vars => RecordInv'
<1> SUFFICES ASSUME Recording, TypeOK, DealtInv, RecordInv, [Next]_vars PROVE RecordInv'
    OBVIOUS
<1> USE DEF Recording
<1>1. CASE UNCHANGED vars
    <2>1. UNCHANGED <<ec, cache, recVars>> /\ MachinesSeen' = MachinesSeen
        BY <1>1 DEF vars, worldVars, MachinesSeen, CachedMachines
    <2> QED  BY <2>1, RecordAround DEF RecordInv
<1>2. CASE AddFinalizer
    BY <1>2, PatchRecorded
<1>3. ~Restart
    BY DEF Restart
<1> QED
    BY <1>1, <1>2, <1>3, WorldRecorded, BeginRecorded, DecideRecorded, ActRecorded,
       ReportRecorded
    DEF Next, ReconcilerNext, Working

\* A cluster whose creation is complete has the Initialized condition, however
\* old the listings of machines are that the controller works on, and whatever
\* its user and its machines do in the meantime; so what refutes the doc of
\* InitializedCondition is a patch of the conditions that never comes: because a
\* call fails, the controller is killed, or the copy it starts from stays old
\* (intializeEtcdCluster).
THEOREM InitializationIsRecorded ==
    ~Faults /\ ~Crashes /\ ~StaleCluster /\ Spec => []InitializationRecorded
<1>1. RecordInv => InitializationRecorded
    BY DEF RecordInv
<1>2. Recording => Recording'
    BY DEF Recording
<1>3. ~Faults /\ ~Crashes /\ ~StaleCluster => Recording
    BY DEF Recording
<1> QED
    BY TypeInit, TypeNext, DealtInit, DealtNext, RecordInit, RecordNext, <1>1, <1>2, <1>3, PTL
    DEF Spec

-----------------------------------------------------------------------------
(***************************************************************************)
(* Ready.  Every copy of the object that says Ready, or has endpoints at   *)
(* all, has the endpoints of a complete cluster that passed its health     *)
(* check: those of an earlier one, if a reconcile leaves Ready as it was   *)
(* or a call of its patch is lost.  Ready and the endpoints are written by *)
(* one call, but by two differences; they stay together because endpoints  *)
(* that are there are never taken back.                                    *)
(***************************************************************************)
Complete(e, P) ==
    /\ validateCommon(e.replicas)
    /\ e.endpoints # {} =>
        /\ e.endpoints \subseteq P
        /\ \E r \in Replicas : validateCommon(r) /\ Cardinality(e.endpoints) = r
    /\ e.ready => e.endpoints # {}

\* What a check found is remembered, and none of it is the odd answer.
Remembered ==
    \A m \in Ids : checked[m] # "non200" /\ (checked[m] = "ok" => m \in passed)

ReadyInv ==
    /\ Complete(ec, passed) /\ Complete(CachedCluster, passed)
    /\ CachedCluster.endpoints # {} => ec.endpoints # {}
    /\ pc # "idle" =>
        /\ Complete(cur, passed)
        /\ before.endpoints # {} => ec.endpoints # {} /\ cur.endpoints # {}
    /\ Remembered

LEMMA AnswersKept ==
    ASSUME "non200" \notin MemberAnswers, Remembered, [Next]_vars
    PROVE  Remembered' /\ passed \subseteq passed'
<1> DEFINE Goal == Remembered' /\ passed \subseteq passed'
<1>1. ASSUME checked' = checked \/ checked' = NotChecked, passed \subseteq passed'
      PROVE  Goal
    BY <1>1 DEF Remembered, NotChecked
<1>2. CASE CheckOwnedMachines
    <2>1. PICK answer \in AnswersOf(OwnedWithAddress) :
            /\ checked' = [m \in Ids |->
                            IF m \in OwnedWithAddress THEN answer[m]
                            ELSE IF m \in OwnedMachines(CurrentMachines) THEN "noaddr"
                            ELSE "none"]
            /\ passed' = passed \cup {m \in {k \in OwnedWithAddress : Healthy(answer[k])} :
                                        answer[m] = "ok"}
        BY <1>2 DEF CheckOwnedMachines
    <2>2. \A m \in OwnedWithAddress : answer[m] # "non200"
        BY DEF AnswersOf, Probe
    <2>3. Healthy("ok")
        BY DEF Healthy, Answers, HealthCheckError
    <2> QED  BY <2>1, <2>2, <2>3 DEF Remembered
<1>3. CASE Reconcile \/ WorldNext \/ UNCHANGED vars
    BY <1>1, <1>3 DEF Reconcile, WorldNext, vars, recVars
<1>4. CASE AddFinalizer \/ CheckFails \/ PatchEtcdCluster \/ Restart
    BY <1>1, <1>4
    DEF AddFinalizer, CheckFails, PatchEtcdCluster, PatchConditions, PatchObject,
        PatchStatus, Restart, ProcessLost, Return
<1>5. CASE Decide
    BY <1>1, <1>5
    DEF Decide, ReconcileFails, RemoveOutdatedMembers, HoldAtMaximum, RolloutWaits,
        RolloutChecksNewest, RolloutStarts, GatePasses, GateFails, CertRenewalFails,
        InitializeCluster, AwaitInitialization, ScaleUp, ScaleDown, NothingToDo,
        upgradeEtcdCluster, Continue
<1>6. CASE Act
    BY <1>1, <1>6
    DEF Act, CreateMachine, CreateFails, Disown, DisownFails, MemberList, MemberRemove,
        DeleteMachine, RemovalFails, ReconcileDelete, DeleteEach, NextRemoval, Step, Continue
<1>7. CASE \/ StatusDeleting \/ StatusResizing \/ StatusUnhealthy
           \/ StatusReady \/ StatusNewEndpoints
    BY <1>1, <1>7
    DEF StatusDeleting, StatusResizing, StatusUnhealthy, StatusReady, StatusNewEndpoints,
        ToPatch
<1> QED
    BY <1>2, <1>3, <1>4, <1>5, <1>6, <1>7 DEF Next, ReconcilerNext, Working, Report

LEMMA ReadyInit == Init => ReadyInv
<1> SUFFICES ASSUME Init PROVE ReadyInv
    OBVIOUS
<1>1. PICK r \in Replicas : validateCommon(r) /\ ec = NewCluster(r)
    BY DEF Init, WorldInit
<1>2. /\ validateCommon(ec.replicas) /\ ec.endpoints = {} /\ ~ec.ready
      /\ CachedCluster = ec
    BY <1>1 DEF NewCluster, CachedCluster, Init, WorldInit
<1> QED
    BY <1>2 DEF ReadyInv, Complete, Remembered, NotChecked, Init, RecInit

\* More machines have passed by now.
LEMMA StillComplete ==
    ASSUME NEW e, NEW P, NEW Q, P \subseteq Q, Complete(e, P)
    PROVE  Complete(e, Q)
BY DEF Complete

LEMMA LikeComplete ==
    ASSUME NEW e, NEW f, NEW P, Complete(e, P), validateCommon(f.replicas),
           f.endpoints = e.endpoints, f.ready => e.ready
    PROVE  Complete(f, P)
BY DEF Complete

\* A step that takes no endpoints back.
LEMMA ReadyGoesOn ==
    ASSUME ReadyInv, Remembered', passed \subseteq passed',
           Complete(ec', passed'), ec.endpoints # {} => ec'.endpoints # {},
           cache' = cache \/ (cache' = ec /\ ec' = ec),
           pc' # "idle" =>
                /\ Complete(cur', passed')
                /\ before'.endpoints # {} => ec'.endpoints # {} /\ cur'.endpoints # {}
    PROVE  ReadyInv'
<1>1. CASE StaleCluster
    <2>1. CachedCluster = cache /\ CachedCluster' = cache'
        BY <1>1 DEF CachedCluster
    <2>2. Complete(cache', passed')
        BY <2>1, StillComplete DEF ReadyInv
    <2>3. cache'.endpoints # {} => ec'.endpoints # {}
        BY <2>1 DEF ReadyInv
    <2> QED  BY <2>1, <2>2, <2>3 DEF ReadyInv
<1>2. CASE ~StaleCluster
    <2>1. CachedCluster' = ec'
        BY <1>2 DEF CachedCluster
    <2> QED  BY <2>1 DEF ReadyInv
<1> QED  BY <1>1, <1>2

\* The endpoints of a cluster whose machines are all healthy.
LEMMA HealthyIsComplete ==
    ASSUME TypeOK, ReadyInv, AllHealthy
    PROVE  /\ CurrEndpoints # {} /\ CurrEndpoints \in SUBSET Ids
           /\ \A e \in ClusterType :
                /\ validateCommon(e.replicas) /\ e.endpoints = CurrEndpoints
                => Complete(e, passed)
<1>1. CurrEndpoints = {m \in Ids : Healthy(checked[m])}
    BY DEF AllHealthy, CurrEndpoints, OwnedNow, Healthy, Listening, Answers, HealthCheckError
<1>2. /\ Cardinality(CurrEndpoints) = cur.replicas
      /\ validateCommon(cur.replicas) /\ cur.replicas \in Replicas
    BY <1>1 DEF AllHealthy, ReadyReplicas, ReadyInv, Complete, TypeOK, ClusterType
<1>3. CurrEndpoints # {}
    BY <1>2, FS_EmptySet DEF validateCommon
<1>4. CurrEndpoints \subseteq passed
    BY <1>1 DEF ReadyInv, Remembered, Healthy, Answers, HealthCheckError
<1> QED  BY <1>2, <1>3, <1>4 DEF Complete, CurrEndpoints

LEMMA StatusComplete ==
    ASSUME TypeOK, ReadyInv,
           \/ StatusDeleting \/ StatusResizing \/ StatusUnhealthy
           \/ StatusReady \/ StatusNewEndpoints
    PROVE  Complete(cur', passed) /\ (cur.endpoints # {} => cur'.endpoints # {})
<1>0. cur \in ClusterType /\ Complete(cur, passed) /\ pc = "status"
    BY StatusEffect DEF TypeOK, ReadyInv
<1>1. ASSUME NEW e \in ClusterType, ToPatch(e), Complete(e, passed),
             cur.endpoints # {} => e.endpoints # {}
      PROVE  Complete(cur', passed) /\ (cur.endpoints # {} => cur'.endpoints # {})
    <2>1. SameMarks(cur', e)
        BY <1>1, ToPatchEffect
    <2> QED  BY <1>1, <2>1 DEF SameMarks, Complete
<1>2. ASSUME NEW b \in {FALSE, cur.ready}
      PROVE  LET e == [cur EXCEPT !.ready = b] IN
             e \in ClusterType /\ Complete(e, passed) /\ e.endpoints = cur.endpoints
    <2> DEFINE e == [cur EXCEPT !.ready = b]
    <2>1. /\ e \in ClusterType /\ e.replicas = cur.replicas
          /\ e.endpoints = cur.endpoints /\ (e.ready => cur.ready)
        BY <1>0, <1>2 DEF ClusterType
    <2> HIDE DEF e
    <2>2. Complete(e, passed)
        BY <1>0, <2>1 DEF Complete
    <2> QED  BY <2>1, <2>2 DEF e
<1>3. CASE StatusDeleting
    BY <1>0, <1>1, <1>3 DEF StatusDeleting
<1>4. CASE StatusResizing
    BY <1>1, <1>2, <1>4 DEF StatusResizing
<1>5. CASE StatusUnhealthy
    <2>1. PICK b \in {FALSE, cur.ready} : ToPatch([cur EXCEPT !.ready = b])
        BY <1>5 DEF StatusUnhealthy
    <2> QED  BY <1>1, <1>2, <2>1
<1>6. CASE StatusReady
    <2> DEFINE e == [cur EXCEPT !.ready = TRUE, !.creationComplete = TRUE]
    <2>1. /\ e \in ClusterType /\ e.replicas = cur.replicas
          /\ e.endpoints = cur.endpoints
        BY <1>0 DEF ClusterType
    <2>2. ToPatch(e) /\ AllHealthy /\ cur.endpoints = CurrEndpoints
        BY <1>6 DEF StatusReady
    <2> HIDE DEF e
    <2>3. Complete(e, passed)
        BY <1>0, <2>1, <2>2, HealthyIsComplete DEF Complete
    <2> QED  BY <1>1, <2>1, <2>2, <2>3
<1>7. CASE StatusNewEndpoints
    <2> DEFINE p == CurrEndpoints
               e == [cur EXCEPT !.ready = TRUE, !.endpoints = p]
               f == [e EXCEPT !.creationComplete = TRUE]
    <2>0. AllHealthy
        BY <1>7 DEF StatusNewEndpoints
    <2>1. p \in SUBSET Ids /\ p # {}
        BY <2>0, HealthyIsComplete
    <2>2. e \in ClusterType /\ e.replicas = cur.replicas /\ e.endpoints = p
        <3> HIDE DEF p
        <3> QED  BY <1>0, <2>1 DEF ClusterType
    <2>3. f \in ClusterType /\ f.replicas = cur.replicas /\ f.endpoints = p
        <3> HIDE DEF e
        <3> QED  BY <2>2 DEF ClusterType
    <2>4. ToPatch(e) \/ ToPatch(f)
        BY <1>7 DEF StatusNewEndpoints
    <2> HIDE DEF e, f
    <2>5. Complete(e, passed) /\ Complete(f, passed)
        BY <1>0, <2>0, <2>2, <2>3, HealthyIsComplete DEF Complete, p
    <2> QED  BY <1>1, <2>1, <2>2, <2>3, <2>4, <2>5
<1> QED  BY <1>3, <1>4, <1>5, <1>6, <1>7

LEMMA ReadyPatch ==
    ASSUME TypeOK, ReadyInv, Remembered', AddFinalizer \/ PatchEtcdCluster
    PROVE  ReadyInv'
<1>0. /\ ec \in ClusterType /\ before \in ClusterType /\ cur \in ClusterType
      /\ UNCHANGED <<cache, passed>> /\ SameSpec(ec', ec) /\ pc # "idle"
    BY PatchEffect DEF TypeOK, WorldTypeOK
<1>1. Complete(ec', passed) /\ (ec.endpoints # {} => ec'.endpoints # {})
    <2>1. CASE SameStatus(ec', ec)
        BY <1>0, <2>1 DEF ReadyInv, Complete, SameSpec, SameStatus
    <2>2. CASE MergedStatus(ec', ec)
        <3>1. ec'.replicas = ec.replicas
            BY <1>0 DEF SameSpec
        <3>2. \/ ec'.endpoints = ec.endpoints /\ cur.endpoints = before.endpoints
              \/ ec'.endpoints = cur.endpoints /\ cur.endpoints # before.endpoints
            BY <2>2 DEF MergedStatus, Merge
        <3>3. ec'.ready => ec.ready \/ cur.ready
            BY <2>2 DEF MergedStatus, Merge
        <3>4. Complete(ec, passed) /\ Complete(cur, passed)
            BY <1>0 DEF ReadyInv
        <3>5. before.endpoints # {} => ec.endpoints # {} /\ cur.endpoints # {}
            BY <1>0 DEF ReadyInv
        <3>6. ec'.ready => ec'.endpoints # {}
            BY <2>2, <3>2, <3>4, <3>5 DEF MergedStatus, Merge, Complete
        <3>7. ec.endpoints # {} => ec'.endpoints # {}
            BY <3>2, <3>5
        <3> QED  BY <3>1, <3>2, <3>4, <3>6, <3>7 DEF Complete
    <2>3. CASE PatchConditions
        BY <1>0, <2>1, <2>3, ConditionsCall
    <2>4. CASE AddFinalizer \/ PatchObject
        BY <1>0, <2>1, <2>4, ObjectCall DEF AddFinalizer, PatchObject
    <2>5. CASE PatchStatus
        BY <1>0, <2>1, <2>2, <2>5, StatusCall DEF SameStatus
    <2> QED  BY <2>3, <2>4, <2>5 DEF PatchEtcdCluster
<1>2. CASE Return
    BY <1>0, <1>1, <1>2, ReadyGoesOn DEF Return
<1>3. CASE UNCHANGED cur /\ SameStatus(before', before)
    BY <1>0, <1>1, <1>3, ReadyGoesOn DEF ReadyInv, SameStatus
<1> QED  BY <1>2, <1>3, PatchEffect

LEMMA ReadyWorld ==
    ASSUME TypeOK, ReadyInv, Remembered', WorldNext
    PROVE  ReadyInv'
<1>1. /\ UNCHANGED <<ec.endpoints, ec.ready>> /\ validateCommon(ec'.replicas)
    <2>0. ec \in ClusterType /\ validateCommon(ec.replicas)
        BY DEF TypeOK, WorldTypeOK, ReadyInv, Complete
    <2>1. CASE InfraNext
        BY <2>0, <2>1
        DEF InfraNext, AssignAddress, InitMember, JoinMember, FinishMachineDeletion,
            ClusterType
    <2>2. CASE UserNext
        BY <2>0, <2>2
        DEF UserNext, Scale, Upgrade, CompleteControlPlaneUpgrade, DeleteCluster,
            AnnotateMachine, DeleteMachineByHand, LoseMachine, ClusterType
    <2>3. CASE SyncCluster \/ SyncMachines
        BY <2>0, <2>3 DEF SyncCluster, SyncMachines
    <2> QED  BY <2>1, <2>2, <2>3 DEF WorldNext
<1>2. UNCHANGED recVars
    BY DEF WorldNext
<1>3. Complete(ec', passed')
    BY <1>1, <1>2 DEF ReadyInv, Complete, recVars
<1> QED  BY <1>1, <1>2, <1>3, WorldEffect, ReadyGoesOn DEF ReadyInv, recVars

LEMMA ReadyNext ==
    "non200" \notin MemberAnswers /\ TypeOK /\ ReadyInv /\ [Next]_vars => ReadyInv'
<1> SUFFICES ASSUME "non200" \notin MemberAnswers, TypeOK, ReadyInv, [Next]_vars
             PROVE  ReadyInv'
    OBVIOUS
<1>0. Remembered' /\ passed \subseteq passed'
    BY AnswersKept DEF ReadyInv
<1>a. /\ Complete(ec, passed') /\ Complete(CachedCluster, passed')
      /\ pc # "idle" => Complete(cur, passed')
    BY <1>0, StillComplete DEF ReadyInv
<1>b. ASSUME UNCHANGED <<ec, cache, before>>, pc # "idle", Complete(cur', passed'),
             cur.endpoints # {} => cur'.endpoints # {}
      PROVE  ReadyInv'
    BY <1>0, <1>a, <1>b, ReadyGoesOn DEF ReadyInv
<1>c. ASSUME UNCHANGED ec, cache' = cache \/ cache' = ec, Return
      PROVE  ReadyInv'
    BY <1>0, <1>a, <1>c, ReadyGoesOn DEF Return
<1>1. CASE Reconcile
    <2>1. /\ UNCHANGED <<ec, cache>> /\ before' = CachedCluster
          /\ cur' = CachedCluster \/ cur' = [CachedCluster EXCEPT !.fin = TRUE]
        BY <1>1 DEF Reconcile, worldVars
    <2>2. CachedCluster \in ClusterType
        BY DEF TypeOK, WorldTypeOK, CachedCluster
    <2>3. /\ cur'.replicas = CachedCluster.replicas /\ cur'.ready = CachedCluster.ready
          /\ cur'.endpoints = CachedCluster.endpoints
        BY <2>1, <2>2 DEF ClusterType
    <2>4. Complete(cur', passed')
        BY <1>a, <2>3 DEF Complete
    <2> QED  BY <1>0, <1>a, <2>1, <2>3, <2>4, ReadyGoesOn DEF ReadyInv
<1>2. CASE AddFinalizer \/ PatchEtcdCluster
    BY <1>0, <1>2, ReadyPatch
<1>3. CASE Decide
    <2>1. /\ UNCHANGED <<ec, cache, before>> /\ SameMarks(cur', cur) /\ pc # "idle"
        BY <1>3, DecideEffect DEF worldVars
    <2> QED  BY <1>a, <1>b, <2>1 DEF SameMarks, Complete
<1>4. CASE Act
    <2>1. /\ UNCHANGED <<ec, cache, before>> /\ pc # "idle"
          /\ UNCHANGED <<cur.endpoints, cur.ready, cur.replicas>>
        BY <1>4, ActEffect
    <2> QED  BY <1>a, <1>b, <2>1 DEF Complete
<1>5. CASE CheckOwnedMachines
    BY <1>a, <1>b, <1>5 DEF CheckOwnedMachines
<1>6. CASE CheckFails \/ Restart
    BY <1>c, <1>6 DEF CheckFails, Restart, ProcessLost, worldVars
<1>7. CASE \/ StatusDeleting \/ StatusResizing \/ StatusUnhealthy
           \/ StatusReady \/ StatusNewEndpoints
    <2>1. UNCHANGED <<ec, cache, before>> /\ pc # "idle"
        BY <1>7, StatusEffect
    <2>2. Complete(cur', passed) /\ (cur.endpoints # {} => cur'.endpoints # {})
        BY <1>7, StatusComplete
    <2> QED  BY <1>0, <1>b, <2>1, <2>2, StillComplete
<1>8. CASE WorldNext
    BY <1>0, <1>8, ReadyWorld
<1>9. CASE UNCHANGED vars
    BY <1>9
    DEF vars, worldVars, recVars, ReadyInv, Complete, Remembered, CachedCluster
<1> QED
    BY <1>1, <1>2, <1>3, <1>4, <1>5, <1>6, <1>7, <1>8, <1>9
    DEF Next, ReconcilerNext, Working, Report

\* Whatever failing calls, crashes, old copies and half-done patches leave of
\* a status, Ready is there only beside the endpoints of a complete cluster,
\* every member of which has passed a health check: what refutes the doc of
\* Ready is the wrapped nil error of an answer that is not 200, and nothing
\* else (updateStatus, the patch at the end of Reconcile).
THEOREM ReadyIsHealthy ==
    "non200" \notin MemberAnswers /\ Spec => []ReadyMeansHealthy
<1>1. ReadyInv => ReadyMeansHealthy
    BY DEF ReadyInv, Complete, ReadyMeansHealthy, PassedTogether
<1>2. "non200" \notin MemberAnswers => ("non200" \notin MemberAnswers)'
    OBVIOUS
<1> QED
    BY TypeInit, TypeNext, ReadyInit, ReadyNext, <1>1, <1>2, PTL DEF Spec
=============================================================================
