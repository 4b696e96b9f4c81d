----------------------------- MODULE RolloutProofs -----------------------------
(***************************************************************************)
(* A rollout goes on only past a healthy machine: RolloutGated for every   *)
(* number of machines, versions and replicas, as long as the controller is *)
(* not killed, no call fails, no copy of the object is old, and nobody     *)
(* changes the size or deletes machines (PatientWorld).                    *)
(***************************************************************************)
EXTENDS LifecycleProofs

-----------------------------------------------------------------------------
(* Steps that keep the owned machines, and the size of the cluster *)

\* The owned machines stay as they are, but for their bootstrap and marks.
OwnedKept ==
    /\ OwnedMachines(mach') = OwnedMachines(mach)
    /\ \A m \in OwnedMachines(mach) :
            mach'[m].st = mach[m].st /\ mach'[m].ver = mach[m].ver

SizeKept == UNCHANGED <<ec.exists, ec.del, ec.replicas>>

LEMMA SameIsKept ==
    ASSUME mach' = mach PROVE OwnedKept
BY DEF OwnedKept

LEMMA KeptMixed ==
    ASSUME OwnedKept PROVE Mixed(mach') <=> Mixed(mach)
BY DEF OwnedKept, Mixed

LEMMA KeptSize ==
    ASSUME SizeInv, OwnedKept, SizeKept PROVE SizeInv'
<1>1. Mixed(mach') <=> Mixed(mach)
    BY KeptMixed
<1> QED  BY <1>1 DEF SizeInv, OwnedKept, SizeKept

\* One field of a machine changes that says nothing about its life or version.
LEMMA BootKeepsOwned ==
    ASSUME mach \in [Ids -> MachineType], NEW m \in Ids,
           \/ mach' = [mach EXCEPT ![m].boot = "addr"]
           \/ mach' = [mach EXCEPT ![m].boot = "joined"]
           \/ mach' = [mach EXCEPT ![m].ann = TRUE]
    PROVE  OwnedKept
<1> DEFINE Same(r, s) == s.st = r.st /\ s.owned = r.owned /\ s.ver = r.ver
<1>1. \A r \in MachineType : /\ Same(r, [r EXCEPT !.boot = "addr"])
                             /\ Same(r, [r EXCEPT !.boot = "joined"])
                             /\ Same(r, [r EXCEPT !.ann = TRUE])
    BY DEF MachineType
<1>2. \/ mach' = [mach EXCEPT ![m] = [mach[m] EXCEPT !.boot = "addr"]]
      \/ mach' = [mach EXCEPT ![m] = [mach[m] EXCEPT !.boot = "joined"]]
      \/ mach' = [mach EXCEPT ![m] = [mach[m] EXCEPT !.ann = TRUE]]
    OBVIOUS
<1>3. Same(mach[m], mach'[m]) /\ \A k \in Ids \ {m} : mach'[k] = mach[k]
    <2> HIDE DEF Same
    <2> QED  BY <1>1, <1>2
<1> QED  BY <1>3 DEF OwnedKept, OwnedMachines, EtcdClusterMachines

\* A machine that is not owned may go.
LEMMA OthersKeepOwned ==
    ASSUME NEW k \in Ids, k \notin OwnedMachines(mach),
           \A m \in Ids \ {k} : mach'[m] = mach[m],
           mach'[k].st = "gone" \/ mach'[k].owned = mach[k].owned,
           mach[k].owned => mach'[k].st \notin {"live", "deleting"}
    PROVE  OwnedKept
BY DEF OwnedKept, OwnedMachines, EtcdClusterMachines

\* What the world does in the meantime.
LEMMA PatientWorldEffect ==
    ASSUME TypeOK, SizeInv, PatientWorld, WorldNext
    PROVE  /\ OwnedKept /\ SizeKept
           /\ ec'.specUpToDate = ec.specUpToDate
           /\ UNCHANGED recVars
<1> DEFINE Effect == OwnedKept /\ SizeKept /\ ec'.specUpToDate = ec.specUpToDate
<1>0. ec \in ClusterType /\ mach \in [Ids -> MachineType]
    BY DEF TypeOK, WorldTypeOK
<1>1. ASSUME mach' = mach, SizeKept, ec'.specUpToDate = ec.specUpToDate
      PROVE  Effect
    BY <1>1, SameIsKept
<1>2. ASSUME NEW m \in Ids, AssignAddress(m) PROVE Effect
    BY <1>0, <1>2, BootKeepsOwned DEF AssignAddress, SizeKept
<1>3. ASSUME NEW m \in Ids, InitMember(m) PROVE Effect
    <2>1. SizeKept /\ ec'.specUpToDate = ec.specUpToDate
        BY <1>0, <1>3 DEF InitMember, SizeKept, ClusterType
    <2> QED  BY <1>0, <1>3, <2>1, BootKeepsOwned DEF InitMember
<1>4. ASSUME NEW m \in Ids, JoinMember(m) PROVE Effect
    BY <1>0, <1>4, BootKeepsOwned DEF JoinMember, SizeKept
<1>5. ASSUME NEW m \in Ids, FinishMachineDeletion(m) PROVE Effect
    <2>1. m \notin OwnedMachines(mach)
        BY <1>5 DEF FinishMachineDeletion, SizeInv
    <2>2. mach'[m].st = "gone" /\ \A k \in Ids \ {m} : mach'[k] = mach[k]
        BY <1>0, <1>5 DEF FinishMachineDeletion, Removed, Unborn
    <2>3. OwnedKept
        BY <2>1, <2>2, OthersKeepOwned
    <2> QED  BY <1>5, <2>3 DEF FinishMachineDeletion, SizeKept
<1>6. ASSUME UserNext PROVE Effect
    <2>1. ASSUME NEW m \in Ids, AnnotateMachine(m) PROVE Effect
        BY <1>0, <2>1, BootKeepsOwned DEF AnnotateMachine, SizeKept
    <2>2. ASSUME NEW v \in Versions, Upgrade(v) PROVE Effect
        <3>1. SizeKept /\ ec'.specUpToDate = ec.specUpToDate /\ mach' = mach
            BY <1>0, <2>2 DEF Upgrade, SizeKept, ClusterType
        <3> QED  BY <1>1, <3>1
    <2>3. ASSUME CompleteControlPlaneUpgrade PROVE Effect
        <3>1. SizeKept /\ ec'.specUpToDate = ec.specUpToDate /\ mach' = mach
            BY <1>0, <2>3 DEF CompleteControlPlaneUpgrade, SizeKept, ClusterType
        <3> QED  BY <1>1, <3>1
    <2>4. \/ \E m \in Ids : AnnotateMachine(m)
          \/ \E v \in Versions : Upgrade(v)
          \/ CompleteControlPlaneUpgrade
        BY <1>6 DEF UserNext, PatientWorld, Scale, DeleteCluster, DeleteMachineByHand
    <2> QED  BY <2>1, <2>2, <2>3, <2>4
<1>7. ASSUME SyncCluster \/ SyncMachines PROVE Effect
    <2>1. SizeKept /\ ec'.specUpToDate = ec.specUpToDate /\ mach' = mach
        BY <1>7 DEF SyncCluster, SyncMachines, SizeKept
    <2> QED  BY <1>1, <2>1
<1> QED
    BY <1>2, <1>3, <1>4, <1>5, <1>6, <1>7 DEF WorldNext, InfraNext

-----------------------------------------------------------------------------
(* Decisions *)

\* Size, version and mark of the copy a decision goes on with.
LEMMA DecisionKeeps ==
    ASSUME NEW e \in ClusterType
    PROVE  /\ NoteOutdated(e) \in ClusterType
           /\ NoteOutdated(e).replicas = e.replicas /\ NoteOutdated(e).ver = e.ver
           /\ NoteOutdated(e).specUpToDate = e.specUpToDate
           /\ MarkRolling(e).replicas = e.replicas /\ MarkRolling(e).ver = e.ver
           /\ MarkRolling(e).specUpToDate = "Rolling"
<1>1. /\ NoteOutdated(e).replicas = e.replicas
      /\ NoteOutdated(e).specUpToDate = e.specUpToDate
    <2>1. CASE Owned # All
        BY <2>1 DEF NoteOutdated, ClusterType
    <2>2. CASE Owned = All
        BY <2>2 DEF NoteOutdated, ClusterType
    <2> QED  BY <2>1, <2>2
<1>2. /\ MarkRolling(e).replicas = e.replicas
      /\ MarkRolling(e).specUpToDate = "Rolling"
    BY DEF MarkRolling, ClusterType
<1> QED  BY <1>1, <1>2, DecisionType

\* The facts a decision starts from.
LEMMA ListingFacts ==
    ASSUME TypeOK, GatedInv, pc \in OnListing
    PROVE  /\ Mixed(plane) <=> Mixed(mach)
           /\ Owned \subseteq Ids /\ Fresh \subseteq Owned
           /\ NeedRollout = Owned \ Fresh
           /\ UpToDateMachines(plane, cur.ver) = Fresh
           /\ Mixed(mach) => SpecOutOfDate(cur)
           /\ ~Mixed(mach) => Cardinality(Owned) <= cur.replicas
           /\ cur.replicas > 0
<1>1. /\ Owned = OwnedMachines(mach)
      /\ \A m \in Owned : plane[m].ver = mach[m].ver /\ plane[m].st = "live"
    BY DEF GatedInv, ListingInv
<1>2. Mixed(plane) <=> Mixed(mach)
    BY <1>1 DEF Mixed, Owned
<1>3. NeedRollout = Owned \ Fresh
    BY <1>1 DEF NeedRollout, MachinesNeedingRollout, Owned, Fresh, HasDeletionTimestamp,
                MatchesEtcdadmClusterConfiguration
<1>4. UpToDateMachines(plane, cur.ver) = Fresh
    BY <1>3 DEF UpToDateMachines, NeedRollout, Owned, Fresh
<1>5. pc # "idle"
    BY DEF OnListing
<1> QED
    BY <1>1, <1>2, <1>3, <1>4, <1>5, OwnedAreIds DEF Owned, Fresh, GatedInv, SizeInv, MarkInv

\* What is left to show of a decision when nothing but the copy has changed.
LEMMA DecisionLeaves ==
    ASSUME TypeOK, GatedInv, pc \in OnListing,
           UNCHANGED <<worldVars, before>>,
           pc' \in {"create", "disown", "remove", "gate", "check"},
           pc' # "check" => plane' = plane,
           cur'.replicas = cur.replicas,
           Mixed(mach) => SpecOutOfDate(cur'),
           WorkInv'
    PROVE  GatedInv'
<1>1. mach' = mach /\ ec' = ec /\ before' = before
    BY DEF worldVars
<1>2. SizeInv'
    BY <1>1, KeptSize, SameIsKept DEF GatedInv, SizeKept
<1>3. pc # "idle"
    BY DEF OnListing
<1>4. MarkInv'
    BY <1>1, <1>3 DEF GatedInv, MarkInv, SpecOutOfDate
<1>5. ListingInv'
    BY <1>1 DEF GatedInv, ListingInv, OnListing, Owned
<1> QED  BY <1>2, <1>4, <1>5 DEF GatedInv

Deciding == pc \in {"decide", "gate"}

\* A decision to do nothing more.
LEMMA DecisionEnds ==
    ASSUME TypeOK, GatedInv, Deciding, NEW e, Continue("check", e),
           e.replicas = cur.replicas, Mixed(mach) => SpecOutOfDate(e)
    PROVE  GatedInv'
<1>1. pc' = "check" /\ cur' = e /\ UNCHANGED <<worldVars, before>>
    BY DEF Continue
<1>2. WorkInv'
    BY <1>1 DEF WorkInv
<1> QED  BY <1>1, <1>2, DecisionLeaves DEF Deciding, OnListing

\* The next step of a rollout: past the gate, or with no machine to check.
LEMMA UpgradeGated ==
    ASSUME TypeOK, GatedInv, Deciding, NeedRollout # {},
           NEW e \in {cur, NoteOutdated(cur)}, upgradeEtcdCluster(e),
           Fresh # {} => Max(Fresh) \in passed'
    PROVE  GatedInv'
<1>0. cur \in ClusterType /\ e \in ClusterType /\ e.ver = cur.ver /\ e.replicas = cur.replicas
    BY DecisionKeeps, DecisionType DEF TypeOK
<1>1. /\ cur' = MarkRolling(e) /\ UNCHANGED <<worldVars, before, plane>>
      /\ (pc' = "create" /\ UpgradeScalesUp) \/ pc' = "disown"
    BY DEF upgradeEtcdCluster, Continue, PlaneAt
<1>2. cur'.ver = cur.ver /\ cur'.replicas = cur.replicas /\ SpecOutOfDate(cur')
    BY <1>0, <1>1, DecisionKeeps DEF SpecOutOfDate
<1>3. Owned' = Owned /\ Fresh' = Fresh
    BY <1>1, <1>2 DEF Owned, Fresh
<1>4. Owned # Fresh
    BY ListingFacts DEF Deciding, OnListing
<1>5. UpgradeScalesUp => \/ Cardinality(Owned) < cur.replicas
                         \/ cur.replicas = 1 /\ Cardinality(Owned) = 1
    BY DEF UpgradeScalesUp
<1>6. WorkInv'
    BY <1>1, <1>2, <1>3, <1>4, <1>5 DEF WorkInv
<1> QED  BY <1>1, <1>2, <1>6, DecisionLeaves DEF Deciding, OnListing

\* Without an outdated machine the mark goes, and all machines are alike.
LEMMA SettledGated ==
    ASSUME TypeOK, GatedInv, PatientWorld,
           \/ CertRenewalFails \/ InitializeCluster \/ AwaitInitialization
           \/ ScaleUp \/ ScaleDown \/ NothingToDo
    PROVE  GatedInv'
<1>0. pc = "decide" /\ NeedRollout = {} /\ Deciding
    BY DEF CertRenewalFails, InitializeCluster, AwaitInitialization, ScaleUp, ScaleDown,
           NothingToDo, Sized, NoRollout, NoRemoval, Deciding
<1>1. Owned = Fresh /\ ~Mixed(plane) /\ ~Mixed(mach) /\ cur.replicas > 0
      /\ Cardinality(Owned) <= cur.replicas
    <2>1. Owned = Fresh
        BY <1>0, ListingFacts DEF OnListing
    <2>2. ~Mixed(plane)
        BY <2>1 DEF Mixed, Fresh, Owned
    <2> QED  BY <1>0, <2>1, <2>2, ListingFacts DEF OnListing
<1>2. cur \in ClusterType
    BY DEF TypeOK
<1>3. /\ Settled \in ClusterType /\ SettledAndRenewed \in ClusterType
      /\ Settled.replicas = cur.replicas /\ Settled.ver = cur.ver
      /\ SettledAndRenewed.replicas = cur.replicas /\ SettledAndRenewed.ver = cur.ver
    <2>1. Settled.replicas = cur.replicas /\ Settled.ver = cur.ver
        BY <1>2, DecisionKeeps DEF Settled, ClusterType
    <2>2. Settled \in ClusterType /\ SettledAndRenewed \in ClusterType
        BY <1>2, SettledType
    <2> QED  BY <2>1, <2>2 DEF SettledAndRenewed, ClusterType
<1>4. ASSUME NEW e, Continue("check", e), e.replicas = cur.replicas
      PROVE  GatedInv'
    BY <1>0, <1>1, <1>4, DecisionEnds
<1>5. ASSUME NEW e, Continue("create", e), e.replicas = cur.replicas, e.ver = cur.ver,
             Cardinality(Owned) < cur.replicas
      PROVE  GatedInv'
    <2>1. pc' = "create" /\ cur' = e /\ UNCHANGED <<worldVars, before, plane>>
        BY <1>5 DEF Continue, PlaneAt
    <2>2. Owned' = Owned /\ Fresh' = Fresh
        BY <1>5, <2>1 DEF Owned, Fresh
    <2>3. WorkInv'
        BY <1>1, <1>5, <2>1, <2>2 DEF WorkInv
    <2> QED  BY <1>0, <1>1, <1>5, <2>1, <2>3, DecisionLeaves DEF OnListing
<1>6. CASE CertRenewalFails
    BY <1>6 DEF CertRenewalFails, PatientWorld
<1>7. CASE InitializeCluster
    <2> DEFINE i == [SettledAndRenewed EXCEPT !.initCond = "False"]
               c == [i EXCEPT !.certs = "True"]
    <2>1. Continue("create", c) /\ Owned = {}
        BY <1>7 DEF InitializeCluster, PatientWorld
    <2>2. i \in ClusterType /\ i.replicas = cur.replicas /\ i.ver = cur.ver
        BY <1>3 DEF ClusterType, ConditionType
    <2>3. c.replicas = cur.replicas /\ c.ver = cur.ver
        <3> HIDE DEF i
        <3> QED  BY <2>2 DEF ClusterType
    <2>4. Cardinality(Owned) = 0
        BY <2>1, FS_EmptySet
    <2> HIDE DEF c
    <2> QED  BY <1>1, <1>5, <2>1, <2>3, <2>4
<1>8. CASE AwaitInitialization
    <2> DEFINE e == [SettledAndRenewed EXCEPT
                        !.initCond = IF cur.initialized THEN "True" ELSE @]
    <2>1. e.replicas = cur.replicas
        BY <1>3 DEF ClusterType
    <2> QED  BY <1>4, <1>8, <2>1 DEF AwaitInitialization
<1>9. CASE ScaleUp
    BY <1>3, <1>5, <1>9 DEF ScaleUp
<1>10. CASE ScaleDown
    <2>1. Cardinality(Owned) \in Nat /\ cur.replicas \in Nat
        BY <1>0, <1>2, ListingFacts, FewerMachines, ReplicasAssumption DEF OnListing, ClusterType
    <2> QED  BY <1>1, <1>10, <2>1 DEF ScaleDown
<1>11. CASE NothingToDo
    BY <1>3, <1>4, <1>11 DEF NothingToDo
<1> QED  BY <1>6, <1>7, <1>8, <1>9, <1>10, <1>11

LEMMA DecideGated ==
    ASSUME TypeOK, GatedInv, PatientWorld, Decide
    PROVE  GatedInv'
<1>0. cur \in ClusterType
    BY DEF TypeOK
<1>1. CASE pc = "decide"
    <2> USE <1>1
    <2>0. /\ Deciding /\ pc \in OnListing
          /\ Mixed(mach) => SpecOutOfDate(cur)
          /\ Mixed(mach) => SpecOutOfDate(NoteOutdated(cur))
          /\ NoteOutdated(cur).replicas = cur.replicas
          /\ NoteOutdated(cur).ver = cur.ver
        BY <1>0, ListingFacts, DecisionKeeps DEF Deciding, OnListing, SpecOutOfDate
    <2>1. CASE RemoveOutdatedMembers
        <3>1. /\ pc' = "remove" /\ cur' = NoteOutdated(cur)
              /\ UNCHANGED <<worldVars, before, plane, target>>
              /\ todo' = All \ Owned
            BY <2>1 DEF RemoveOutdatedMembers, Continue, PlaneAt
        <3>2. Owned' = Owned
            BY <3>1 DEF Owned
        <3>3. target = 0 /\ 0 \notin Owned
            BY <2>0, ListingFacts, MaxMachinesAssumption DEF TypeOK, Ids
        <3>4. WorkInv'
            BY <3>1, <3>2, <3>3 DEF WorkInv
        <3> QED  BY <2>0, <3>1, <3>4, DecisionLeaves
    <2>2. CASE HoldAtMaximum
        <3> DEFINE e == [NoteOutdated(cur) EXCEPT !.specUpToDate = "MaxReached"]
        <3>1. e.replicas = cur.replicas /\ SpecOutOfDate(e)
            BY <1>0, <2>0, DecisionKeeps DEF ClusterType, SpecOutOfDate
        <3> QED  BY <2>0, <2>2, <3>1, DecisionEnds DEF HoldAtMaximum
    <2>3. CASE RolloutWaits
        BY <2>0, <2>3, DecisionEnds DEF RolloutWaits
    <2>4. CASE RolloutChecksNewest
        <3>1. /\ pc' = "gate" /\ cur' = NoteOutdated(cur)
              /\ UNCHANGED <<worldVars, before, plane>> /\ NeedRollout # {}
            BY <2>4 DEF RolloutChecksNewest, RolloutGoesOn, Continue, PlaneAt
        <3>2. NeedRollout' = NeedRollout
            BY <2>0, <3>1 DEF NeedRollout
        <3>3. WorkInv'
            BY <3>1, <3>2 DEF WorkInv
        <3> QED  BY <2>0, <3>1, <3>3, DecisionLeaves
    <2>5. CASE RolloutStarts
        <3>1. NeedRollout # {} /\ (~SpecOutOfDate(cur) \/ Fresh = {})
            BY <2>0, <2>5, ListingFacts DEF RolloutStarts, RolloutUnderWay
        <3>2. ASSUME Fresh # {} PROVE FALSE
            <4>1. PICK a \in Fresh, b \in Owned : b \notin Fresh
                BY <2>0, <3>1, <3>2, ListingFacts
            <4>2. Mixed(plane)
                BY <4>1 DEF Mixed, Fresh, Owned
            <4> QED  BY <2>0, <3>1, <3>2, <4>2, ListingFacts
        <3> QED  BY <2>0, <2>5, <3>1, <3>2, UpgradeGated DEF RolloutStarts
    <2> QED
        BY <2>1, <2>2, <2>3, <2>4, <2>5, SettledGated
        DEF Decide, ReconcileFails, GatePasses, GateFails, PatientWorld
<1>2. CASE pc = "gate"
    <2>0. /\ Deciding /\ NeedRollout # {}
          /\ Mixed(mach) => SpecOutOfDate(cur)
        BY <1>2, ListingFacts DEF Deciding, OnListing, GatedInv, WorkInv
    <2>1. CASE GateFails
        BY <2>0, <2>1, DecisionEnds DEF GateFails
    <2>2. CASE GatePasses
        <3>1. Newest = Max(Fresh)
            BY <1>2, ListingFacts DEF Newest, NewestUpToDateMachine, OnListing
        <3>2. Newest \in passed'
            <4>1. PICK a \in Probe(Newest) :
                    /\ ~HealthCheckError(a)
                    /\ passed' = passed \cup {m \in {Newest} : a = "ok"}
                BY <2>2 DEF GatePasses
            <4>2. a = "ok"
                BY <4>1, AnswersAssumption
                DEF Probe, HealthCheckError, PatientWorld, Answers
            <4> QED  BY <4>1, <4>2
        <3> QED  BY <2>0, <2>2, <3>1, <3>2, UpgradeGated DEF GatePasses
    <2> QED
        BY <1>2, <2>1, <2>2
        DEF Decide, ReconcileFails, RemoveOutdatedMembers, HoldAtMaximum, RolloutWaits,
            RolloutChecksNewest, RolloutGoesOn, RolloutStarts, CertRenewalFails,
            InitializeCluster, AwaitInitialization, ScaleUp, ScaleDown, NothingToDo,
            Sized, NoRollout, NoRemoval
<1> QED  BY <1>1, <1>2, DecideEffect

-----------------------------------------------------------------------------
(* Creating, disowning and deleting *)

\* A call that leaves the owned machines alone.
LEMMA WorkGoesOn ==
    ASSUME TypeOK, GatedInv, pc \in OnListing, OwnedKept, UNCHANGED <<ec, before, cur>>,
           pc' \in {"check", "remove", "memberRemove", "deleteMachine"},
           pc' # "check" =>
                plane' = plane /\ todo' \cap Owned = {} /\ target' \notin Owned
    PROVE  GatedInv'
<1>0. pc # "idle"
    BY DEF OnListing
<1>1. SizeInv'
    BY KeptSize DEF GatedInv, SizeKept
<1>2. MarkInv'
    BY <1>0, KeptMixed DEF GatedInv, MarkInv, SpecOutOfDate
<1>3. ListingInv'
    BY DEF GatedInv, ListingInv, OnListing, Owned, OwnedKept
<1>4. WorkInv'
    BY DEF WorkInv, Owned
<1> QED  BY <1>1, <1>2, <1>3, <1>4 DEF GatedInv

\* A machine is created when the cluster is short of one, or next to the only
\* one, which is of another version.
LEMMA CreationGated ==
    ASSUME TypeOK, GatedInv, CreateMachine
    PROVE  GatedInv'
<1> DEFINE k == Min(FreeIds)
           old == OwnedMachines(mach)
           new == OwnedMachines(mach')
<1>0. /\ pc = "create" /\ pc' = "check" /\ UNCHANGED <<ec, before, cur>>
      /\ pc \in OnListing /\ pc # "idle"
    BY DEF CreateMachine, Step, OnListing
<1>1. /\ k \in Ids /\ k \notin old /\ new = old \cup {k}
      /\ mach'[k].st = "live"
      /\ \A m \in old : mach'[m] = mach[m]
    BY CreationEffect DEF OwnedMachines, EtcdClusterMachines
<1>2. mach'[k].ver = cur.ver
    <2>1. mach \in [Ids -> MachineType] /\ Unborn \in MachineType
        BY UnbornType DEF TypeOK, WorldTypeOK
    <2>2. \A f : [Unborn EXCEPT !.st = "live", !.owned = TRUE,
                                !.ver = cur.ver, !.fd = f].ver = cur.ver
        BY DEF Unborn
    <2> QED  BY <1>1, <2>1, <2>2 DEF CreateMachine
<1> HIDE DEF k
<1>3. /\ Owned = old /\ \A m \in Owned : plane[m].ver = mach[m].ver
      /\ cur.replicas = ec.replicas
    BY <1>0 DEF GatedInv, ListingInv, MarkInv
<1>4. /\ IsFiniteSet(old) /\ Cardinality(old) \in Nat
      /\ Cardinality(new) = Cardinality(old) + 1
    <2>1. IsFiniteSet(old)
        BY OwnedAreIds, IdsFinite, FS_Subset
    <2> QED  BY <1>1, <2>1, FS_AddElement, FS_CardinalityType
<1>5. \/ Cardinality(Owned) < cur.replicas
      \/ cur.replicas = 1 /\ Cardinality(Owned) = 1 /\ Owned # Fresh
    BY <1>0 DEF GatedInv, WorkInv
<1>6. ASSUME Owned # Fresh PROVE Mixed(mach')
    <2>1. PICK m \in Owned : plane[m].ver # cur.ver
        BY <1>6 DEF Fresh
    <2> QED  BY <1>1, <1>2, <1>3, <2>1 DEF Mixed
<1>7. cur.replicas \in Nat
    BY ReplicasAssumption DEF TypeOK, ClusterType
<1>8. SizeInv'
    <2>1. \A m \in new : mach'[m].st = "live"
        BY <1>1 DEF GatedInv, SizeInv
    <2>2. Cardinality(new) <= ec.replicas
          \/ (Mixed(mach') /\ Cardinality(new) <= ec.replicas + 1)
        BY <1>3, <1>4, <1>5, <1>6, <1>7
    <2> QED  BY <1>0, <2>1, <2>2 DEF GatedInv, SizeInv
<1>9. ASSUME ~SpecOutOfDate(cur) PROVE ~Mixed(mach')
    <2>1. Owned = Fresh
        BY <1>0, <1>9 DEF GatedInv, WorkInv
    <2>2. \A m \in new : mach'[m].ver = cur.ver
        BY <1>1, <1>2, <1>3, <2>1 DEF Fresh
    <2> QED  BY <2>2 DEF Mixed
<1>10. MarkInv'
    BY <1>0, <1>9 DEF GatedInv, MarkInv, SpecOutOfDate
<1>11. ListingInv' /\ WorkInv'
    BY <1>0 DEF ListingInv, WorkInv, OnListing
<1> QED  BY <1>8, <1>10, <1>11 DEF GatedInv

\* A machine less, which may have been the only one of its version.
LEMMA DisowningGated ==
    ASSUME TypeOK, GatedInv, Disown
    PROVE  GatedInv'
<1> DEFINE old == OwnedMachines(mach)
           new == OwnedMachines(mach')
<1>0. /\ pc' = "check" /\ UNCHANGED <<ec, before, cur>>
      /\ pc \in OnListing /\ pc # "idle" /\ mach \in [Ids -> MachineType]
    BY DEF Disown, Step, OnListing, TypeOK, WorldTypeOK
<1>1. /\ mach' = [mach EXCEPT ![target] = [mach[target] EXCEPT !.owned = FALSE]]
      /\ target \in Ids
    BY UpdateWrites DEF Disown
<1>2. \A r \in MachineType : [r EXCEPT !.owned = FALSE].owned = FALSE
    BY DEF MachineType
<1>3. ~mach'[target].owned /\ \A m \in Ids \ {target} : mach'[m] = mach[m]
    BY <1>0, <1>1, <1>2
<1>4. new = old \ {target} /\ \A m \in new : mach'[m] = mach[m]
    BY <1>3 DEF OwnedMachines, EtcdClusterMachines
<1>5. Mixed(mach') => Mixed(mach)
    BY <1>4 DEF Mixed
<1>6. MarkInv'
    BY <1>0, <1>5 DEF GatedInv, MarkInv, SpecOutOfDate
<1>7. SizeInv'
    <2>1. IsFiniteSet(old) /\ Cardinality(old) \in Nat
        BY OwnedAreIds, IdsFinite, FS_Subset, FS_CardinalityType
    <2>2. \/ new = old /\ Mixed(mach') = Mixed(mach)
          \/ Cardinality(new) = Cardinality(old) - 1
        <3>1. CASE target \in old
            BY <1>4, <2>1, <3>1, FS_RemoveElement
        <3>2. CASE target \notin old
            BY <1>4, <3>2 DEF Mixed
        <3> QED  BY <3>1, <3>2
    <2>3. ec.replicas \in Nat
        BY ReplicasAssumption DEF TypeOK, WorldTypeOK, ClusterType
    <2>4. \A m \in new : mach'[m].st = "live"
        BY <1>4 DEF GatedInv, SizeInv
    <2>5. Cardinality(new) <= ec.replicas
          \/ (Mixed(mach') /\ Cardinality(new) <= ec.replicas + 1)
        BY <2>1, <2>2, <2>3 DEF GatedInv, SizeInv
    <2> QED  BY <1>0, <2>4, <2>5 DEF GatedInv, SizeInv
<1>8. ListingInv' /\ WorkInv'
    BY <1>0 DEF ListingInv, WorkInv, OnListing
<1> QED  BY <1>6, <1>7, <1>8 DEF GatedInv

LEMMA ActGated ==
    ASSUME TypeOK, GatedInv, Act
    PROVE  GatedInv'
<1> USE DEF Step
<1>1. CASE CreateFails \/ DisownFails \/ RemovalFails
    <2>1. pc \in OnListing /\ pc' = "check" /\ UNCHANGED <<worldVars, before, cur>>
        BY <1>1 DEF CreateFails, DisownFails, RemovalFails, OnListing
    <2>2. mach' = mach /\ ec' = ec
        BY <2>1 DEF worldVars
    <2> QED  BY <2>1, <2>2, SameIsKept, WorkGoesOn
<1>2. CASE MemberList \/ MemberRemove \/ DeleteMachine
    <2>0. /\ pc \in {"remove", "memberRemove", "deleteMachine"}
          /\ pc \in OnListing /\ UNCHANGED <<ec, before, cur>>
        BY <1>2 DEF MemberList, MemberRemove, DeleteMachine, NextRemoval, OnListing, worldVars
    <2>1. todo \cap Owned = {} /\ target \notin Owned /\ 0 \notin Owned
        BY <2>0, ListingFacts, MaxMachinesAssumption DEF GatedInv, WorkInv, Ids
    <2>2. CASE MemberList
        <3>1. PICK m \in todo :
                \/ target' = m /\ Step("memberRemove") /\ UNCHANGED todo
                \/ NextRemoval(m)
                \/ target' = m /\ Step("deleteMachine") /\ UNCHANGED todo
            BY <2>2 DEF MemberList
        <3>2. OwnedKept
            BY <2>2, SameIsKept DEF MemberList, worldVars
        <3>3. /\ pc' \in {"check", "remove", "memberRemove", "deleteMachine"}
              /\ pc' # "check" => plane' = plane
              /\ todo' \subseteq todo /\ target' \in todo \cup {0}
            BY <3>1 DEF NextRemoval, PlaneAt
        <3> QED  BY <2>0, <2>1, <3>2, <3>3, WorkGoesOn
    <2>3. CASE MemberRemove
        <3>1. OwnedKept
            BY <2>3, SameIsKept DEF MemberRemove
        <3> QED  BY <2>0, <2>1, <2>3, <3>1, WorkGoesOn DEF MemberRemove, PlaneAt
    <2>4. CASE DeleteMachine
        <3>1. target \in Ids /\ mach \in [Ids -> MachineType]
            BY <2>4 DEF DeleteMachine, TypeOK, WorldTypeOK
        <3>2. target \notin OwnedMachines(mach)
            BY <2>0, <2>1 DEF GatedInv, ListingInv
        <3>3. \/ mach' = mach
              \/ /\ \A m \in Ids \ {target} : mach'[m] = mach[m]
                 /\ mach'[target].owned = mach[target].owned
                 /\ mach[target].st = "live"
            BY <2>4, <3>1 DEF DeleteMachine, Deleted, MachineType
        <3>4. OwnedKept
            BY <3>1, <3>2, <3>3, SameIsKept, OthersKeepOwned
            DEF OwnedMachines, EtcdClusterMachines
        <3>5. /\ pc' \in {"check", "remove"}
              /\ pc' # "check" => plane' = plane
              /\ todo' \subseteq todo /\ target' = 0
            BY <2>4 DEF DeleteMachine, NextRemoval, PlaneAt
        <3> QED  BY <2>0, <2>1, <3>4, <3>5, WorkGoesOn
    <2> QED  BY <1>2, <2>2, <2>3, <2>4
<1>3. ~ReconcileDelete /\ ~DeleteEach
    BY DEF ReconcileDelete, DeleteEach, GatedInv, MarkInv
<1> QED
    BY <1>1, <1>2, <1>3, CreationGated, DisowningGated DEF Act

-----------------------------------------------------------------------------
(* The rest of a reconcile *)

\* The report computes the status; the patch stores the mark.
LEMMA StatusKeeps ==
    ASSUME TypeOK,
           \/ StatusDeleting \/ StatusResizing \/ StatusUnhealthy
           \/ StatusReady \/ StatusNewEndpoints
    PROVE  /\ cur'.replicas = cur.replicas /\ cur'.ver = cur.ver
           /\ cur'.specUpToDate = cur.specUpToDate
           /\ cur'.noOutdated = cur.noOutdated /\ cur'.cpDone = cur.cpDone
           /\ cur'.specUpToDate = "Rolling" => ~cur'.ready
<1> DEFINE Like(e) == /\ e.replicas = cur.replicas /\ e.ver = cur.ver
                      /\ e.specUpToDate = cur.specUpToDate
                      /\ e.noOutdated = cur.noOutdated /\ e.cpDone = cur.cpDone
<1>0. cur \in ClusterType
    BY DEF TypeOK
<1>1. PICK e \in ClusterType : ToPatch(e) /\ Like(e)
    <2>1. CASE StatusDeleting
        BY <1>0, <2>1 DEF StatusDeleting
    <2>2. CASE StatusResizing
        <3> DEFINE e == [cur EXCEPT !.ready = FALSE]
        <3>1. e \in ClusterType /\ Like(e)
            BY <1>0 DEF ClusterType
        <3> QED  BY <2>2, <3>1 DEF StatusResizing
    <2>3. CASE StatusUnhealthy
        <3>1. PICK m \in OwnedNow :
                ToPatch([cur EXCEPT !.ready = IF Listening(checked[m]) THEN FALSE ELSE @])
            BY <2>3 DEF StatusUnhealthy
        <3> DEFINE e == [cur EXCEPT !.ready = IF Listening(checked[m]) THEN FALSE ELSE @]
        <3>2. e \in ClusterType /\ Like(e)
            BY <1>0 DEF ClusterType
        <3> QED  BY <3>1, <3>2
    <2>4. CASE StatusReady
        <3> DEFINE e == [cur EXCEPT !.ready = TRUE, !.creationComplete = TRUE]
        <3>1. e \in ClusterType /\ Like(e)
            BY <1>0 DEF ClusterType
        <3>2. ToPatch(e)
            BY <2>4 DEF StatusReady
        <3> QED  BY <3>1, <3>2
    <2>5. CASE StatusNewEndpoints
        <3> DEFINE p == CurrEndpoints
                   e == [cur EXCEPT !.ready = TRUE, !.endpoints = p]
                   f == [e EXCEPT !.creationComplete = TRUE]
        <3>1. p \in SUBSET Ids
            BY DEF CurrEndpoints
        <3>2. e \in ClusterType /\ Like(e)
            <4> HIDE DEF p
            <4> QED  BY <1>0, <3>1 DEF ClusterType
        <3>3. f \in ClusterType /\ Like(f)
            <4> HIDE DEF e
            <4> QED  BY <3>2 DEF ClusterType
        <3>4. ToPatch(e) \/ ToPatch(f)
            BY <2>5 DEF StatusNewEndpoints
        <3> HIDE DEF e, f
        <3> QED  BY <3>2, <3>3, <3>4
    <2> QED  BY <2>1, <2>2, <2>3, <2>4, <2>5
<1>2. ASSUME NEW g \in ClusterType
      PROVE  /\ ForceNotReady(g).replicas = g.replicas /\ ForceNotReady(g).ver = g.ver
             /\ ForceNotReady(g).specUpToDate = g.specUpToDate
             /\ ForceNotReady(g).noOutdated = g.noOutdated
             /\ ForceNotReady(g).cpDone = g.cpDone
             /\ g.specUpToDate = "Rolling" => ~ForceNotReady(g).ready
    <2>1. CASE g.specUpToDate = "Rolling"
        <3> DEFINE f == [g EXCEPT !.ready = FALSE]
        <3>1. ~f.ready /\ f.replicas = g.replicas /\ f.ver = g.ver
            BY DEF ClusterType
        <3>2. /\ f.specUpToDate = g.specUpToDate
              /\ f.noOutdated = g.noOutdated /\ f.cpDone = g.cpDone
            BY DEF ClusterType
        <3>3. ForceNotReady(g) = f
            BY <2>1 DEF ForceNotReady
        <3> QED  BY <3>1, <3>2, <3>3
    <2>2. CASE g.specUpToDate # "Rolling"
        BY <2>2 DEF ForceNotReady
    <2> QED  BY <2>1, <2>2
<1> QED  BY <1>1, <1>2 DEF ToPatch

LEMMA LabelKeepsVersions ==
    ASSUME TypeOK, CheckOwnedMachines
    PROVE  /\ OwnedKept
           /\ \A m \in Ids : /\ mach'[m].ver = mach[m].ver /\ mach'[m].boot = mach[m].boot
                             /\ mach'[m].ann = mach[m].ann /\ mach'[m].fd = mach[m].fd
<1>1. \A m \in Ids : /\ mach'[m].ver = mach[m].ver /\ mach'[m].boot = mach[m].boot
                     /\ mach'[m].ann = mach[m].ann /\ mach'[m].fd = mach[m].fd
    <2>1. PICK S : LabelMachines(CurrentMachines, S)
        BY DEF CheckOwnedMachines
    <2>2. PICK done \in SUBSET S :
            /\ \A m \in done : Unchanged(m, CurrentMachines)
            /\ mach' = [m \in Ids |->
                            IF m \in done THEN [Written(m, CurrentMachines) EXCEPT !.label = TRUE]
                            ELSE mach[m]]
        BY <2>1 DEF LabelMachines
    <2>3. \A m \in done : Written(m, CurrentMachines) = mach[m]
        BY <2>2, UpdateWrites
    <2>4. \A r \in MachineType : /\ [r EXCEPT !.label = TRUE].ver = r.ver
                                 /\ [r EXCEPT !.label = TRUE].boot = r.boot
                                 /\ [r EXCEPT !.label = TRUE].ann = r.ann
                                 /\ [r EXCEPT !.label = TRUE].fd = r.fd
        BY DEF MachineType
    <2>5. \A m \in Ids : mach[m] \in MachineType
        BY DEF TypeOK, WorldTypeOK
    <2> QED  BY <2>2, <2>3, <2>4, <2>5
<1> QED  BY <1>1, LabelKeepsMachines DEF OwnedKept, OwnedMachines, EtcdClusterMachines

\* The object is there and no call fails, so the first call of the patch stores
\* the mark of the copy.
LEMMA PatchGated ==
    ASSUME TypeOK, DealtInv, GatedInv, PatientWorld, AddFinalizer \/ PatchEtcdCluster
    PROVE  GatedInv'
<1>0. /\ ec \in ClusterType /\ before \in ClusterType /\ cur \in ClusterType
      /\ ec.exists /\ ~ec.del /\ UNCHANGED mach
    BY PatchEffect DEF TypeOK, WorldTypeOK, GatedInv, SizeInv
<1>1. /\ pc # "idle" /\ before.specUpToDate = ec.specUpToDate
      /\ cur.replicas = ec.replicas /\ (Mixed(mach) => SpecOutOfDate(cur))
    BY PatchEffect DEF GatedInv, MarkInv
<1>2. SameSpec(ec', ec) /\ ec'.exists
    BY <1>0, PatchEffect
<1>3. SizeInv'
    BY <1>0, <1>2, SameIsKept, KeptSize DEF GatedInv, SizeKept, SameSpec
<1>4. Mixed(mach') <=> Mixed(mach)
    BY <1>0
<1>5. CASE PatchConditions
    <2>1. /\ SameConditions(before', cur) /\ MergedConditions(ec', ec)
          /\ pc' = "patchObject" /\ UNCHANGED cur
        BY <1>0, <1>5, ConditionsCall DEF PatientWorld
    <2>2. before'.specUpToDate = ec'.specUpToDate
        BY <1>1, <2>1 DEF SameConditions, MergedConditions, Merge
    <2> QED
        BY <1>1, <1>2, <1>3, <1>4, <2>1, <2>2
        DEF GatedInv, MarkInv, ListingInv, WorkInv, OnListing, SameSpec, SpecOutOfDate
<1>6. CASE PatchObject
    <2>1. /\ SameConditions(before', before) /\ pc' = "patchStatus" /\ UNCHANGED cur
        BY <1>0, <1>6, ObjectCallGoesOn
    <2>2. SameConditions(ec', ec)
        BY <1>0, <1>6, ObjectCall DEF PatchObject
    <2> QED
        BY <1>1, <1>2, <1>3, <1>4, <2>1, <2>2
        DEF GatedInv, MarkInv, ListingInv, WorkInv, OnListing, SameSpec, SameConditions,
            SpecOutOfDate
<1>7. CASE AddFinalizer \/ PatchStatus
    <2>1. SameConditions(ec', ec) /\ pc' = "idle"
        BY <1>0, <1>7, ObjectCall, StatusCall DEF AddFinalizer, Return
    <2>2. pc \in {"addFinalizer", "patchStatus"}
        BY <1>7 DEF AddFinalizer, PatchStatus
    <2>3. ec'.specUpToDate = cur.specUpToDate
        BY <1>1, <2>1, <2>2 DEF DealtInv, SameConditions
    <2> QED
        BY <1>1, <1>3, <1>4, <2>1, <2>3
        DEF GatedInv, MarkInv, ListingInv, WorkInv, OnListing, SpecOutOfDate
<1> QED  BY <1>5, <1>6, <1>7 DEF PatchEtcdCluster

LEMMA ReportGated ==
    ASSUME TypeOK, DealtInv, GatedInv, PatientWorld, Report
    PROVE  GatedInv'
<1>1. ASSUME OwnedKept, UNCHANGED <<ec, before>>, pc # "idle", pc' \in {"status", "patch"},
             cur'.replicas = cur.replicas, cur'.specUpToDate = cur.specUpToDate
      PROVE  GatedInv'
    <2>1. SizeInv' /\ (Mixed(mach') <=> Mixed(mach))
        BY <1>1, KeptSize, KeptMixed DEF GatedInv, SizeKept
    <2>2. MarkInv'
        BY <1>1, <2>1 DEF GatedInv, MarkInv, SpecOutOfDate
    <2>3. ListingInv' /\ WorkInv'
        BY <1>1 DEF ListingInv, WorkInv, OnListing
    <2> QED  BY <2>1, <2>2, <2>3 DEF GatedInv
<1>2. CASE CheckOwnedMachines
    BY <1>1, <1>2, LabelKeepsVersions DEF CheckOwnedMachines
<1>3. CASE \/ StatusDeleting \/ StatusResizing \/ StatusUnhealthy
           \/ StatusReady \/ StatusNewEndpoints
    BY <1>1, <1>3, StatusEffect, StatusKeeps, SameIsKept
<1>4. CASE PatchEtcdCluster
    BY <1>4, PatchGated
<1>5. ~CheckFails
    BY DEF CheckFails, PatientWorld
<1> QED  BY <1>2, <1>3, <1>4, <1>5 DEF Report

\* A reconcile begins with the object and the machines as they are.
LEMMA BeginGated ==
    ASSUME TypeOK, GatedInv, PatientWorld, Reconcile
    PROVE  GatedInv'
<1>0. /\ CachedCluster = ec /\ pc = "idle" /\ mach' = mach /\ ec' = ec /\ before' = ec
      /\ ec \in ClusterType /\ ~ec.del
    BY DEF Reconcile, CachedCluster, PatientWorld, worldVars, TypeOK, WorldTypeOK,
           GatedInv, SizeInv
<1>1. \/ pc' = "addFinalizer" /\ cur' = [ec EXCEPT !.fin = TRUE]
      \/ pc' = "decide" /\ cur' = ec /\ plane' = mach
    BY <1>0 DEF Reconcile, UncachedList
<1>2. cur'.replicas = ec.replicas /\ cur'.specUpToDate = ec.specUpToDate
    BY <1>0, <1>1 DEF ClusterType
<1>3. SizeInv'
    BY <1>0, SameIsKept, KeptSize DEF GatedInv, SizeKept
<1>4. MarkInv'
    BY <1>0, <1>1, <1>2 DEF GatedInv, MarkInv, SpecOutOfDate
<1>5. ListingInv'
    BY <1>0, <1>1 DEF GatedInv, SizeInv, ListingInv, OnListing, Owned
<1>6. WorkInv'
    BY <1>1 DEF WorkInv
<1> QED  BY <1>3, <1>4, <1>5, <1>6 DEF GatedInv

LEMMA GatedInit == Init => GatedInv
<1> SUFFICES ASSUME Init PROVE GatedInv
    OBVIOUS
<1>1. OwnedMachines(mach) = {}
    BY DEF Init, WorldInit, OwnedMachines, EtcdClusterMachines, Unborn
<1>2. Cardinality(OwnedMachines(mach)) = 0
    BY <1>1, FS_EmptySet
<1>3. ec.exists /\ ~ec.del /\ ec.replicas > 0 /\ ec.replicas \in Nat
    BY ReplicasAssumption DEF Init, WorldInit, NewCluster, validateCommon
<1>4. SizeInv /\ ~Mixed(mach)
    BY <1>1, <1>2, <1>3 DEF SizeInv, Mixed
<1> QED
    BY <1>4 DEF GatedInv, MarkInv, ListingInv, WorkInv, OnListing, Init, RecInit

LEMMA GatedNext ==
    PatientWorld /\ TypeOK /\ DealtInv /\ GatedInv /\ [Next]_vars => GatedInv'
<1> SUFFICES ASSUME PatientWorld, TypeOK, DealtInv, GatedInv, [Next]_vars PROVE GatedInv'
    OBVIOUS
<1>1. ASSUME OwnedKept, SizeKept, ec'.specUpToDate = ec.specUpToDate, UNCHANGED recVars
      PROVE  GatedInv'
    <2>1. SizeInv' /\ (Mixed(mach') <=> Mixed(mach))
        BY <1>1, KeptSize, KeptMixed DEF GatedInv
    <2>2. MarkInv'
        BY <1>1, <2>1 DEF GatedInv, MarkInv, SpecOutOfDate, recVars, SizeKept
    <2>3. ListingInv'
        BY <1>1 DEF GatedInv, ListingInv, OwnedKept, Owned, recVars
    <2>4. WorkInv'
        BY <1>1 DEF GatedInv, WorkInv, NeedRollout, Owned, Fresh, SpecOutOfDate, recVars
    <2> QED  BY <2>1, <2>2, <2>3, <2>4 DEF GatedInv
<1>2. CASE WorldNext
    BY <1>1, <1>2, PatientWorldEffect DEF GatedInv
<1>3. CASE UNCHANGED vars
    BY <1>1, <1>3, SameIsKept DEF vars, worldVars, recVars, SizeKept
<1>4. CASE AddFinalizer
    BY <1>4, PatchGated
<1>5. ~Restart
    BY DEF Restart, PatientWorld
<1> QED
    BY <1>2, <1>3, <1>4, <1>5, BeginGated, DecideGated, ActGated, ReportGated
    DEF Next, ReconcilerNext, Working

\* In a patient world no machine is disowned before the newest one that
\* replaces it has answered a health check well, however the user changes the
\* spec back and forth in the meantime.
THEOREM RolloutIsGated == PatientWorld /\ Spec => RolloutGated
<1>1. GatedInv => [Disown /\ Fresh # {} => Max(Fresh) \in passed]_vars
    BY DEF GatedInv, WorkInv, Disown
<1>2. PatientWorld => PatientWorld'
    BY DEF PatientWorld
<1> QED
    BY TypeInit, TypeNext, DealtInit, DealtNext, GatedInit, GatedNext, <1>1, <1>2, PTL
    DEF Spec, RolloutGated

=============================================================================
