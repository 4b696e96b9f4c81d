------------------------------ MODULE BalanceProofs ------------------------------
(***************************************************************************)
(* Creating machines one at a time, each in a failure domain with the      *)
(* fewest up-to-date machines, spreads the cluster evenly.                 *)
(***************************************************************************)
EXTENDS MCReconciler, RolloutProofs

(***************************************************************************)
(* The user upgrades to newer specs and scales up at any time.  Nobody     *)
(* deletes machines or asks for fewer (two machines of tied domains may be *)
(* in deletion at once, so that the counts of a listing are not those to   *)
(* come), or marks one of them for deletion, or goes back to an older spec *)
(* of which an uneven rest may be there.  Calls fail, the controller is    *)
(* killed, and the machines it reports on may be old.                      *)
(***************************************************************************)
SpreadWorld ==
    /\ ~StaleCluster /\ UserMode # "any"
    /\ UserOps \subseteq {"scaleUp", "upgrade", "controlplane"}

-----------------------------------------------------------------------------
(* Even placement *)

Even(M, S) ==
    \A f, g \in FailureDomains :
        Cardinality(InFailureDomains(M, S, {f}))
            <= Cardinality(InFailureDomains(M, S, {g})) + 1

\* It depends on the domains of these machines alone.
LEMMA EvenWhereListed ==
    ASSUME NEW M, NEW N, NEW S, \A m \in S : M[m].fd = N[m].fd, Even(M, S)
    PROVE  Even(N, S)
<1>1. \A f : InFailureDomains(M, S, {f}) = InFailureDomains(N, S, {f})
    BY DEF InFailureDomains
<1> QED  BY <1>1 DEF Even

LEMMA NoneIsEven ==
    ASSUME NEW M PROVE Even(M, {})
<1> DEFINE n(f) == Cardinality(InFailureDomains(M, {}, {f}))
<1>1. ASSUME NEW f PROVE n(f) = 0
    <2>1. InFailureDomains(M, {}, {f}) = {}
        BY DEF InFailureDomains
    <2> QED  BY <2>1, FS_EmptySet
<1> HIDE DEF n
<1>2. \A f, g \in FailureDomains : n(f) <= n(g) + 1
    BY <1>1
<1> QED  BY <1>2 DEF Even, n

\* A machine more in a domain that has the fewest (PickFewest).
LEMMA FewestKeepsEven ==
    ASSUME NEW M, NEW N, NEW S \in SUBSET Ids, NEW k \in Ids \ S, Even(M, S),
           \A m \in S : N[m].fd = M[m].fd, N[k].fd \in PickFewest(M, S)
    PROVE  Even(N, S \cup {k})
<1> DEFINE f == N[k].fd
           Old(g) == InFailureDomains(M, S, {g})
           New(g) == InFailureDomains(N, S \cup {k}, {g})
<1>1. /\ f \in FailureDomains
      /\ \A g \in FailureDomains : Cardinality(Old(f)) <= Cardinality(Old(g))
    BY DEF PickFewest
<1>2. /\ New(f) = Old(f) \cup {k} /\ k \notin Old(f)
      /\ \A g : g # f => New(g) = Old(g)
    BY DEF InFailureDomains
<1>3. \A g : Old(g) \subseteq Ids
    BY DEF InFailureDomains
<1>4. \A g : IsFiniteSet(Old(g)) /\ Cardinality(Old(g)) \in Nat
    BY <1>3, IdsFinite, FS_Subset, FS_CardinalityType
<1>5. \A g, h \in FailureDomains : Cardinality(Old(g)) <= Cardinality(Old(h)) + 1
    BY DEF Even
<1> HIDE DEF Old, New, f
<1>6. Cardinality(New(f)) = Cardinality(Old(f)) + 1
    BY <1>2, <1>4, FS_AddElement
<1>7. ASSUME NEW g \in FailureDomains, NEW h \in FailureDomains
      PROVE  Cardinality(New(g)) <= Cardinality(New(h)) + 1
    <2> DEFINE old(i) == Cardinality(Old(i))
               new(i) == Cardinality(New(i))
    <2>1. old(f) \in Nat /\ old(g) \in Nat /\ old(h) \in Nat
        BY <1>4
    <2>2. new(f) = old(f) + 1 /\ (g # f => new(g) = old(g)) /\ (h # f => new(h) = old(h))
        BY <1>2, <1>6
    <2>3. /\ old(f) <= old(g) /\ old(f) <= old(h)
          /\ old(g) <= old(h) + 1 /\ old(g) <= old(f) + 1
        BY <1>1, <1>5
    <2>4. (g = f => new(g) = new(f)) /\ (h = f => new(h) = new(f))
        OBVIOUS
    <2> HIDE DEF old, new
    <2>5. new(g) <= new(h) + 1
        BY <2>1, <2>2, <2>3, <2>4
    <2> QED  BY <2>5 DEF new
<1> QED  BY <1>7 DEF Even, New

-----------------------------------------------------------------------------
(***************************************************************************)
(* The inductive invariant.  Of the newest spec the cluster owns machines  *)
(* that are spread evenly.  They are created on a listing that is right    *)
(* about the owned machines, or from an older spec; and none of them goes, *)
(* because there are more machines than wanted only in a rollout of a      *)
(* single replica, and a rollout disowns outdated ones.                    *)
(***************************************************************************)
FreshNow == {m \in OwnedMachines(mach) : mach[m].ver = ec.ver}

EvenInv == Even(mach, FreshNow)

FleetInv ==
    /\ SizeInv
    /\ \A m \in OwnedMachines(mach) : mach[m].ver <= ec.ver /\ ~mach[m].ann

CopyInv ==
    pc # "idle" =>
        /\ pc \notin {"delete", "deleteAll"}
        /\ cur.replicas > 0 /\ cur.replicas <= ec.replicas
        /\ cur.ver <= ec.ver /\ (cur.ver # ec.ver => FreshNow = {})

ListedInv ==
    pc \in OnListing =>
        /\ Owned = OwnedMachines(mach)
        /\ \A m \in Owned : /\ plane[m].ver = mach[m].ver /\ plane[m].fd = mach[m].fd
                            /\ plane[m].ann = mach[m].ann /\ plane[m].st = "live"
        /\ \/ Cardinality(Owned) <= cur.replicas
           \/ Mixed(mach) /\ Cardinality(Owned) <= cur.replicas + 1

TaskInv ==
    /\ pc = "gate" => NeedRollout # {}
    /\ pc = "create" =>
        \/ Cardinality(Owned) < cur.replicas
        \/ cur.replicas = 1 /\ Cardinality(Owned) = 1 /\ Owned # Fresh
    /\ pc = "disown" => target \in NeedRollout
    /\ pc \in {"remove", "memberRemove", "deleteMachine"} =>
        todo \cap Owned = {} /\ target \notin Owned

BalanceInv == EvenInv /\ FleetInv /\ CopyInv /\ ListedInv /\ TaskInv

-----------------------------------------------------------------------------
(* Steps that keep the owned machines where they are *)

PlacesKept ==
    /\ OwnedKept
    /\ \A m \in OwnedMachines(mach) :
            mach'[m].fd = mach[m].fd /\ mach'[m].ann = mach[m].ann

\* Nobody asks for less.
ObjectLater ==
    /\ UNCHANGED <<ec.exists, ec.del>>
    /\ ec'.replicas >= ec.replicas
    /\ ec'.ver >= ec.ver

LEMMA SameFleet ==
    ASSUME mach' = mach PROVE PlacesKept
BY DEF PlacesKept, OwnedKept

LEMMA ObjectNumbers ==
    \A e \in ClusterType : e.replicas \in Nat /\ e.ver \in Nat
<1> SUFFICES ASSUME NEW e \in ClusterType PROVE e.replicas \in Nat /\ e.ver \in Nat
    OBVIOUS
<1>1. e.replicas \in Replicas /\ e.ver \in 1 .. MaxVersion
    BY DEF ClusterType, Versions
<1>2. e.replicas \in Nat
    BY <1>1, ReplicasAssumption
<1>3. e.ver \in Nat
    BY <1>1, MaxVersionAssumption
<1> QED  BY <1>2, <1>3

LEMMA NumbersNatural ==
    ASSUME TypeOK
    PROVE  /\ ec.replicas \in Nat /\ ec.ver \in Nat
           /\ cur.replicas \in Nat /\ cur.ver \in Nat
           /\ Cardinality(Owned) \in Nat
           /\ \A m \in Ids : mach[m].ver \in Nat
<1>1. ec \in ClusterType /\ cur \in ClusterType /\ \A m \in Ids : mach[m] \in MachineType
    BY DEF TypeOK, WorldTypeOK
<1>2. Cardinality(Owned) \in Nat
    BY OwnedAreIds, FewerMachines DEF Owned
<1>3. \A m \in Ids : mach[m].ver \in 0 .. MaxVersion
    BY <1>1 DEF MachineType
<1> QED  BY <1>1, <1>2, <1>3, ObjectNumbers, MaxVersionAssumption

\* A newer spec makes every machine outdated.
LEMMA FreshLater ==
    ASSUME TypeOK, TypeOK', FleetInv, PlacesKept, ObjectLater
    PROVE  /\ ec'.ver = ec.ver => FreshNow' = FreshNow
           /\ ec'.ver # ec.ver => FreshNow' = {}
           /\ EvenInv => EvenInv'
<1>1. ec'.ver = ec.ver => FreshNow' = FreshNow
    BY DEF PlacesKept, OwnedKept, FreshNow
<1>2. ASSUME ec'.ver # ec.ver PROVE FreshNow' = {}
    <2>1. {ec.ver, ec'.ver} \subseteq Nat /\ \A m \in Ids : mach[m].ver \in Nat
        BY NumbersNatural, ObjectNumbers DEF TypeOK, WorldTypeOK
    <2>2. \A m \in OwnedMachines(mach) : m \in Ids /\ mach[m].ver <= ec.ver
        BY OwnedAreIds DEF FleetInv
    <2>3. ec'.ver > ec.ver
        BY <1>2, <2>1 DEF ObjectLater
    <2> QED  BY <2>1, <2>2, <2>3 DEF PlacesKept, OwnedKept, FreshNow
<1>3. ASSUME EvenInv PROVE EvenInv'
    <2>1. CASE ec'.ver = ec.ver
        <3>1. \A m \in FreshNow : mach'[m].fd = mach[m].fd
            BY DEF PlacesKept, FreshNow
        <3>2. Even(mach', FreshNow)
            BY <1>3, <3>1, EvenWhereListed DEF EvenInv
        <3> QED  BY <1>1, <2>1, <3>2 DEF EvenInv
    <2>2. CASE ec'.ver # ec.ver
        BY <1>2, <2>2, NoneIsEven DEF EvenInv
    <2> QED  BY <2>1, <2>2
<1> QED  BY <1>1, <1>2, <1>3

LEMMA FleetLater ==
    ASSUME TypeOK, TypeOK', FleetInv, PlacesKept, ObjectLater
    PROVE  FleetInv'
<1>1. /\ {ec.replicas, ec'.replicas, ec.ver, ec'.ver} \subseteq Nat
      /\ \A m \in Ids : mach[m].ver \in Nat
    BY NumbersNatural, ObjectNumbers DEF TypeOK, WorldTypeOK
<1>2. /\ OwnedMachines(mach') = OwnedMachines(mach)
      /\ \A m \in OwnedMachines(mach) :
            /\ m \in Ids /\ mach'[m].st = mach[m].st
            /\ mach'[m].ver = mach[m].ver /\ mach'[m].ann = mach[m].ann
    BY OwnedAreIds DEF PlacesKept, OwnedKept
<1>3. Cardinality(OwnedMachines(mach)) \in Nat
    BY OwnedAreIds, FewerMachines
<1>4. Mixed(mach') <=> Mixed(mach)
    BY KeptMixed DEF PlacesKept
<1>5. SizeInv'
    BY <1>1, <1>2, <1>3, <1>4 DEF FleetInv, SizeInv, ObjectLater
<1>6. \A m \in OwnedMachines(mach') : mach'[m].ver <= ec'.ver /\ ~mach'[m].ann
    BY <1>1, <1>2 DEF FleetInv, ObjectLater
<1> QED  BY <1>5, <1>6 DEF FleetInv

\* Around a reconcile.
LEMMA BalanceAround ==
    ASSUME TypeOK, TypeOK', BalanceInv, PlacesKept, ObjectLater, UNCHANGED recVars
    PROVE  BalanceInv'
<1>1. EvenInv' /\ FleetInv'
    BY FreshLater, FleetLater DEF BalanceInv
<1>2. {ec.replicas, ec'.replicas, ec.ver, ec'.ver, cur.replicas, cur.ver} \subseteq Nat
    BY NumbersNatural, ObjectNumbers DEF TypeOK, WorldTypeOK
<1>3. CopyInv'
    BY <1>2, FreshLater DEF BalanceInv, CopyInv, ObjectLater, recVars
<1>4. ListedInv'
    BY KeptMixed DEF BalanceInv, ListedInv, PlacesKept, OwnedKept, recVars, Owned
<1>5. TaskInv'
    BY DEF BalanceInv, TaskInv, recVars, Owned, Fresh, NeedRollout
<1> QED  BY <1>1, <1>3, <1>4, <1>5 DEF BalanceInv

\* A reconcile goes on, with the same spec, past its listing or on it.
LEMMA BalanceGoesOn ==
    ASSUME TypeOK, TypeOK', BalanceInv, PlacesKept, ObjectLater, ec'.ver = ec.ver,
           pc' # "idle" => /\ pc # "idle" /\ pc' \notin {"delete", "deleteAll"}
                           /\ UNCHANGED <<cur.ver, cur.replicas>>,
           pc' \in OnListing => pc \in OnListing /\ plane' = plane,
           TaskInv'
    PROVE  BalanceInv'
<1>1. EvenInv' /\ FleetInv' /\ FreshNow' = FreshNow
    BY FreshLater, FleetLater DEF BalanceInv
<1>2. {ec.replicas, ec'.replicas, cur.replicas} \subseteq Nat
    BY NumbersNatural, ObjectNumbers DEF TypeOK, WorldTypeOK
<1>3. CopyInv'
    BY <1>1, <1>2 DEF BalanceInv, CopyInv, ObjectLater
<1>4. ListedInv'
    <2>1. ASSUME pc' \in OnListing
          PROVE  pc \in OnListing /\ Owned' = Owned /\ plane' = plane /\ cur'.replicas = cur.replicas
        BY <2>1 DEF Owned, OnListing
    <2> QED  BY <2>1, KeptMixed DEF BalanceInv, ListedInv, PlacesKept, OwnedKept
<1> QED  BY <1>1, <1>3, <1>4 DEF BalanceInv

-----------------------------------------------------------------------------
(* The world in the meantime *)

LEMMA BootKeepsPlaces ==
    ASSUME mach \in [Ids -> MachineType], NEW m \in Ids,
           \/ mach' = [mach EXCEPT ![m].boot = "addr"]
           \/ mach' = [mach EXCEPT ![m].boot = "joined"]
    PROVE  PlacesKept
<1> DEFINE Same(r, s) == s.fd = r.fd /\ s.ann = r.ann
<1>1. \A r \in MachineType : /\ Same(r, [r EXCEPT !.boot = "addr"])
                             /\ Same(r, [r EXCEPT !.boot = "joined"])
    BY DEF MachineType
<1>2. \A k \in Ids : Same(mach[k], mach'[k])
    <2> HIDE DEF Same
    <2>1. Same(mach[m], mach'[m])
        BY <1>1
    <2>2. \A k \in Ids \ {m} : mach'[k] = mach[k]
        OBVIOUS
    <2> QED  BY <2>1, <2>2 DEF Same
<1> QED  BY <1>2, BootKeepsOwned, OwnedAreIds DEF PlacesKept

\* Another machine changes.
LEMMA OthersKeepPlaces ==
    ASSUME NEW k \in Ids, k \notin OwnedMachines(mach),
           \A m \in Ids \ {k} : mach'[m] = mach[m],
           mach'[k].st = "gone" \/ mach'[k].owned = mach[k].owned,
           mach[k].owned => mach'[k].st \notin {"live", "deleting"}
    PROVE  PlacesKept
<1>1. OwnedKept
    BY OthersKeepOwned
<1>2. \A m \in OwnedMachines(mach) : m \in Ids \ {k}
    BY OwnedAreIds
<1> QED  BY <1>1, <1>2 DEF PlacesKept

LEMMA SpreadWorldEffect ==
    ASSUME TypeOK, FleetInv, SpreadWorld, WorldNext
    PROVE  PlacesKept /\ ObjectLater
<1> DEFINE Effect == PlacesKept /\ ObjectLater
<1>0. /\ ec \in ClusterType /\ mach \in [Ids -> MachineType]
      /\ ec.replicas \in Nat /\ ec.ver \in Nat
    BY NumbersNatural DEF TypeOK, WorldTypeOK
<1>1. ASSUME ec' = ec PROVE ObjectLater
    BY <1>0, <1>1 DEF ObjectLater
<1>2. ASSUME NEW m \in Ids, AssignAddress(m) \/ JoinMember(m) PROVE Effect
    BY <1>0, <1>1, <1>2, BootKeepsPlaces DEF AssignAddress, JoinMember
<1>3. ASSUME NEW m \in Ids, InitMember(m) PROVE Effect
    <2>1. ec' = [ec EXCEPT !.initialized = TRUE]
        BY <1>3 DEF InitMember
    <2>2. ObjectLater
        BY <1>0, <2>1 DEF ObjectLater, ClusterType
    <2> QED  BY <1>0, <1>3, <2>2, BootKeepsPlaces DEF InitMember
<1>4. ASSUME NEW m \in Ids, FinishMachineDeletion(m) PROVE Effect
    <2>1. m \notin OwnedMachines(mach)
        BY <1>4 DEF FinishMachineDeletion, FleetInv, SizeInv
    <2>2. mach'[m].st = "gone" /\ \A k \in Ids \ {m} : mach'[k] = mach[k]
        BY <1>0, <1>4 DEF FinishMachineDeletion, Removed, Unborn
    <2> QED  BY <1>1, <1>4, <2>1, <2>2, OthersKeepPlaces DEF FinishMachineDeletion
<1>5. ASSUME UserNext PROVE Effect
    <2>1. ASSUME NEW r \in Replicas, Scale(r) PROVE Effect
        <3>1. /\ r > ec.replicas /\ r \in Nat
              /\ ec' = [ec EXCEPT !.replicas = r] /\ mach' = mach
            BY <2>1, ReplicasAssumption DEF Scale, SpreadWorld
        <3>2. ObjectLater
            BY <1>0, <3>1 DEF ObjectLater, ClusterType
        <3> QED  BY <3>1, <3>2, SameFleet
    <2>2. ASSUME NEW v \in Versions, Upgrade(v) PROVE Effect
        <3>1. /\ v > ec.ver /\ v \in Nat
              /\ ec' = [ec EXCEPT !.ver = v] /\ mach' = mach
            BY <2>2, MaxVersionAssumption DEF Upgrade, SpreadWorld, Versions
        <3>2. ObjectLater
            BY <1>0, <3>1 DEF ObjectLater, ClusterType
        <3> QED  BY <3>1, <3>2, SameFleet
    <2>3. ASSUME CompleteControlPlaneUpgrade PROVE Effect
        <3>1. ec' = [ec EXCEPT !.cpDone = TRUE] /\ mach' = mach
            BY <2>3 DEF CompleteControlPlaneUpgrade
        <3>2. ObjectLater
            BY <1>0, <3>1 DEF ObjectLater, ClusterType
        <3> QED  BY <3>1, <3>2, SameFleet
    <2> QED
        BY <1>5, <2>1, <2>2, <2>3
        DEF UserNext, SpreadWorld, DeleteCluster, AnnotateMachine, DeleteMachineByHand
<1>6. ASSUME SyncCluster \/ SyncMachines PROVE Effect
    BY <1>1, <1>6, SameFleet DEF SyncCluster, SyncMachines
<1> QED  BY <1>2, <1>3, <1>4, <1>5, <1>6 DEF WorldNext, InfraNext

-----------------------------------------------------------------------------
(* Decisions *)

LEMMA ListedFacts ==
    ASSUME TypeOK, BalanceInv, pc \in OnListing
    PROVE  /\ Fresh \subseteq Owned /\ NeedRollout = Owned \ Fresh
           /\ UpToDateMachines(plane, cur.ver) = Fresh
           /\ NeedRollout = {} => Cardinality(Owned) <= cur.replicas
           /\ \A m \in Owned : ~plane[m].ann
           /\ cur.ver = ec.ver => Fresh = FreshNow
<1>1. /\ Owned = OwnedMachines(mach)
      /\ \A m \in Owned : /\ plane[m].ver = mach[m].ver
                          /\ plane[m].ann = mach[m].ann /\ plane[m].st = "live"
      /\ \/ Cardinality(Owned) <= cur.replicas
         \/ Mixed(mach) /\ Cardinality(Owned) <= cur.replicas + 1
    BY DEF BalanceInv, ListedInv
<1>2. Fresh \subseteq Owned /\ NeedRollout = Owned \ Fresh
    BY <1>1
    DEF Fresh, NeedRollout, MachinesNeedingRollout, HasDeletionTimestamp,
        MatchesEtcdadmClusterConfiguration, Owned
<1>3. UpToDateMachines(plane, cur.ver) = Fresh
    BY <1>2 DEF UpToDateMachines, NeedRollout, Owned
<1>4. ASSUME NeedRollout = {} PROVE Cardinality(Owned) <= cur.replicas
    BY <1>1, <1>2, <1>4 DEF Fresh, Mixed
<1>5. \A m \in Owned : ~plane[m].ann
    BY <1>1 DEF BalanceInv, FleetInv
<1>6. cur.ver = ec.ver => Fresh = FreshNow
    BY <1>1 DEF Fresh, FreshNow
<1> QED  BY <1>2, <1>3, <1>4, <1>5, <1>6

LEMMA UpgradeTask ==
    ASSUME TypeOK, BalanceInv, pc \in OnListing, NeedRollout # {}, SameMarks(cur', cur),
           NEW e, upgradeEtcdCluster(e)
    PROVE  TaskInv'
<1>1. /\ plane' = plane /\ cur'.ver = cur.ver /\ cur'.replicas = cur.replicas
      /\ \/ pc' = "create" /\ UpgradeScalesUp
         \/ pc' = "disown" /\ target' \in selectMachineForScaleDown(plane, NeedRollout)
    BY DEF upgradeEtcdCluster, Continue, PlaneAt, SameMarks
<1>2. NeedRollout' = NeedRollout /\ Owned' = Owned /\ Fresh' = Fresh
    BY <1>1 DEF NeedRollout, Owned, Fresh
<1>3. CASE pc' = "create" /\ UpgradeScalesUp
    BY <1>1, <1>2, <1>3, ListedFacts DEF UpgradeScalesUp, TaskInv
<1>4. CASE pc' = "disown" /\ target' \in selectMachineForScaleDown(plane, NeedRollout)
    <2>1. NeedRollout \in SUBSET OwnedMachines(plane)
        BY ListedFacts DEF Owned
    <2>2. target' \in NeedRollout
        BY <1>4, <2>1, ListedFacts, SelectsOutdated DEF Owned
    <2> QED  BY <1>2, <1>4, <2>2 DEF TaskInv
<1> QED  BY <1>1, <1>3, <1>4

LEMMA BalanceDecide ==
    ASSUME TypeOK, TypeOK', BalanceInv, Decide PROVE BalanceInv'
<1>1. /\ pc \in {"decide", "gate"} /\ pc \in OnListing /\ pc # "idle"
      /\ UNCHANGED worldVars /\ SameMarks(cur', cur)
      /\ pc' \in {"create", "disown", "remove", "gate", "check"}
    BY DecideEffect DEF OnListing
<1>2. pc' \in OnListing => plane' = plane
    BY ListingKept DEF OnListing
<1>3. PlacesKept /\ ObjectLater /\ ec'.ver = ec.ver
    <2>1. ec' = ec /\ mach' = mach
        BY <1>1 DEF worldVars
    <2> QED  BY <2>1, SameFleet, NumbersNatural DEF ObjectLater
<1>4. ASSUME pc' = "check" PROVE TaskInv'
    BY <1>4 DEF TaskInv
<1>5. ASSUME pc' \in OnListing
      PROVE  NeedRollout' = NeedRollout /\ Owned' = Owned /\ Fresh' = Fresh /\ All' = All
    BY <1>1, <1>2, <1>5 DEF NeedRollout, Owned, Fresh, All, SameMarks
<1>6. TaskInv'
    <2>1. CASE RemoveOutdatedMembers
        <3>1. pc' = "remove" /\ todo' = All \ Owned /\ target' = target /\ pc = "decide"
            BY <2>1 DEF RemoveOutdatedMembers, Continue
        <3>2. target = 0 /\ 0 \notin Owned
            BY <3>1, OwnedAreIds, MaxMachinesAssumption DEF TypeOK, Owned, Ids
        <3> QED  BY <1>5, <3>1, <3>2 DEF TaskInv, OnListing
    <2>2. CASE RolloutChecksNewest
        <3>1. pc' = "gate" /\ NeedRollout # {}
            BY <2>2 DEF RolloutChecksNewest, RolloutGoesOn, Continue
        <3> QED  BY <1>5, <3>1 DEF TaskInv, OnListing
    <2>3. CASE RolloutStarts
        BY <1>1, <2>3, UpgradeTask DEF RolloutStarts
    <2>4. CASE GatePasses
        BY <1>1, <2>4, UpgradeTask DEF GatePasses, BalanceInv, TaskInv
    <2>5. CASE InitializeCluster /\ pc' # "check"
        <3>1. pc' = "create" /\ Owned = {} /\ cur'.replicas = cur.replicas
            BY <1>1, <2>5 DEF InitializeCluster, Continue, SameMarks
        <3>2. Cardinality(Owned) = 0 /\ cur.replicas > 0
            BY <1>1, <3>1, FS_EmptySet DEF BalanceInv, CopyInv
        <3> QED  BY <1>5, <3>1, <3>2 DEF TaskInv, OnListing
    <2>6. CASE ScaleUp
        <3>1. pc' = "create" /\ Cardinality(Owned) < cur.replicas
              /\ cur'.replicas = cur.replicas
            BY <1>1, <2>6 DEF ScaleUp, Continue, SameMarks
        <3> QED  BY <1>5, <3>1 DEF TaskInv, OnListing
    <2>7. ~ScaleDown
        <3>1. SUFFICES ASSUME ScaleDown PROVE FALSE
            OBVIOUS
        <3>2. NeedRollout = {} /\ Cardinality(Owned) > cur.replicas
            BY <3>1 DEF ScaleDown, Sized, NoRollout
        <3> QED  BY <1>1, <3>2, ListedFacts, NumbersNatural
    <2>8. \/ RemoveOutdatedMembers \/ RolloutChecksNewest \/ RolloutStarts \/ GatePasses
          \/ InitializeCluster \/ ScaleUp \/ ScaleDown \/ pc' = "check"
        BY DEF Decide, ReconcileFails, HoldAtMaximum, RolloutWaits, GateFails,
               CertRenewalFails, AwaitInitialization, NothingToDo, Continue
    <2> QED  BY <1>4, <2>1, <2>2, <2>3, <2>4, <2>5, <2>6, <2>7, <2>8
<1>7. pc' # "idle" /\ pc' \notin {"delete", "deleteAll"} /\ UNCHANGED <<cur.ver, cur.replicas>>
    BY <1>1 DEF SameMarks
<1> QED  BY <1>1, <1>2, <1>3, <1>6, <1>7, BalanceGoesOn

-----------------------------------------------------------------------------
(* Creating and disowning *)

LEMMA CreationBalances ==
    ASSUME TypeOK, TypeOK', BalanceInv, CreateMachine
    PROVE  BalanceInv'
<1> DEFINE k == Min(FreeIds)
           old == OwnedMachines(mach)
           new == OwnedMachines(mach')
<1>0. /\ pc = "create" /\ pc' = "check" /\ UNCHANGED <<ec, cur>>
      /\ pc \in OnListing /\ pc # "idle"
    BY DEF CreateMachine, Step, OnListing
<1>1. /\ k \in Ids /\ k \notin old /\ new = old \cup {k}
      /\ Cardinality(old) \in Nat /\ Cardinality(new) = Cardinality(old) + 1
    BY CreationEffect, CreationCounts
<1>2. /\ mach'[k].st = "live" /\ mach'[k].ver = cur.ver
      /\ mach'[k].fd \in NextFailureDomainForScaleUp(plane, cur.ver)
      /\ \A m \in old : mach'[m] = mach[m]
    BY <1>1, CreationEffect, OwnedAreIds
<1>3. ~mach'[k].ann
    <2>1. mach \in [Ids -> MachineType]
        BY DEF TypeOK, WorldTypeOK
    <2>2. \A f : ~[Unborn EXCEPT !.st = "live", !.owned = TRUE, !.ver = cur.ver, !.fd = f].ann
        BY DEF Unborn
    <2> QED  BY <1>1, <2>1, <2>2 DEF CreateMachine
<1> HIDE DEF k
<1>4. /\ Owned = old
      /\ \A m \in Owned : plane[m].ver = mach[m].ver /\ plane[m].fd = mach[m].fd
    BY <1>0 DEF BalanceInv, ListedInv
<1>5. /\ cur.replicas <= ec.replicas /\ cur.ver <= ec.ver
      /\ cur.replicas \in Nat /\ ec.replicas \in Nat
    BY <1>0, NumbersNatural DEF BalanceInv, CopyInv
<1>6. SizeInv'
    <2>1. \A m \in new : mach'[m].st = "live"
        BY <1>1, <1>2 DEF BalanceInv, FleetInv, SizeInv
    <2>2. CASE Cardinality(Owned) < cur.replicas
        BY <1>0, <1>1, <1>4, <1>5, <2>1, <2>2 DEF BalanceInv, FleetInv, SizeInv
    <2>3. CASE cur.replicas = 1 /\ Cardinality(Owned) = 1 /\ Owned # Fresh
        <3>1. PICK m \in Owned : plane[m].ver # cur.ver
            BY <2>3 DEF Fresh
        <3>2. Mixed(mach')
            BY <1>1, <1>2, <1>4, <3>1 DEF Mixed
        <3> QED  BY <1>0, <1>1, <1>4, <1>5, <2>1, <2>3, <3>2 DEF BalanceInv, FleetInv, SizeInv
    <2> QED  BY <1>0, <2>2, <2>3 DEF BalanceInv, TaskInv
<1>7. FleetInv'
    BY <1>0, <1>1, <1>2, <1>3, <1>5, <1>6 DEF BalanceInv, FleetInv
<1>8. /\ cur.ver = ec.ver => FreshNow' = FreshNow \cup {k}
      /\ cur.ver # ec.ver => FreshNow' = {}
    <2>1. cur.ver # ec.ver => FreshNow = {}
        BY <1>0 DEF BalanceInv, CopyInv
    <2> QED  BY <1>0, <1>1, <1>2, <2>1 DEF FreshNow
<1>9. EvenInv'
    <2>1. CASE cur.ver # ec.ver
        BY <1>8, <2>1, NoneIsEven DEF EvenInv
    <2>2. CASE FailureDomains = {}
        BY <2>2 DEF EvenInv, Even
    <2>3. CASE cur.ver = ec.ver /\ FailureDomains # {}
        <3>1. /\ FreshNow = Fresh /\ FreshNow \subseteq old /\ FreshNow \in SUBSET Ids
              /\ UpToDateMachines(plane, cur.ver) = FreshNow
            BY <1>0, <2>3, ListedFacts, OwnedAreIds DEF FreshNow
        <3>2. mach'[k].fd \in PickFewest(plane, FreshNow)
            BY <1>2, <2>3, <3>1 DEF NextFailureDomainForScaleUp
        <3>3. Even(plane, FreshNow)
            BY <1>4, <3>1, EvenWhereListed DEF BalanceInv, EvenInv
        <3>4. \A m \in FreshNow : mach'[m].fd = plane[m].fd
            BY <1>2, <1>4, <3>1
        <3>5. k \in Ids \ FreshNow
            BY <1>1, <3>1
        <3>6. Even(mach', FreshNow \cup {k})
            BY <3>1, <3>2, <3>3, <3>4, <3>5, FewestKeepsEven
        <3> QED  BY <1>8, <2>3, <3>6 DEF EvenInv
    <2> QED  BY <2>1, <2>2, <2>3
<1>10. CopyInv'
    BY <1>0, <1>8 DEF BalanceInv, CopyInv
<1>11. ListedInv' /\ TaskInv'
    BY <1>0 DEF ListedInv, TaskInv, OnListing
<1> QED  BY <1>7, <1>9, <1>10, <1>11 DEF BalanceInv

\* An outdated machine less.
LEMMA DisowningBalances ==
    ASSUME TypeOK, TypeOK', BalanceInv, Disown
    PROVE  BalanceInv'
<1> DEFINE old == OwnedMachines(mach)
           new == OwnedMachines(mach')
<1>0. /\ pc = "disown" /\ pc' = "check" /\ UNCHANGED <<ec, cur>>
      /\ pc \in OnListing /\ pc # "idle" /\ mach \in [Ids -> MachineType]
    BY DEF Disown, Step, OnListing, TypeOK, WorldTypeOK
<1>1. /\ mach' = [mach EXCEPT ![target] = [mach[target] EXCEPT !.owned = FALSE]]
      /\ target \in Ids
    BY UpdateWrites DEF Disown
<1>2. \A r \in MachineType : [r EXCEPT !.owned = FALSE].owned = FALSE
    BY DEF MachineType
<1>3. ~mach'[target].owned /\ \A m \in Ids \ {target} : mach'[m] = mach[m]
    BY <1>0, <1>1, <1>2
<1>4. new = old \ {target} /\ \A m \in new : mach'[m] = mach[m]
    BY <1>3 DEF OwnedMachines, EtcdClusterMachines
<1>5. target \in Owned \ Fresh /\ Owned = old
    BY <1>0, ListedFacts DEF BalanceInv, TaskInv, ListedInv
<1>6. FreshNow' = FreshNow /\ \A m \in FreshNow : mach'[m] = mach[m]
    <2>1. target \notin FreshNow
        BY <1>0, <1>5, ListedFacts DEF BalanceInv, CopyInv
    <2> QED  BY <1>0, <1>4, <2>1 DEF FreshNow
<1>7. EvenInv'
    BY <1>6, EvenWhereListed DEF BalanceInv, EvenInv
<1>8. FleetInv'
    <2>1. IsFiniteSet(old) /\ Cardinality(old) \in Nat
        BY OwnedAreIds, IdsFinite, FS_Subset, FS_CardinalityType
    <2>2. Cardinality(new) = Cardinality(old) - 1
        BY <1>4, <1>5, <2>1, FS_RemoveElement
    <2>3. \A m \in new : m \in old /\ mach'[m] = mach[m]
        BY <1>4
    <2>4. ec.replicas \in Nat
        BY NumbersNatural
    <2>5. Cardinality(new) <= ec.replicas
        BY <2>1, <2>2, <2>4 DEF BalanceInv, FleetInv, SizeInv
    <2>6. SizeInv'
        BY <1>0, <2>3, <2>5 DEF BalanceInv, FleetInv, SizeInv
    <2> QED  BY <1>0, <2>3, <2>6 DEF BalanceInv, FleetInv
<1>9. CopyInv'
    BY <1>0, <1>6 DEF BalanceInv, CopyInv
<1>10. ListedInv' /\ TaskInv'
    BY <1>0 DEF ListedInv, TaskInv, OnListing
<1> QED  BY <1>7, <1>8, <1>9, <1>10 DEF BalanceInv

\* A machine that is removed is not an owned one.
LEMMA BalanceAct ==
    ASSUME TypeOK, TypeOK', BalanceInv, Act
    PROVE  BalanceInv'
<1> USE DEF Step
<1>0. ASSUME ec' = ec PROVE ObjectLater /\ ec'.ver = ec.ver
    BY <1>0, NumbersNatural DEF ObjectLater
<1>1. CASE CreateFails \/ DisownFails \/ RemovalFails
    <2>1. pc \in OnListing /\ pc' = "check" /\ UNCHANGED <<worldVars, cur>>
        BY <1>1 DEF CreateFails, DisownFails, RemovalFails, OnListing
    <2>2. PlacesKept /\ ec' = ec
        BY <2>1, SameFleet DEF worldVars
    <2>3. TaskInv' /\ pc # "idle" /\ pc' \notin OnListing /\ pc' \notin {"delete", "deleteAll"}
        BY <2>1 DEF TaskInv, OnListing
    <2> QED  BY <1>0, <2>1, <2>2, <2>3, BalanceGoesOn
<1>2. CASE MemberList \/ MemberRemove \/ DeleteMachine
    <2>0. /\ pc \in {"remove", "memberRemove", "deleteMachine"}
          /\ pc \in OnListing /\ pc # "idle" /\ UNCHANGED <<ec, cur>>
        BY <1>2 DEF MemberList, MemberRemove, DeleteMachine, NextRemoval, OnListing, worldVars
    <2>1. todo \cap Owned = {} /\ target \notin Owned /\ Owned = OwnedMachines(mach)
        BY <2>0 DEF BalanceInv, TaskInv, ListedInv
    <2>2. 0 \notin Owned
        BY <2>1, OwnedAreIds, MaxMachinesAssumption DEF Ids
    <2>3. ASSUME PlacesKept,
                 pc' \in {"check", "remove", "memberRemove", "deleteMachine"},
                 pc' # "check" => plane' = plane,
                 todo' \subseteq todo, target' \in todo \cup {0, target}
          PROVE  BalanceInv'
        <3>1. TaskInv'
            BY <2>1, <2>2, <2>3 DEF TaskInv, Owned
        <3>2. /\ pc' \in OnListing => plane' = plane
              /\ pc' \notin {"delete", "deleteAll"}
            BY <2>3 DEF OnListing
        <3> QED  BY <1>0, <2>0, <2>3, <3>1, <3>2, BalanceGoesOn
    <2>4. CASE MemberList
        <3>1. PICK m \in todo :
                \/ target' = m /\ Step("memberRemove") /\ UNCHANGED todo
                \/ NextRemoval(m)
                \/ target' = m /\ Step("deleteMachine") /\ UNCHANGED todo
            BY <2>4 DEF MemberList
        <3>2. PlacesKept
            BY <2>4, SameFleet DEF MemberList, worldVars
        <3>3. /\ pc' \in {"check", "remove", "memberRemove", "deleteMachine"}
              /\ pc' # "check" => plane' = plane
              /\ todo' \subseteq todo /\ target' \in todo \cup {0}
            BY <3>1 DEF NextRemoval, PlaneAt
        <3> QED  BY <2>3, <3>2, <3>3
    <2>5. CASE MemberRemove
        BY <2>3, <2>5, SameFleet DEF MemberRemove, PlaneAt
    <2>6. CASE DeleteMachine
        <3>1. target \in Ids /\ mach \in [Ids -> MachineType]
            BY <2>6 DEF DeleteMachine, TypeOK, WorldTypeOK
        <3>2. target \notin OwnedMachines(mach)
            BY <2>1
        <3>3. \/ mach' = mach
              \/ /\ \A m \in Ids \ {target} : mach'[m] = mach[m]
                 /\ mach'[target].owned = mach[target].owned
                 /\ mach[target].st = "live"
            BY <2>6, <3>1 DEF DeleteMachine, Deleted, MachineType
        <3>4. PlacesKept
            BY <3>1, <3>2, <3>3, SameFleet, OthersKeepPlaces
            DEF OwnedMachines, EtcdClusterMachines
        <3>5. /\ pc' \in {"check", "remove"}
              /\ pc' # "check" => plane' = plane
              /\ todo' \subseteq todo /\ target' = 0
            BY <2>6 DEF DeleteMachine, NextRemoval, PlaneAt
        <3> QED  BY <2>3, <3>4, <3>5
    <2> QED  BY <1>2, <2>4, <2>5, <2>6
<1>3. ~ReconcileDelete /\ ~DeleteEach
    BY DEF ReconcileDelete, DeleteEach, BalanceInv, CopyInv
<1> QED
    BY <1>1, <1>2, <1>3, CreationBalances, DisowningBalances DEF Act

-----------------------------------------------------------------------------
(* The rest of a reconcile *)

LEMMA BalancePatch ==
    ASSUME TypeOK, TypeOK', BalanceInv, AddFinalizer \/ PatchEtcdCluster
    PROVE  BalanceInv'
<1>1. PlacesKept /\ ObjectLater /\ ec'.ver = ec.ver
    <2>1. ~ec.del
        BY DEF BalanceInv, FleetInv, SizeInv
    <2> QED  BY <2>1, PatchEffect, SameFleet, NumbersNatural DEF SameSpec, ObjectLater
<1>2. /\ pc' \in {"idle", "patchObject", "patchStatus"} /\ pc # "idle"
      /\ pc' # "idle" => UNCHANGED cur
    BY PatchEffect DEF Return
<1>3. TaskInv' /\ pc' \notin OnListing
    BY <1>2 DEF TaskInv, OnListing
<1> QED  BY <1>1, <1>2, <1>3, BalanceGoesOn

LEMMA BalanceReport ==
    ASSUME TypeOK, TypeOK', BalanceInv, Report
    PROVE  BalanceInv'
<1>1. ASSUME PlacesKept, ec' = ec, pc # "idle", pc' \in {"status", "patch", "idle"},
             pc' # "idle" => UNCHANGED <<cur.ver, cur.replicas>>
      PROVE  BalanceInv'
    <2>1. ObjectLater /\ ec'.ver = ec.ver
        BY <1>1, NumbersNatural DEF ObjectLater
    <2>2. TaskInv' /\ pc' \notin OnListing /\ pc' \notin {"delete", "deleteAll"}
        BY <1>1 DEF TaskInv, OnListing
    <2> QED  BY <1>1, <2>1, <2>2, BalanceGoesOn
<1>2. CASE CheckOwnedMachines
    <2>1. PlacesKept
        BY <1>2, LabelKeepsVersions, OwnedAreIds DEF PlacesKept
    <2> QED  BY <1>1, <1>2, <2>1 DEF CheckOwnedMachines
<1>3. CASE \/ StatusDeleting \/ StatusResizing \/ StatusUnhealthy
           \/ StatusReady \/ StatusNewEndpoints
    BY <1>1, <1>3, StatusEffect, SameFleet
<1>4. CASE PatchEtcdCluster
    BY <1>4, BalancePatch
<1>5. CASE CheckFails
    BY <1>1, <1>5, SameFleet DEF CheckFails, Return, worldVars
<1> QED  BY <1>2, <1>3, <1>4, <1>5 DEF Report

LEMMA BalanceBegin ==
    ASSUME TypeOK, TypeOK', BalanceInv, SpreadWorld, Reconcile
    PROVE  BalanceInv'
<1>0. /\ CachedCluster = ec /\ pc = "idle" /\ UNCHANGED <<ec, mach>>
      /\ ec \in ClusterType /\ ~ec.del /\ ec.replicas > 0
    BY DEF Reconcile, CachedCluster, SpreadWorld, worldVars, TypeOK, WorldTypeOK,
           BalanceInv, FleetInv, SizeInv
<1>1. \/ pc' = "addFinalizer" /\ cur' = [ec EXCEPT !.fin = TRUE]
      \/ pc' = "decide" /\ cur' = ec /\ plane' = mach
    BY <1>0 DEF Reconcile, UncachedList
<1>2. cur'.replicas = ec.replicas /\ cur'.ver = ec.ver
    BY <1>0, <1>1 DEF ClusterType
<1>3. EvenInv' /\ FleetInv'
    <2>1. ObjectLater
        BY <1>0, NumbersNatural DEF ObjectLater
    <2> QED  BY <1>0, <2>1, SameFleet, FreshLater, FleetLater DEF BalanceInv
<1>4. CopyInv'
    BY <1>0, <1>1, <1>2, NumbersNatural DEF CopyInv
<1>5. ListedInv'
    BY <1>0, <1>1 DEF BalanceInv, FleetInv, SizeInv, ListedInv, OnListing, Owned
<1>6. TaskInv'
    BY <1>1 DEF TaskInv
<1> QED  BY <1>3, <1>4, <1>5, <1>6 DEF BalanceInv

LEMMA BalanceInit == Init => BalanceInv
<1> SUFFICES ASSUME Init PROVE BalanceInv
    OBVIOUS
<1>1. OwnedMachines(mach) = {}
    BY DEF Init, WorldInit, OwnedMachines, EtcdClusterMachines, Unborn
<1>2. Cardinality(OwnedMachines(mach)) = 0
    BY <1>1, FS_EmptySet
<1>3. ec.exists /\ ~ec.del /\ ec.replicas > 0 /\ ec.replicas \in Nat
    BY ReplicasAssumption DEF Init, WorldInit, NewCluster, validateCommon
<1>4. FleetInv
    BY <1>1, <1>2, <1>3 DEF FleetInv, SizeInv
<1>5. EvenInv
    BY <1>1, NoneIsEven DEF EvenInv, FreshNow
<1> QED
    BY <1>4, <1>5 DEF BalanceInv, CopyInv, ListedInv, TaskInv, OnListing, Init, RecInit

LEMMA BalanceNext ==
    SpreadWorld /\ TypeOK /\ TypeOK' /\ BalanceInv /\ [Next]_vars => BalanceInv'
<1> SUFFICES ASSUME SpreadWorld, TypeOK, TypeOK', BalanceInv, [Next]_vars
             PROVE  BalanceInv'
    OBVIOUS
<1>1. CASE WorldNext
    BY <1>1, SpreadWorldEffect, BalanceAround DEF WorldNext, BalanceInv
<1>2. CASE UNCHANGED vars
    <2>1. UNCHANGED <<ec, mach, recVars>>
        BY <1>2 DEF vars, worldVars
    <2>2. PlacesKept /\ ObjectLater
        BY <2>1, SameFleet, NumbersNatural DEF ObjectLater
    <2> QED  BY <2>1, <2>2, BalanceAround
<1>3. CASE AddFinalizer
    BY <1>3, BalancePatch
<1>4. CASE Restart
    <2>1. pc' = "idle" /\ UNCHANGED <<ec, mach>>
        BY <1>4 DEF Restart, ProcessLost, Return
    <2>2. PlacesKept /\ ObjectLater /\ TaskInv'
        BY <2>1, SameFleet, NumbersNatural DEF ObjectLater, TaskInv
    <2> QED  BY <2>1, <2>2, BalanceGoesOn DEF OnListing
<1> QED
    BY <1>1, <1>2, <1>3, <1>4, BalanceBegin, BalanceDecide, BalanceAct, BalanceReport
    DEF Next, ReconcilerNext, Working

\* Whatever fails or is killed in between, a cluster that its user only
\* upgrades and scales up is spread evenly over the failure domains when there
\* is nothing left to do (NextFailureDomainForScaleUp): rollouts and interrupted
\* reconciles leave no more machines in one domain than they have to.
THEOREM SpreadEvenly == SpreadWorld /\ Spec => []BalancedWhenConverged
<1>1. TypeOK /\ BalanceInv => BalancedWhenConverged
    <2> SUFFICES ASSUME TypeOK, BalanceInv, Converged
                 PROVE  Even(mach, OwnedMachines(mach))
        BY DEF BalancedWhenConverged, Even
    <2>1. \A m \in OwnedMachines(mach) : mach[m].ver = ec.ver
        BY DEF Converged, BalanceInv, FleetInv, SizeInv, OwnedMachines
    <2>2. FreshNow = OwnedMachines(mach)
        BY <2>1 DEF FreshNow
    <2> QED  BY <2>2 DEF BalanceInv, EvenInv
<1>2. SpreadWorld => SpreadWorld'
    BY DEF SpreadWorld
<1> QED
    BY TypeInit, TypeNext, BalanceInit, BalanceNext, <1>1, <1>2, PTL DEF Spec
=============================================================================
