--------------------------- MODULE ReconcilerProofs ---------------------------
(***************************************************************************)
(* Theorems about the reconciler, for every number of machines, versions,  *)
(* replica counts and failure domains, and for every combination of stale  *)
(* caches, failing calls and crashes.                                      *)
(***************************************************************************)
EXTENDS Reconciler, WellFoundedInduction, FiniteSetTheorems, TLAPS

-----------------------------------------------------------------------------
(* The listings *)

\* Every nonempty set of naturals has a least element.
LEMMA LeastElement ==
    ASSUME NEW S \in SUBSET Nat, S # {}
    PROVE  \E n \in S : \A m \in S : n <= m
<1> DEFINE R == OpToRel(<, Nat)
<1>1. IsWellFoundedOn(R, Nat)
    BY NatLessThanWellFounded
<1>2. \A x, y \in Nat : x < y => <<x, y>> \in R
    BY DEF OpToRel
<1> HIDE DEF R
<1>3. PICK n \in S : \A m \in S : ~ (<<m, n>> \in R)
    BY <1>1, WFMin
<1>4. \A m \in S : ~ (m < n)
    BY <1>2, <1>3
<1> QED  BY <1>4

\* The oldest of some machines is one of them.
LEMMA OldestIsOne ==
    ASSUME NEW S \in SUBSET Ids, S # {}
    PROVE  Min(S) \in S
<1>1. S \in SUBSET Nat
    BY MaxMachinesAssumption DEF Ids
<1>2. PICK n \in S : \A m \in S : n <= m
    BY <1>1, LeastElement
<1> QED  BY <1>2 DEF Min

\* The newest of some machines is one of them.
LEMMA NewestIsOne ==
    ASSUME NEW S \in SUBSET Ids, S # {}
    PROVE  Max(S) \in S
<1> DEFINE T == {MaxMachines - m : m \in S}
<1>1. T \in SUBSET Nat /\ T # {}
    <2>1. \A m \in S : MaxMachines - m \in Nat
        BY MaxMachinesAssumption DEF Ids
    <2> QED  BY <2>1
<1>2. PICK n \in T : \A k \in T : n <= k
    BY <1>1, LeastElement
<1>3. PICK x \in S : n = MaxMachines - x
    BY <1>2
<1>4. \A y \in S : x >= y
    BY <1>2, <1>3, MaxMachinesAssumption DEF Ids
<1> QED  BY <1>4 DEF Max

LEMMA IdsFinite == IsFiniteSet(Ids)
BY FS_Interval, MaxMachinesAssumption DEF Ids

\* The failure domain with the most of some machines has one of them.
LEMMA PickMostOccupied ==
    ASSUME NEW M, NEW S \in SUBSET Ids, S # {},
           S \subseteq InFailureDomains(M, S, FailureDomains),
           NEW f \in PickMost(M, S)
    PROVE  InFailureDomains(M, S, {f}) # {}
<1>1. PICK m \in S : M[m].fd \in FailureDomains
    BY DEF InFailureDomains
<1> DEFINE G == InFailureDomains(M, S, {M[m].fd})
           F == InFailureDomains(M, S, {f})
<1>2. Cardinality(F) >= Cardinality(G)
    BY <1>1 DEF PickMost
<1>3. IsFiniteSet(G) /\ IsFiniteSet(F)
    BY IdsFinite, FS_Subset DEF InFailureDomains
<1>4. m \in G
    BY DEF InFailureDomains
<1>5. Cardinality(G) \in Nat /\ Cardinality(G) # 0
    BY <1>3, <1>4, FS_CardinalityType, FS_EmptySet
<1>6. ASSUME F = {} PROVE FALSE
    <2>1. Cardinality(F) = 0
        BY <1>6, FS_EmptySet
    <2> QED  BY <2>1, <1>2, <1>5
<1> QED  BY <1>6

\* Whatever is selected of some machines is one of them.
LEMMA SelectsOneOf ==
    ASSUME NEW M, NEW S \in SUBSET Ids, S # {}
    PROVE  MachineInFailureDomainWithMostMachines(M, S) \subseteq S
<1> DEFINE outside == S \ InFailureDomains(M, S, FailureDomains)
<1>1. ASSUME NEW f \in FailureDomainWithMostMachines(M, S)
      PROVE  InFailureDomains(M, S, {f}) # {}
    <2>1. CASE outside # {}
        <3>1. Min(outside) \in outside
            BY <2>1, OldestIsOne
        <3>2. f = M[Min(outside)].fd
            BY <2>1, <1>1 DEF FailureDomainWithMostMachines
        <3> QED  BY <3>1, <3>2 DEF InFailureDomains
    <2>2. CASE outside = {}
        <3>1. f \in PickMost(M, S)
            BY <2>2, <1>1 DEF FailureDomainWithMostMachines
        <3>2. S \subseteq InFailureDomains(M, S, FailureDomains)
            BY <2>2
        <3> QED  BY <3>1, <3>2, PickMostOccupied
    <2> QED  BY <2>1, <2>2
<1>2. ASSUME NEW f \in FailureDomainWithMostMachines(M, S)
      PROVE  Min(InFailureDomains(M, S, {f})) \in S
    <2>1. InFailureDomains(M, S, {f}) \in SUBSET S
        BY DEF InFailureDomains
    <2>2. Min(InFailureDomains(M, S, {f})) \in InFailureDomains(M, S, {f})
        BY <2>1, <1>1, <1>2, OldestIsOne
    <2> QED  BY <2>1, <2>2
<1> QED  BY <1>2 DEF MachineInFailureDomainWithMostMachines

\* Whatever is selected for scale-down is an owned machine of the listing.
LEMMA SelectsOwned ==
    ASSUME NEW M, NEW outdated \in SUBSET OwnedMachines(M), OwnedMachines(M) # {}
    PROVE  selectMachineForScaleDown(M, outdated) \subseteq OwnedMachines(M)
<1> DEFINE S == ScaleDownCandidates(M, outdated)
<1>1. S \in SUBSET OwnedMachines(M) /\ S # {}
    BY DEF ScaleDownCandidates, MachineWithDeleteAnnotation
<1>2. S \in SUBSET Ids
    BY <1>1 DEF OwnedMachines, EtcdClusterMachines
<1> QED  BY <1>1, <1>2, SelectsOneOf DEF selectMachineForScaleDown

\* Without annotations a rollout selects an outdated machine.
LEMMA SelectsOutdated ==
    ASSUME NEW M, NEW outdated \in SUBSET OwnedMachines(M), outdated # {},
           \A m \in OwnedMachines(M) : ~M[m].ann
    PROVE  selectMachineForScaleDown(M, outdated) \subseteq outdated
<1>1. ScaleDownCandidates(M, outdated) = outdated
    BY DEF ScaleDownCandidates, MachineWithDeleteAnnotation
<1>2. outdated \in SUBSET Ids
    BY DEF OwnedMachines, EtcdClusterMachines
<1> QED  BY <1>1, <1>2, SelectsOneOf DEF selectMachineForScaleDown

-----------------------------------------------------------------------------
(* Types of the values the actions compute *)

LEMMA NewClusterType ==
    \A r \in Replicas : NewCluster(r) \in ClusterType
BY MaxVersionAssumption DEF NewCluster, ClusterType, ConditionType, Versions

LEMMA NoClusterType == NoCluster \in ClusterType
<1>1. (CHOOSE r \in Replicas : TRUE) \in Replicas
    BY ReplicasAssumption
<1>2. NewCluster(CHOOSE r \in Replicas : TRUE) \in ClusterType
    BY <1>1, NewClusterType
<1> QED  BY <1>2 DEF NoCluster, ClusterType

LEMMA UnbornType == Unborn \in MachineType /\ Removed \in MachineType
<1>1. Unborn \in MachineType
    BY MaxVersionAssumption DEF Unborn, MachineType
<1>2. [Unborn EXCEPT !.st = "gone"] \in MachineType
    BY <1>1 DEF MachineType
<1> QED  BY <1>1, <1>2 DEF Removed

LEMMA NoMachinesType == NoMachines \in [Ids -> MachineType]
BY UnbornType DEF NoMachines

\* The fields of one machine of a listing change.
LEMMA MachineUpdateType ==
    ASSUME NEW M \in [Ids -> MachineType], NEW m \in Ids
    PROVE  /\ [M EXCEPT ![m].boot = "addr"] \in [Ids -> MachineType]
           /\ [M EXCEPT ![m].boot = "joined"] \in [Ids -> MachineType]
           /\ [M EXCEPT ![m].st = "deleting"] \in [Ids -> MachineType]
           /\ [M EXCEPT ![m].ann = TRUE] \in [Ids -> MachineType]
           /\ [M EXCEPT ![m] = Removed] \in [Ids -> MachineType]
           /\ [M[m] EXCEPT !.owned = FALSE] \in MachineType
           /\ [M[m] EXCEPT !.label = TRUE] \in MachineType
<1> DEFINE r == M[m]
<1>1. r \in MachineType
    OBVIOUS
<1>2. \A x \in MachineType : [M EXCEPT ![m] = x] \in [Ids -> MachineType]
    OBVIOUS
<1>3. /\ [r EXCEPT !.boot = "addr"] \in MachineType
      /\ [r EXCEPT !.boot = "joined"] \in MachineType
      /\ [r EXCEPT !.st = "deleting"] \in MachineType
      /\ [r EXCEPT !.ann = TRUE] \in MachineType
      /\ [r EXCEPT !.owned = FALSE] \in MachineType
      /\ [r EXCEPT !.label = TRUE] \in MachineType
    <2> HIDE DEF r
    <2> QED  BY <1>1 DEF MachineType
<1> QED  BY <1>2, <1>3, UnbornType

\* An Update that the API server accepts starts from the machine as it is.
LEMMA UpdateWrites ==
    ASSUME NEW m, NEW old, Unchanged(m, old)
    PROVE  Written(m, old) = mach[m] /\ m \in Ids
BY DEF Unchanged, EtcdClusterMachines

\* The decisions only touch conditions and the annotation.
LEMMA DecisionType ==
    ASSUME NEW e \in ClusterType
    PROVE  /\ NoteOutdated(e) \in ClusterType
           /\ NoteOutdated(e).ver = e.ver
           /\ MarkRolling(e) \in ClusterType
           /\ MarkRolling(e).ver = e.ver
           /\ ForceNotReady(e) \in ClusterType
           /\ [e EXCEPT !.specUpToDate = "MaxReached"] \in ClusterType
<1>1. NoteOutdated(e) \in ClusterType /\ NoteOutdated(e).ver = e.ver
    <2>1. CASE Owned # All
        BY <2>1 DEF NoteOutdated, ClusterType, ConditionType
    <2>2. CASE Owned = All
        BY <2>2 DEF NoteOutdated, ClusterType, ConditionType
    <2> QED  BY <2>1, <2>2
<1>2. MarkRolling(e) \in ClusterType /\ MarkRolling(e).ver = e.ver
    BY DEF MarkRolling, ClusterType, ConditionType
<1>3. ForceNotReady(e) \in ClusterType
    BY DEF ForceNotReady, ClusterType
<1>4. [e EXCEPT !.specUpToDate = "MaxReached"] \in ClusterType
    BY DEF ClusterType
<1> QED  BY <1>1, <1>2, <1>3, <1>4

LEMMA SettledType ==
    ASSUME cur \in ClusterType
    PROVE  Settled \in ClusterType /\ SettledAndRenewed \in ClusterType
<1>1. NoteOutdated(cur) \in ClusterType
    BY DecisionType
<1>2. Settled \in ClusterType
    BY <1>1 DEF Settled, ClusterType
<1> QED  BY <1>2 DEF SettledAndRenewed, ClusterType, ConditionType

-----------------------------------------------------------------------------
(* The calls of a patch                                                     *)

SameSpec(f, e) ==
    /\ f.del = e.del /\ f.replicas = e.replicas /\ f.ver = e.ver
    /\ f.initialized = e.initialized
SameConditions(f, e) ==
    /\ f.specUpToDate = e.specUpToDate /\ f.certs = e.certs
    /\ f.noOutdated = e.noOutdated /\ f.initCond = e.initCond
SameMeta(f, e) == f.fin = e.fin /\ f.cpDone = e.cpDone
SameStatus(f, e) ==
    /\ f.ready = e.ready /\ f.creationComplete = e.creationComplete
    /\ f.endpoints = e.endpoints

MergedConditions(f, e) ==
    /\ f.specUpToDate = Merge(e.specUpToDate, before.specUpToDate, cur.specUpToDate)
    /\ f.certs = Merge(e.certs, before.certs, cur.certs)
    /\ f.noOutdated = Merge(e.noOutdated, before.noOutdated, cur.noOutdated)
    /\ f.initCond = Merge(e.initCond, before.initCond, cur.initCond)
MergedMeta(f, e) ==
    /\ f.fin = Merge(e.fin, before.fin, cur.fin)
    /\ f.cpDone = Merge(e.cpDone, before.cpDone, cur.cpDone)
MergedStatus(f, e) ==
    /\ f.ready = Merge(e.ready, before.ready, cur.ready)
    /\ f.creationComplete
            = Merge(e.creationComplete, before.creationComplete, cur.creationComplete)
    /\ f.endpoints = Merge(e.endpoints, before.endpoints, cur.endpoints)

\* Each call touches its part of an object and no other.
LEMMA ConditionsPart ==
    ASSUME NEW e \in ClusterType, before \in ClusterType, cur \in ClusterType
    PROVE  LET f == ConditionsPatched(e) IN
           /\ f \in ClusterType /\ MergedConditions(f, e)
           /\ f.exists = e.exists /\ SameSpec(f, e) /\ SameMeta(f, e) /\ SameStatus(f, e)
<1> DEFINE spec == Merge(e.specUpToDate, before.specUpToDate, cur.specUpToDate)
           certs == Merge(e.certs, before.certs, cur.certs)
           outdated == Merge(e.noOutdated, before.noOutdated, cur.noOutdated)
           init == Merge(e.initCond, before.initCond, cur.initCond)
           f == [e EXCEPT !.specUpToDate = spec, !.certs = certs,
                          !.noOutdated = outdated, !.initCond = init]
<1>1. ConditionsPatched(e) = f
    BY Zenon DEF ConditionsPatched
<1>2. /\ spec \in {"Unknown", "True", "Rolling", "MaxReached"}
      /\ certs \in ConditionType /\ outdated \in ConditionType /\ init \in ConditionType
    BY DEF Merge, ClusterType
<1>3. MergedConditions(f, e)
    <2> SUFFICES /\ f.specUpToDate = spec /\ f.certs = certs
                 /\ f.noOutdated = outdated /\ f.initCond = init
        BY DEF MergedConditions
    <2> HIDE DEF spec, certs, outdated, init
    <2> QED  BY DEF ClusterType
<1> HIDE DEF spec, certs, outdated, init
<1>4. f \in ClusterType
    BY <1>2 DEF ClusterType
<1>5. f.exists = e.exists /\ SameSpec(f, e)
    BY DEF ClusterType, SameSpec
<1>6. SameMeta(f, e) /\ SameStatus(f, e)
    BY DEF ClusterType, SameMeta, SameStatus
<1> QED  BY <1>1, <1>3, <1>4, <1>5, <1>6

LEMMA ObjectPart ==
    ASSUME NEW e \in ClusterType, before \in ClusterType, cur \in ClusterType
    PROVE  LET f == ObjectPatched(e) IN
           /\ f \in ClusterType /\ MergedMeta(f, e)
           /\ f.exists = e.exists /\ SameSpec(f, e) /\ SameConditions(f, e)
           /\ SameStatus(f, e)
<1> DEFINE fin == Merge(e.fin, before.fin, cur.fin)
           cpDone == Merge(e.cpDone, before.cpDone, cur.cpDone)
           f == [e EXCEPT !.fin = fin, !.cpDone = cpDone]
<1>1. ObjectPatched(e) = f
    BY Zenon DEF ObjectPatched
<1>2. fin \in BOOLEAN /\ cpDone \in BOOLEAN
    BY DEF Merge, ClusterType
<1>3. MergedMeta(f, e)
    <2> SUFFICES f.fin = fin /\ f.cpDone = cpDone
        BY DEF MergedMeta
    <2> HIDE DEF fin, cpDone
    <2> QED  BY DEF ClusterType
<1> HIDE DEF fin, cpDone
<1>4. f \in ClusterType
    BY <1>2 DEF ClusterType
<1>5. f.exists = e.exists /\ SameSpec(f, e)
    BY DEF ClusterType, SameSpec
<1>6. SameConditions(f, e) /\ SameStatus(f, e)
    BY DEF ClusterType, SameConditions, SameStatus
<1> QED  BY <1>1, <1>3, <1>4, <1>5, <1>6

LEMMA StatusPart ==
    ASSUME NEW e \in ClusterType, before \in ClusterType, cur \in ClusterType
    PROVE  LET f == StatusPatched(e) IN
           /\ f \in ClusterType /\ MergedStatus(f, e)
           /\ f.exists = e.exists /\ SameSpec(f, e) /\ SameConditions(f, e)
           /\ SameMeta(f, e)
<1> DEFINE ready == Merge(e.ready, before.ready, cur.ready)
           complete == Merge(e.creationComplete, before.creationComplete,
                             cur.creationComplete)
           endpoints == Merge(e.endpoints, before.endpoints, cur.endpoints)
           f == [e EXCEPT !.ready = ready, !.creationComplete = complete,
                          !.endpoints = endpoints]
<1>1. StatusPatched(e) = f
    BY Zenon DEF StatusPatched
<1>2. ready \in BOOLEAN /\ complete \in BOOLEAN /\ endpoints \in SUBSET Ids
    BY DEF Merge, ClusterType
<1>3. MergedStatus(f, e)
    <2> SUFFICES f.ready = ready /\ f.creationComplete = complete /\ f.endpoints = endpoints
        BY DEF MergedStatus
    <2> HIDE DEF ready, complete, endpoints
    <2> QED  BY DEF ClusterType
<1> HIDE DEF ready, complete, endpoints
<1>4. f \in ClusterType
    BY <1>2 DEF ClusterType
<1>5. f.exists = e.exists /\ SameSpec(f, e)
    BY DEF ClusterType, SameSpec
<1>6. SameConditions(f, e) /\ SameMeta(f, e)
    BY DEF ClusterType, SameConditions, SameMeta
<1> QED  BY <1>1, <1>3, <1>4, <1>5, <1>6

\* A call that fails leaves the object; a call is sure to succeed when no call
\* fails and the object is there.
LEMMA ConditionsCall ==
    ASSUME ec \in ClusterType, before \in ClusterType, cur \in ClusterType,
           PatchConditions
    PROVE  /\ ec' \in ClusterType
           /\ ec'.exists = ec.exists /\ SameSpec(ec', ec) /\ SameMeta(ec', ec)
           /\ SameStatus(ec', ec)
           /\ ec' = ec \/ (ec.exists /\ MergedConditions(ec', ec))
           /\ ~Faults /\ ~StaleCluster /\ ec.exists => MergedConditions(ec', ec)
           /\ before' \in ClusterType
           /\ before'.exists = before.exists /\ SameSpec(before', before)
           /\ SameMeta(before', before) /\ SameStatus(before', before)
           /\ SameConditions(before', cur)
           /\ pc = "patch" /\ pc' = "patchObject"
           /\ UNCHANGED <<cache, mach, mcache, members, failed, secret, released,
                          cur, plane, todo, target, checked, passed>>
<1>1. MergedConditions(before', before) => SameConditions(before', cur)
    BY DEF MergedConditions, SameConditions, Merge
<1>2. ec' = ec \/ (ec.exists /\ ec' = ConditionsPatched(ec))
    BY DEF PatchConditions, PatchCall
<1>3. ~Faults /\ ~StaleCluster /\ ec.exists => ec' = ConditionsPatched(ec)
    BY DEF PatchConditions, PatchCall, CachedCluster
<1>4. SameSpec(ec, ec) /\ SameMeta(ec, ec) /\ SameStatus(ec, ec)
    BY DEF SameSpec, SameMeta, SameStatus
<1> QED  BY <1>1, <1>2, <1>3, <1>4, ConditionsPart DEF PatchConditions

LEMMA ObjectCall ==
    ASSUME ec \in ClusterType, before \in ClusterType, cur \in ClusterType,
           PatchCall(Finalized(ObjectPatched(ec)))
    PROVE  /\ ec' \in ClusterType
           /\ SameSpec(ec', ec) /\ SameConditions(ec', ec) /\ SameStatus(ec', ec)
           /\ ec' = ec \/ (ec.exists /\ MergedMeta(ec', ec))
           /\ ~Faults /\ ec.exists => MergedMeta(ec', ec)
           /\ ec'.exists = (ec.exists /\ ~(ec.del /\ ~ec'.fin)) \/ ec' = ec
<1> DEFINE e == ObjectPatched(ec)
           f == Finalized(e)
<1>1. /\ e \in ClusterType /\ MergedMeta(e, ec)
      /\ e.exists = ec.exists /\ SameSpec(e, ec) /\ SameConditions(e, ec)
      /\ SameStatus(e, ec)
    BY ObjectPart
<1> HIDE DEF e
<1>2. /\ f \in ClusterType
      /\ SameSpec(f, e) /\ SameConditions(f, e) /\ SameStatus(f, e) /\ SameMeta(f, e)
      /\ f.exists = (e.exists /\ ~(e.del /\ ~e.fin))
    <2>1. CASE e.del /\ ~e.fin
        <3>1. f = [e EXCEPT !.exists = FALSE]
            BY <2>1 DEF Finalized
        <3>2. f \in ClusterType /\ f.exists = FALSE
            BY <1>1, <3>1 DEF ClusterType
        <3>3. SameSpec(f, e) /\ SameConditions(f, e)
            BY <1>1, <3>1 DEF ClusterType, SameSpec, SameConditions
        <3>4. SameStatus(f, e) /\ SameMeta(f, e)
            BY <1>1, <3>1 DEF ClusterType, SameStatus, SameMeta
        <3>5. (e.exists /\ ~(e.del /\ ~e.fin)) = FALSE
            BY <2>1
        <3> QED  BY <3>2, <3>3, <3>4, <3>5
    <2>2. CASE ~(e.del /\ ~e.fin)
        <3>1. f = e
            BY <2>2 DEF Finalized
        <3>2. e.exists \in BOOLEAN
            BY <1>1 DEF ClusterType
        <3> QED
            BY <1>1, <2>2, <3>1, <3>2 DEF SameSpec, SameConditions, SameStatus, SameMeta
    <2> QED  BY <2>1, <2>2
<1> HIDE DEF f
<1>3. /\ SameSpec(f, ec) /\ SameConditions(f, ec) /\ SameStatus(f, ec)
      /\ MergedMeta(f, ec) /\ f.exists = (ec.exists /\ ~(ec.del /\ ~f.fin))
    BY <1>1, <1>2
    DEF SameSpec, SameConditions, SameStatus, SameMeta, MergedMeta
<1>4. SameSpec(ec, ec) /\ SameConditions(ec, ec) /\ SameStatus(ec, ec)
    BY DEF SameSpec, SameConditions, SameStatus
<1>5. /\ ec' = ec \/ (ec.exists /\ ec' = f)
      /\ ~Faults /\ ec.exists => ec' = f
    BY DEF PatchCall, e, f
<1> QED  BY <1>2, <1>3, <1>4, <1>5

LEMMA StatusCall ==
    ASSUME ec \in ClusterType, before \in ClusterType, cur \in ClusterType,
           PatchStatus
    PROVE  /\ ec' \in ClusterType
           /\ ec'.exists = ec.exists /\ SameSpec(ec', ec) /\ SameConditions(ec', ec)
           /\ SameMeta(ec', ec)
           /\ ec' = ec \/ (ec.exists /\ MergedStatus(ec', ec))
           /\ ~Faults /\ ec.exists => MergedStatus(ec', ec)
           /\ pc = "patchStatus" /\ Return
           /\ UNCHANGED <<cache, mach, mcache, members, failed, secret, released, passed>>
<1>1. SameSpec(ec, ec) /\ SameConditions(ec, ec) /\ SameMeta(ec, ec)
    BY DEF SameSpec, SameConditions, SameMeta
<1> QED  BY <1>1, StatusPart DEF PatchStatus, PatchCall

\* The object call in the middle of a patch.
LEMMA ObjectCallGoesOn ==
    ASSUME before \in ClusterType, cur \in ClusterType, PatchObject
    PROVE  /\ before' \in ClusterType
           /\ before'.exists = before.exists /\ SameSpec(before', before)
           /\ SameConditions(before', before) /\ SameStatus(before', before)
           /\ SameMeta(before', cur)
           /\ pc = "patchObject" /\ pc' = "patchStatus"
           /\ UNCHANGED <<cache, mach, mcache, members, failed, secret, released,
                          cur, plane, todo, target, checked, passed>>
<1>1. MergedMeta(before', before) => SameMeta(before', cur)
    BY DEF MergedMeta, SameMeta, Merge
<1> QED  BY <1>1, ObjectPart DEF PatchObject

-----------------------------------------------------------------------------
(* TypeOK is inductive *)

LEMMA TypeInit == Init => TypeOK
<1> SUFFICES ASSUME Init PROVE TypeOK
    OBVIOUS
<1>1. WorldTypeOK
    BY NewClusterType, UnbornType DEF Init, WorldInit, WorldTypeOK
<1>2. plane \in [Ids -> MachineType] /\ before \in ClusterType /\ cur \in ClusterType
    BY NoMachinesType, NoClusterType DEF Init, RecInit
<1> QED  BY <1>1, <1>2 DEF Init, RecInit, TypeOK, PcType, NotChecked

LEMMA WorldKeepsTypes ==
    ASSUME TypeOK, WorldNext PROVE TypeOK'
<1> USE DEF WorldTypeOK
<1>0. WorldTypeOK /\ (WorldTypeOK' => TypeOK')
    BY DEF TypeOK, WorldNext, recVars, UpToDateMachines, MachinesNeedingRollout
<1>1. ASSUME NEW m \in Ids, AssignAddress(m) PROVE WorldTypeOK'
    BY <1>0, <1>1, MachineUpdateType DEF AssignAddress
<1>2. ASSUME NEW m \in Ids, InitMember(m) PROVE WorldTypeOK'
    <2>1. ec' \in ClusterType
        BY <1>0, <1>2 DEF InitMember, ClusterType
    <2> QED  BY <1>0, <1>2, <2>1, MachineUpdateType DEF InitMember
<1>3. ASSUME NEW m \in Ids, JoinMember(m) PROVE WorldTypeOK'
    BY <1>0, <1>3, MachineUpdateType DEF JoinMember
<1>4. ASSUME NEW m \in Ids, FinishMachineDeletion(m) PROVE WorldTypeOK'
    BY <1>0, <1>4, MachineUpdateType DEF FinishMachineDeletion
<1>5. ASSUME NEW r \in Replicas, Scale(r) PROVE WorldTypeOK'
    <2>1. ec' \in ClusterType
        BY <1>0, <1>5 DEF Scale, ClusterType
    <2> QED  BY <1>0, <1>5, <2>1 DEF Scale
<1>6. ASSUME NEW v \in Versions, Upgrade(v) PROVE WorldTypeOK'
    <2>1. ec' \in ClusterType
        BY <1>0, <1>6 DEF Upgrade, ClusterType
    <2> QED  BY <1>0, <1>6, <2>1 DEF Upgrade
<1>7. CASE CompleteControlPlaneUpgrade
    <2>1. ec' \in ClusterType
        BY <1>0, <1>7 DEF CompleteControlPlaneUpgrade, ClusterType
    <2> QED  BY <1>0, <1>7, <2>1 DEF CompleteControlPlaneUpgrade, EtcdClusterMachines
<1>8. CASE DeleteCluster
    <2>1. ec' \in ClusterType
        BY <1>0, <1>8 DEF DeleteCluster, ClusterType
    <2> QED  BY <1>0, <1>8, <2>1 DEF DeleteCluster
<1>9. ASSUME NEW m \in Ids, AnnotateMachine(m) PROVE WorldTypeOK'
    BY <1>0, <1>9, MachineUpdateType DEF AnnotateMachine
<1>10. ASSUME NEW m \in Ids, DeleteMachineByHand(m) PROVE WorldTypeOK'
    BY <1>0, <1>10, MachineUpdateType DEF DeleteMachineByHand, LoseMachine
<1>11. CASE SyncCluster
    BY <1>0, <1>11 DEF SyncCluster
<1>12. CASE SyncMachines
    BY <1>0, <1>12 DEF SyncMachines
<1> QED
    BY <1>0, <1>1, <1>2, <1>3, <1>4, <1>5, <1>6, <1>7, <1>8, <1>9, <1>10, <1>11, <1>12
    DEF WorldNext, InfraNext, UserNext

\* What a decision leaves behind.
LEMMA ContinueType ==
    ASSUME TypeOK, NEW next \in PcType, NEW e \in ClusterType, Continue(next, e)
    PROVE  /\ WorldTypeOK'
           /\ pc' = next /\ cur' = e
           /\ before' \in ClusterType
           /\ plane' \in [Ids -> MachineType]
           /\ next # "check" => plane' = plane
           /\ checked' \in [Ids -> Answers \cup {"none", "noaddr"}]
<1>1. plane' \in [Ids -> MachineType] /\ (next # "check" => plane' = plane)
    BY NoMachinesType DEF Continue, PlaneAt, TypeOK
<1> QED  BY <1>1 DEF Continue, TypeOK, WorldTypeOK, worldVars

\* A rollout goes on to create or to disown a machine it owns.
LEMMA UpgradeType ==
    ASSUME TypeOK, NEW e \in ClusterType, upgradeEtcdCluster(e),
           pc \in {"decide", "gate"}, Owned # {}, passed' \subseteq Ids
    PROVE  TypeOK'
<1>1. MarkRolling(e) \in ClusterType
    BY DecisionType
<1>2. CASE Continue("create", MarkRolling(e)) /\ UNCHANGED <<target, todo>>
    BY <1>1, <1>2, ContinueType DEF TypeOK, PcType
<1>3. CASE /\ Continue("disown", MarkRolling(e)) /\ UNCHANGED todo
           /\ target' \in selectMachineForScaleDown(plane, NeedRollout)
    <2>1. NeedRollout \subseteq OwnedMachines(plane)
        BY DEF NeedRollout, MachinesNeedingRollout
    <2>2. target' \in Ids /\ target' # 0
        BY <1>3, <2>1, SelectsOwned DEF Owned, OwnedMachines, EtcdClusterMachines, Ids
    <2> QED  BY <1>1, <1>3, <2>2, ContinueType DEF TypeOK, PcType
<1> QED  BY <1>2, <1>3 DEF upgradeEtcdCluster

LEMMA DecideKeepsTypes ==
    ASSUME TypeOK, Decide PROVE TypeOK'
<1>0. /\ cur \in ClusterType /\ passed \subseteq Ids
      /\ NoteOutdated(cur) \in ClusterType /\ NoteOutdated(cur).ver = cur.ver
      /\ Settled \in ClusterType /\ SettledAndRenewed \in ClusterType
    BY DecisionType, SettledType DEF TypeOK
<1>1. CASE ReconcileFails
    <2>1. PICK e \in {cur, NoteOutdated(cur)} : Continue("check", e)
        BY <1>1 DEF ReconcileFails
    <2> QED  BY <1>0, <1>1, <2>1, ContinueType DEF ReconcileFails, TypeOK, PcType
<1>2. CASE RemoveOutdatedMembers
    <2>1. All \ Owned # {} /\ All \ Owned \subseteq Ids
        BY <1>2 DEF RemoveOutdatedMembers, All, Owned, OwnedMachines, EtcdClusterMachines
    <2> QED  BY <1>0, <1>2, <2>1, ContinueType DEF RemoveOutdatedMembers, TypeOK, PcType
<1>3. CASE HoldAtMaximum
    <2>1. [NoteOutdated(cur) EXCEPT !.specUpToDate = "MaxReached"] \in ClusterType
        BY <1>0, DecisionType
    <2> QED  BY <1>3, <2>1, ContinueType DEF HoldAtMaximum, NoRemoval, TypeOK, PcType
<1>4. CASE RolloutWaits
    BY <1>0, <1>4, ContinueType DEF RolloutWaits, RolloutGoesOn, NoRemoval, TypeOK, PcType
<1>5. CASE RolloutChecksNewest
    <2>1. UpToDateMachines(plane, cur.ver) # {}
        BY <1>5 DEF RolloutChecksNewest, RolloutGoesOn, RolloutUnderWay
    <2>2. plane' = plane /\ cur'.ver = cur.ver
        BY <1>0, <1>5, ContinueType DEF RolloutChecksNewest, PcType
    <2> QED
        BY <1>0, <1>5, <2>1, <2>2, ContinueType
        DEF RolloutChecksNewest, RolloutGoesOn, NoRemoval, TypeOK, PcType
<1>6. CASE RolloutStarts
    <2>1. Owned # {}
        BY <1>6 DEF RolloutStarts, NeedRollout, MachinesNeedingRollout, Owned
    <2> QED  BY <1>0, <1>6, <2>1, UpgradeType DEF RolloutStarts, NoRemoval
<1>7. CASE GatePasses
    <2>1. /\ UpToDateMachines(plane, cur.ver) # {}
          /\ UpToDateMachines(plane, cur.ver) \subseteq Owned
        BY <1>7 DEF GatePasses, TypeOK, UpToDateMachines, Owned
    <2>2. Owned \subseteq Ids /\ Owned # {}
        BY <2>1 DEF Owned, OwnedMachines, EtcdClusterMachines
    <2>3. Newest \in Ids
        BY <2>1, <2>2, NewestIsOne DEF Newest, NewestUpToDateMachine
    <2>4. passed' \subseteq Ids
        BY <1>0, <1>7, <2>3 DEF GatePasses
    <2> QED  BY <1>0, <1>7, <2>2, <2>4, UpgradeType DEF GatePasses
<1>8. CASE GateFails
    BY <1>0, <1>8, ContinueType DEF GateFails, TypeOK, PcType
<1>9. CASE CertRenewalFails
    BY <1>0, <1>9, ContinueType DEF CertRenewalFails, NoRollout, NoRemoval, TypeOK, PcType
<1>10. CASE InitializeCluster
    <2> DEFINE e == [SettledAndRenewed EXCEPT !.initCond = "False"]
    <2>1. e \in ClusterType /\ [e EXCEPT !.certs = "True"] \in ClusterType
        BY <1>0 DEF ClusterType, ConditionType
    <2> HIDE DEF e
    <2>2. PICK next \in {"create", "check"}, d \in ClusterType : Continue(next, d)
        BY <1>10, <2>1 DEF InitializeCluster, e
    <2> QED
        BY <1>10, <2>2, ContinueType
        DEF InitializeCluster, NoRollout, NoRemoval, TypeOK, PcType
<1>11. CASE AwaitInitialization
    <2>1. [SettledAndRenewed EXCEPT !.initCond = IF cur.initialized THEN "True" ELSE @]
            \in ClusterType
        BY <1>0 DEF ClusterType, ConditionType
    <2> QED
        BY <1>11, <2>1, ContinueType
        DEF AwaitInitialization, NoRollout, NoRemoval, TypeOK, PcType
<1>12. CASE ScaleUp
    BY <1>0, <1>12, ContinueType
    DEF ScaleUp, Sized, NoRollout, NoRemoval, TypeOK, PcType
<1>13. CASE ScaleDown
    <2>1. PICK m \in selectMachineForScaleDown(plane, {}) : todo' = {m}
        BY <1>13 DEF ScaleDown
    <2>2. m \in Ids
        BY <1>13, <2>1, SelectsOwned
        DEF ScaleDown, Sized, Owned, OwnedMachines, EtcdClusterMachines
    <2> QED
        BY <1>0, <1>13, <2>1, <2>2, ContinueType
        DEF ScaleDown, Sized, NoRollout, NoRemoval, TypeOK, PcType
<1>14. CASE NothingToDo
    BY <1>0, <1>14, ContinueType
    DEF NothingToDo, Sized, NoRollout, NoRemoval, TypeOK, PcType
<1> QED
    BY <1>1, <1>2, <1>3, <1>4, <1>5, <1>6, <1>7, <1>8, <1>9, <1>10, <1>11, <1>12,
       <1>13, <1>14
    DEF Decide

\* What a call of the reconcile leaves behind.
LEMMA StepType ==
    ASSUME TypeOK, NEW next \in PcType, Step(next)
    PROVE  /\ pc' = next
           /\ before' \in ClusterType /\ cur' \in ClusterType
           /\ plane' \in [Ids -> MachineType]
           /\ checked' \in [Ids -> Answers \cup {"none", "noaddr"}]
           /\ passed' \subseteq Ids
<1>1. plane' \in [Ids -> MachineType]
    BY NoMachinesType DEF Step, PlaneAt, TypeOK
<1> QED  BY <1>1 DEF Step, TypeOK

LEMMA DeletedType ==
    ASSUME TypeOK, NEW m \in Ids PROVE Deleted(m) \in [Ids -> MachineType]
BY MachineUpdateType DEF Deleted, TypeOK, WorldTypeOK

LEMMA ActKeepsTypes ==
    ASSUME TypeOK, Act PROVE TypeOK'
<1>0. /\ WorldTypeOK /\ cur \in ClusterType /\ todo \subseteq Ids
      /\ mach \in [Ids -> MachineType] /\ plane \in [Ids -> MachineType]
    BY DEF TypeOK, WorldTypeOK
<1>1. CASE CreateMachine
    <2>1. PICK fd \in NextFailureDomainForScaleUp(plane, cur.ver) :
            mach' = [mach EXCEPT ![Min(FreeIds)] =
                        [Unborn EXCEPT !.st = "live", !.owned = TRUE,
                                       !.ver = cur.ver, !.fd = fd]]
        BY <1>1 DEF CreateMachine
    <2>2. fd \in FailureDomains \cup {""}
        BY DEF NextFailureDomainForScaleUp, PickFewest
    <2>3. cur.ver \in 0 .. MaxVersion
        BY <1>0, MaxVersionAssumption DEF ClusterType, Versions
    <2>4. [Unborn EXCEPT !.st = "live", !.owned = TRUE, !.ver = cur.ver, !.fd = fd]
            \in MachineType
        BY <2>2, <2>3, UnbornType DEF MachineType
    <2>5. mach' \in [Ids -> MachineType]
        BY <1>0, <2>1, <2>4
    <2> QED  BY <1>0, <1>1, <2>5, StepType DEF CreateMachine, TypeOK, WorldTypeOK, PcType
<1>2. CASE CreateFails
    BY <1>0, <1>2, StepType DEF CreateFails, TypeOK, WorldTypeOK, worldVars, PcType
<1>3. CASE Disown
    <2>1. target \in Ids
        BY <1>3 DEF Disown, TypeOK
    <2>2. [mach[target] EXCEPT !.owned = FALSE] \in MachineType
        BY <1>0, <2>1, MachineUpdateType
    <2>3. mach' = [mach EXCEPT ![target] = [mach[target] EXCEPT !.owned = FALSE]]
        BY <1>3, UpdateWrites DEF Disown
    <2>4. mach' \in [Ids -> MachineType]
        BY <1>0, <2>2, <2>3
    <2> QED  BY <1>0, <1>3, <2>4, StepType DEF Disown, TypeOK, WorldTypeOK, PcType
<1>4. CASE DisownFails
    BY <1>0, <1>4, StepType DEF DisownFails, TypeOK, WorldTypeOK, worldVars, PcType
<1>5. CASE MemberList
    <2>1. PICK m \in todo :
            \/ target' = m /\ Step("memberRemove") /\ UNCHANGED todo
            \/ NextRemoval(m)
            \/ target' = m /\ Step("deleteMachine") /\ UNCHANGED todo
        BY <1>5 DEF MemberList
    <2>2. WorldTypeOK' /\ m \in Ids /\ m # 0 /\ todo # {}
        BY <1>0, <1>5, <2>1 DEF MemberList, worldVars, WorldTypeOK, Ids
    <2>3. CASE NextRemoval(m)
        BY <1>0, <1>5, <2>2, <2>3, StepType DEF MemberList, NextRemoval, TypeOK, PcType
    <2> QED  BY <1>0, <2>1, <2>2, <2>3, StepType DEF TypeOK, PcType
<1>6. CASE MemberRemove
    <2>1. members' \subseteq Ids
        BY <1>0, <1>6 DEF MemberRemove, WorldTypeOK
    <2> QED  BY <1>0, <1>6, <2>1, StepType DEF MemberRemove, TypeOK, WorldTypeOK, PcType
<1>7. CASE DeleteMachine
    <2>1. target \in Ids
        BY <1>7 DEF DeleteMachine, TypeOK
    <2>2. mach' \in [Ids -> MachineType]
        BY <1>7, <2>1, DeletedType DEF DeleteMachine
    <2> QED
        BY <1>0, <1>7, <2>2, StepType
        DEF DeleteMachine, NextRemoval, TypeOK, WorldTypeOK, PcType
<1>8. CASE RemovalFails
    BY <1>0, <1>8, StepType DEF RemovalFails, TypeOK, WorldTypeOK, worldVars, PcType
<1>9. CASE ReconcileDelete
    <2> DEFINE live == {m \in All : ~HasDeletionTimestamp(plane, m)}
    <2>1. live \subseteq Ids
        BY DEF All, EtcdClusterMachines
    <2>2. [cur EXCEPT !.fin = FALSE] \in ClusterType
        BY <1>0 DEF ClusterType
    <2>3. PICK next \in {"check", "deleteAll"}, e \in ClusterType :
            /\ Continue(next, e)
            /\ \/ next = "check" /\ (todo' = todo \/ todo' = {})
               \/ next = "deleteAll" /\ todo' = live /\ live # {}
        <3>1. CASE Continue("check", cur) /\ UNCHANGED todo
            BY <1>0, <3>1
        <3>2. CASE Continue("check", [cur EXCEPT !.fin = FALSE]) /\ UNCHANGED todo
            BY <2>2, <3>2
        <3>3. CASE Continue(IF live = {} THEN "check" ELSE "deleteAll", cur) /\ todo' = live
            BY <1>0, <3>3
        <3> QED  BY <1>9, <3>1, <3>2, <3>3 DEF ReconcileDelete
    <2> HIDE DEF live
    <2> QED  BY <1>9, <2>1, <2>3, ContinueType DEF ReconcileDelete, TypeOK, PcType
<1>10. CASE DeleteEach
    <2>1. PICK m \in todo :
            /\ mach' = Deleted(m) \/ UNCHANGED mach
            /\ todo' = todo \ {m}
            /\ Step(IF todo = {m} THEN "check" ELSE "deleteAll")
        BY <1>10 DEF DeleteEach
    <2>2. mach' \in [Ids -> MachineType]
        BY <1>0, <2>1, DeletedType
    <2> QED
        BY <1>0, <1>10, <2>1, <2>2, StepType DEF DeleteEach, TypeOK, WorldTypeOK, PcType
<1> QED
    BY <1>1, <1>2, <1>3, <1>4, <1>5, <1>6, <1>7, <1>8, <1>9, <1>10 DEF Act

LEMMA CurrentMachinesType ==
    TypeOK => CurrentMachines \in [Ids -> MachineType]
BY DEF CurrentMachines, CachedMachines, TypeOK, WorldTypeOK

\* The status computations only touch the reported fields.
LEMMA ToPatchType ==
    ASSUME TypeOK, NEW e \in ClusterType, ToPatch(e), pc = "status", secret' \subseteq Ids
    PROVE  TypeOK'
BY DecisionType DEF ToPatch, TypeOK, WorldTypeOK, PcType, NotChecked

LEMMA ReturnType ==
    ASSUME TypeOK, Return, WorldTypeOK', passed' = passed
    PROVE  TypeOK'
BY NoClusterType, NoMachinesType DEF Return, TypeOK, PcType, NotChecked

\* A call in the middle of a patch leaves the rest of the reconcile as it was.
LEMMA GoesOnType ==
    ASSUME TypeOK, pc \in {"patch", "patchObject"}, pc' \in {"patchObject", "patchStatus"},
           WorldTypeOK', before' \in ClusterType,
           UNCHANGED <<cur, plane, todo, target, checked, passed>>
    PROVE  TypeOK'
BY DEF TypeOK, PcType

LEMMA PatchKeepsTypes ==
    ASSUME TypeOK, PatchEtcdCluster PROVE TypeOK'
<1>0. /\ WorldTypeOK /\ ec \in ClusterType /\ before \in ClusterType /\ cur \in ClusterType
    BY DEF TypeOK, WorldTypeOK
<1>1. CASE PatchConditions
    BY <1>0, <1>1, ConditionsCall, GoesOnType DEF WorldTypeOK
<1>2. CASE PatchObject
    <2>1. ec' \in ClusterType
        BY <1>0, <1>2, ObjectCall DEF PatchObject
    <2> QED  BY <1>0, <1>2, <2>1, ObjectCallGoesOn, GoesOnType DEF WorldTypeOK
<1>3. CASE PatchStatus
    BY <1>0, <1>3, StatusCall, ReturnType DEF WorldTypeOK
<1> QED  BY <1>1, <1>2, <1>3 DEF PatchEtcdCluster

\* Whatever is probed, every answer is one of the known ones.
LEMMA AnswersType ==
    ASSUME NEW S, NEW answer \in AnswersOf(S) PROVE answer \in [S -> Answers]
<1>1. \A m : Probe(m) \subseteq Answers
    BY AnswersAssumption DEF Probe, Answers
<1>2. answer \in [S -> UNION {Probe(m) : m \in S}] /\ \A m \in S : answer[m] \in Probe(m)
    BY DEF AnswersOf
<1> QED  BY <1>1, <1>2

LEMMA ReportKeepsTypes ==
    ASSUME TypeOK, Report PROVE TypeOK'
<1>0. /\ WorldTypeOK /\ cur \in ClusterType /\ secret \subseteq Ids
      /\ mach \in [Ids -> MachineType]
    BY DEF TypeOK, WorldTypeOK
<1>1. CASE CheckOwnedMachines
    <2>1. PICK answer \in AnswersOf(OwnedWithAddress) :
            /\ checked' = [m \in Ids |->
                            IF m \in OwnedWithAddress THEN answer[m]
                            ELSE IF m \in OwnedMachines(CurrentMachines) THEN "noaddr"
                            ELSE "none"]
            /\ LET healthy == {m \in OwnedWithAddress : Healthy(answer[m])} IN
               /\ passed' = passed \cup {m \in healthy : answer[m] = "ok"}
               /\ LabelMachines(CurrentMachines, {m \in healthy : ~CurrentMachines[m].label})
        BY <1>1 DEF CheckOwnedMachines
    <2>2. OwnedWithAddress \subseteq Ids
        BY DEF OwnedWithAddress, OwnedMachines, EtcdClusterMachines
    <2>3. checked' \in [Ids -> Answers \cup {"none", "noaddr"}]
        BY <2>1, AnswersType
    <2>4. passed' \subseteq Ids
        BY <2>1, <2>2 DEF TypeOK
    <2>5. PICK S : LabelMachines(CurrentMachines, S) /\ S \subseteq Ids
        BY <2>1, <2>2
    <2>6. PICK done \in SUBSET S :
            /\ \A m \in done : Unchanged(m, CurrentMachines)
            /\ mach' = [m \in Ids |->
                            IF m \in done THEN [Written(m, CurrentMachines) EXCEPT !.label = TRUE]
                            ELSE mach[m]]
        BY <2>5 DEF LabelMachines
    <2>7. \A m \in done : Written(m, CurrentMachines) = mach[m]
        BY <2>6, UpdateWrites
    <2>8. /\ done \in SUBSET Ids
          /\ mach' = [m \in Ids |-> IF m \in done THEN [mach[m] EXCEPT !.label = TRUE]
                                                  ELSE mach[m]]
        BY <2>5, <2>6, <2>7
    <2>9. mach' \in [Ids -> MachineType]
        BY <1>0, <2>8, MachineUpdateType
    <2> QED
        BY <1>0, <1>1, <2>3, <2>4, <2>9 DEF CheckOwnedMachines, TypeOK, WorldTypeOK, PcType
<1>2. CASE CheckFails
    BY <1>0, <1>2, ReturnType DEF CheckFails, worldVars, WorldTypeOK
<1>3. CASE StatusDeleting
    BY <1>0, <1>3, ToPatchType DEF StatusDeleting
<1>4. CASE StatusResizing
    <2>1. [cur EXCEPT !.ready = FALSE] \in ClusterType
        BY <1>0 DEF ClusterType
    <2> QED  BY <1>0, <1>4, <2>1, ToPatchType DEF StatusResizing
<1>5. CASE StatusUnhealthy
    <2>1. PICK m \in OwnedNow :
            ToPatch([cur EXCEPT !.ready = IF Listening(checked[m]) THEN FALSE ELSE @])
        BY <1>5 DEF StatusUnhealthy
    <2>2. [cur EXCEPT !.ready = IF Listening(checked[m]) THEN FALSE ELSE @] \in ClusterType
        BY <1>0 DEF ClusterType
    <2> QED  BY <1>0, <1>5, <2>1, <2>2, ToPatchType DEF StatusUnhealthy
<1>6. CASE StatusReady
    <2>1. [cur EXCEPT !.ready = TRUE, !.creationComplete = TRUE] \in ClusterType
        BY <1>0 DEF ClusterType
    <2> QED  BY <1>0, <1>6, <2>1, ToPatchType DEF StatusReady, AllHealthy
<1>7. CASE StatusNewEndpoints
    <2> DEFINE e == [cur EXCEPT !.ready = TRUE, !.endpoints = CurrEndpoints]
    <2>1. CurrEndpoints \subseteq Ids
        BY DEF CurrEndpoints
    <2>2. e \in ClusterType
        BY <1>0, <2>1 DEF ClusterType
    <2> HIDE DEF e
    <2>3. [e EXCEPT !.creationComplete = TRUE] \in ClusterType
        BY <2>2 DEF ClusterType
    <2>4. PICK d \in ClusterType : ToPatch(d)
        BY <1>7, <2>2, <2>3 DEF StatusNewEndpoints, e
    <2>5. secret' \subseteq Ids /\ pc = "status"
        BY <1>0, <1>7, <2>1 DEF StatusNewEndpoints, AllHealthy
    <2> QED  BY <2>4, <2>5, ToPatchType
<1>8. CASE PatchEtcdCluster
    BY <1>8, PatchKeepsTypes
<1> QED
    BY <1>1, <1>2, <1>3, <1>4, <1>5, <1>6, <1>7, <1>8 DEF Report

LEMMA TypeNext == TypeOK /\ [Next]_vars => TypeOK'
<1> SUFFICES ASSUME TypeOK, [Next]_vars PROVE TypeOK'
    OBVIOUS
<1>0. WorldTypeOK /\ mach \in [Ids -> MachineType]
    BY DEF TypeOK, WorldTypeOK
<1>1. CASE Reconcile
    <2>1. CachedCluster \in ClusterType
        BY <1>0 DEF CachedCluster, WorldTypeOK
    <2>2. [CachedCluster EXCEPT !.fin = TRUE] \in ClusterType
        BY <2>1 DEF ClusterType
    <2>3. plane' \in [Ids -> MachineType]
        BY <1>0, <1>1, NoMachinesType DEF Reconcile, UncachedList
    <2> QED
        BY <1>0, <1>1, <2>1, <2>2, <2>3
        DEF Reconcile, TypeOK, WorldTypeOK, worldVars, PcType
<1>2. CASE AddFinalizer
    <2>1. ec' \in ClusterType
        BY <1>2, ObjectCall DEF AddFinalizer, TypeOK, WorldTypeOK
    <2> QED  BY <1>0, <1>2, <2>1, ReturnType DEF AddFinalizer, WorldTypeOK
<1>3. CASE Restart
    BY <1>0, <1>3, ReturnType DEF Restart, ProcessLost, WorldTypeOK
<1>4. CASE UNCHANGED vars
    BY <1>4
    DEF vars, worldVars, recVars, TypeOK, WorldTypeOK, UpToDateMachines, MachinesNeedingRollout
<1> QED
    BY <1>1, <1>2, <1>3, <1>4, WorldKeepsTypes, DecideKeepsTypes, ActKeepsTypes,
       ReportKeepsTypes
    DEF Next, ReconcilerNext, Working

\* In every execution the state is well typed, and the reconcile holds a
\* machine and a work list exactly where its control flow says so.
THEOREM TypeCorrect == Spec => []TypeOK
BY TypeInit, TypeNext, PTL DEF Spec
=============================================================================
