------------------------------- MODULE EtcdPlane -------------------------------
(***************************************************************************)
(* The machine collections of the controller (controllers/etcd_plane.go    *)
(* and the filters it takes from Cluster API).  A listing of machines is a *)
(* function from creation-ordered ids to machine records; everything here  *)
(* is a pure operator on such a listing.                                   *)
(***************************************************************************)
EXTENDS Naturals, FiniteSets, FiniteSetsExt

CONSTANTS
    MaxMachines,      \* bound: how many machines are ever created
    MaxVersion,       \* bound: how many different machine specs the user applies
    FailureDomains    \* Cluster.Status.FailureDomains, possibly empty

ASSUME MaxMachinesAssumption == MaxMachines \in Nat \ {0}
ASSUME MaxVersionAssumption == MaxVersion \in Nat \ {0}
ASSUME FailureDomainsAssumption == /\ IsFiniteSet(FailureDomains)
                                   /\ "" \notin FailureDomains

\* Ids follow creation order: Oldest() is Min and Newest() is Max.
Ids == 1 .. MaxMachines
Versions == 1 .. MaxVersion

(***************************************************************************)
(* st     the API object: not created yet, live, with a deletion           *)
(*        timestamp, or removed from the API server;                       *)
(* owned  it carries the ownerRef of the EtcdadmCluster;                   *)
(* ver    the EtcdadmConfigSpec and infrastructure template it was cloned  *)
(*        from, both abstracted to one spec version;                       *)
(* boot   no address yet, an address, or etcd has been started on it;      *)
(* label  the etcd-ready label;  ann  the delete-machine annotation;       *)
(* fd     Spec.FailureDomain ("" for none).                                *)
(***************************************************************************)
MachineType ==
    [st: {"none", "live", "deleting", "gone"}, owned: BOOLEAN,
     ver: 0 .. MaxVersion, boot: {"new", "addr", "joined"},
     label: BOOLEAN, fd: FailureDomains \cup {""}, ann: BOOLEAN]

Unborn == [st |-> "none", owned |-> FALSE, ver |-> 0, boot |-> "new",
           label |-> FALSE, fd |-> "", ann |-> FALSE]
Removed == [Unborn EXCEPT !.st = "gone"]

\* Machines the API server still lists for the cluster, owned or not,
\* with or without a deletion timestamp.
EtcdClusterMachines(M) == {m \in Ids : M[m].st \in {"live", "deleting"}}
OwnedMachines(M) == {m \in EtcdClusterMachines(M) : M[m].owned}
HasDeletionTimestamp(M, m) == M[m].st = "deleting"

MatchesEtcdadmClusterConfiguration(M, v, m) == M[m].ver = v

MachinesNeedingRollout(M, v) ==
    {m \in OwnedMachines(M) : /\ ~HasDeletionTimestamp(M, m)
                              /\ ~MatchesEtcdadmClusterConfiguration(M, v, m)}

\* Over every machine of the cluster, owned or not (the ep2 of reconcile).
OutOfDateMachines(M, v) ==
    {m \in EtcdClusterMachines(M) : ~MatchesEtcdadmClusterConfiguration(M, v, m)}

\* As in the code, an outdated machine that is being deleted counts here.
UpToDateMachines(M, v) == OwnedMachines(M) \ MachinesNeedingRollout(M, v)

NewestUpToDateMachine(M, v) == Max(UpToDateMachines(M, v))

-----------------------------------------------------------------------------
(* Failure domains *)

InFailureDomains(M, S, fds) == {m \in S : M[m].fd \in fds}

\* external: Cluster API's failuredomains.PickFewest and PickMost.  How they
\* break ties is left open: any of the extreme domains may be returned.
PickFewest(M, S) ==
    {f \in FailureDomains : \A g \in FailureDomains :
        Cardinality(InFailureDomains(M, S, {f})) <= Cardinality(InFailureDomains(M, S, {g}))}
PickMost(M, S) ==
    {f \in FailureDomains : \A g \in FailureDomains :
        Cardinality(InFailureDomains(M, S, {f})) >= Cardinality(InFailureDomains(M, S, {g}))}

NextFailureDomainByMost(M, v) ==   \* mutant
    IF FailureDomains = {} THEN {""} ELSE PickMost(M, UpToDateMachines(M, v))
NextFailureDomainForScaleUp(M, v) ==
    IF FailureDomains = {} THEN {""} ELSE PickFewest(M, UpToDateMachines(M, v))

FailureDomainWithMostMachines(M, S) ==
    LET notInFailureDomains == S \ InFailureDomains(M, S, FailureDomains) IN
    IF notInFailureDomains # {} THEN {M[Min(notInFailureDomains)].fd}
    ELSE PickMost(M, S)

MachineInFailureDomainWithMostMachines(M, S) ==
    {Min(InFailureDomains(M, S, {f})) : f \in FailureDomainWithMostMachines(M, S)}

\* The machines selectMachineForScaleDown may return; none when there is
\* nothing to select from.
MachineWithDeleteAnnotation(M, S) == {m \in S : M[m].ann}

ScaleDownCandidates(M, outdated) ==
    CASE MachineWithDeleteAnnotation(M, outdated) # {} ->
            MachineWithDeleteAnnotation(M, outdated)
      [] /\ MachineWithDeleteAnnotation(M, outdated) = {}
         /\ MachineWithDeleteAnnotation(M, OwnedMachines(M)) # {} ->
            MachineWithDeleteAnnotation(M, OwnedMachines(M))
      [] /\ MachineWithDeleteAnnotation(M, OwnedMachines(M)) = {}
         /\ outdated # {} -> outdated
      [] OTHER -> OwnedMachines(M)

selectMachineForScaleDown(M, outdated) ==
    MachineInFailureDomainWithMostMachines(M, ScaleDownCandidates(M, outdated))
=============================================================================
