----------------------------- MODULE MCReconciler -----------------------------
(***************************************************************************)
(* The reconciler for TLC: what eventually happens under FairSpec, the     *)
(* spread over failure domains, and statements of the repository's         *)
(* comments that the code does not keep in every execution.                *)
(***************************************************************************)
EXTENDS Reconciler

-----------------------------------------------------------------------------
(* Convergence *)

\* Nothing is left to do: the cluster is gone, or it has the machines that
\* were asked for, etcd consists of exactly them, and status, secret and
\* conditions say so.
Converged ==
    \/ ~ec.exists
    \/ /\ \A m \in EtcdClusterMachines(mach) :
            mach[m].st = "live" /\ mach[m].owned /\ mach[m].ver = ec.ver
       /\ Cardinality(EtcdClusterMachines(mach)) = ec.replicas
       /\ members = EtcdClusterMachines(mach)
       /\ ec.ready /\ ec.endpoints = members /\ secret = members
       /\ ~ec.cpDone /\ ec.initCond = "True"
       /\ ~SpecOutOfDate(ec) /\ ec.noOutdated # "False" /\ ec.certs = "True"

\* Once the user stops, creation, rollouts, scale-downs and deletions all end,
\* and the cluster stays converged: no decision of reconcile waits for
\* something that never happens, and none is undone by a later one.
Converges == <>[]Converged

\* A deletion that was asked for completes: every machine is deleted, the
\* finalizer is removed and the object goes, whatever reconcileDelete found.
DeletionCompletes == ec.del ~> ~ec.exists

\* A converged cluster is spread evenly over the failure domains, although
\* its machines were created and replaced one at a time
\* (NextFailureDomainForScaleUp, FailureDomainWithMostMachines).
BalancedWhenConverged ==
    Converged => \A f, g \in FailureDomains :
        Cardinality(InFailureDomains(mach, OwnedMachines(mach), {f}))
            <= Cardinality(InFailureDomains(mach, OwnedMachines(mach), {g})) + 1

-----------------------------------------------------------------------------
(* Statements of the repository that some execution refutes *)

\* api/v1beta1/condition_consts.go: "InitializedCondition shows if etcd cluster
\* has been initialized": it is not absent once the cluster is created.
InitializationRecorded == ec.creationComplete => ec.initCond # "Unknown"

\* api/v1beta1/etcdadmcluster_types.go: "Ready reflects the state of the etcd
\* cluster, whether all of its members have passed healthcheck".  Whatever
\* copies, failed calls and crashes left of a status, Ready stands beside the
\* endpoints of a complete cluster, each of which has passed a health check.
PassedTogether(S) ==
    S \subseteq passed /\ \E r \in Replicas : validateCommon(r) /\ Cardinality(S) = r
ReadyMeansHealthy == ec.ready => PassedTogether(ec.endpoints)
=============================================================================
