------------------------------- MODULE EtcdWorld -------------------------------
(***************************************************************************)
(* Everything the controller shares with the rest of the system: the       *)
(* EtcdadmCluster and Machine objects on the API server, the informer      *)
(* copies of them inside the controller, the secret with the join address, *)
(* and the membership of the etcd cluster; and the steps the user, Cluster *)
(* API, the bootstrap provider and etcd take on them.                      *)
(***************************************************************************)
EXTENDS EtcdPlane

CONSTANTS
    Replicas,         \* values of Spec.Replicas the user tries
    MemberAnswers,    \* what a started member may answer to GET /health
    UserOps,          \* which user operations happen in this instance
    UserMode,         \* how the changes of the user follow each other
    StaleCluster,     \* the cached EtcdadmCluster may lag behind the API server
    StaleMachines,    \* the cached Machines may lag behind the API server
    Faults,           \* calls to the API server and to etcd may fail
    Crashes           \* the controller may be killed and restarted

\* The validating webhook, at creation and at every update of the object.
validateCommon(r) == r > 0 /\ r % 2 = 1

ASSUME ReplicasAssumption ==
    /\ IsFiniteSet(Replicas) /\ Replicas \subseteq Nat
    /\ \E r \in Replicas : validateCommon(r)

Answers == {"ok", "non200", "bad", "noport"}
ASSUME AnswersAssumption == MemberAnswers # {} /\ MemberAnswers \subseteq Answers

ASSUME SwitchesAssumption ==
    /\ UserOps \subseteq {"scaleUp", "scaleDown", "upgrade", "controlplane",
                          "delete", "annotate", "machine"}
    /\ UserMode \in {"serial", "forward", "any"}
    /\ {StaleCluster, StaleMachines, Faults, Crashes} \subseteq BOOLEAN

VARIABLES
    ec,         \* the EtcdadmCluster on the API server
    cache,      \* the informer's copy of it
    mach,       \* the Machines on the API server
    mcache,     \* the informer's copy of them
    members,    \* etcd's member list, by machine id
    failed,     \* machines on which etcd has stopped answering
    secret,     \* endpoints in the secret that joining machines read
    released    \* history: machines that were disowned when a control plane
                \* upgrade completed, which nothing connects to any more

worldVars == <<ec, cache, mach, mcache, members, failed, secret, released>>

(***************************************************************************)
(* The fields of the EtcdadmCluster that code of the controller reads, and *)
(* the ones other controllers act upon.  A condition is Unknown while it   *)
(* is absent; SpecUpToDate = False is split by its reason.                 *)
(***************************************************************************)
ConditionType == {"Unknown", "True", "False"}
ClusterType ==
    [exists: BOOLEAN, del: BOOLEAN, fin: BOOLEAN,
     replicas: Replicas, ver: Versions, cpDone: BOOLEAN,
     specUpToDate: {"Unknown", "True", "Rolling", "MaxReached"},
     certs: ConditionType, noOutdated: ConditionType, initCond: ConditionType,
     initialized: BOOLEAN, ready: BOOLEAN, creationComplete: BOOLEAN,
     endpoints: SUBSET Ids]

NewCluster(r) ==
    [exists |-> TRUE, del |-> FALSE, fin |-> FALSE,
     replicas |-> r, ver |-> 1, cpDone |-> FALSE,
     specUpToDate |-> "Unknown",
     certs |-> "Unknown", noOutdated |-> "Unknown", initCond |-> "Unknown",
     initialized |-> FALSE, ready |-> FALSE, creationComplete |-> FALSE,
     endpoints |-> {}]

\* A reconcile or a tick that is over holds no object and no listing.
NoCluster == [NewCluster(CHOOSE r \in Replicas : TRUE) EXCEPT !.exists = FALSE]
NoMachines == [m \in Ids |-> Unborn]

SpecOutOfDate(e) == e.specUpToDate \in {"Rolling", "MaxReached"}

\* controller-runtime reads the EtcdadmCluster, and in the deferred status
\* computation the Machines, from its informer cache.
CachedCluster == IF StaleCluster THEN cache ELSE ec
CachedMachines == IF StaleMachines THEN mcache ELSE mach

WorldInit ==
    /\ \E r \in Replicas : validateCommon(r) /\ ec = NewCluster(r)
    /\ cache = ec
    /\ mach = [m \in Ids |-> Unborn]
    /\ mcache = mach
    /\ members = {}
    /\ failed = {}
    /\ secret = {}
    /\ released = {}

WorldTypeOK ==
    /\ ec \in ClusterType
    /\ cache \in ClusterType
    /\ mach \in [Ids -> MachineType]
    /\ mcache \in [Ids -> MachineType]
    /\ members \subseteq Ids
    /\ failed \subseteq Ids
    /\ secret \subseteq Ids
    /\ released \subseteq Ids

-----------------------------------------------------------------------------
(* The informers *)

SyncCluster ==
    /\ StaleCluster /\ cache # ec
    /\ cache' = ec
    /\ UNCHANGED <<ec, mach, mcache, members, failed, secret, released>>

SyncMachines ==
    /\ StaleMachines /\ mcache # mach
    /\ mcache' = mach
    /\ UNCHANGED <<ec, cache, mach, members, failed, secret, released>>

-----------------------------------------------------------------------------
(* etcd.  A member answers while its machine is there and has not failed;   *)
(* the cluster takes a change of its membership only with a majority, and   *)
(* refuses one that would leave it without (strict reconfiguration).        *)

Running(m) == m \in members /\ mach[m].st \in {"live", "deleting"}
Alive(m) == Running(m) /\ m \notin failed
AliveMembers == {m \in members : Alive(m)}

Majority(S, T) == 2 * Cardinality(S) > Cardinality(T)
HasQuorum == Majority(AliveMembers, members)
RemovalAccepted(m) == HasQuorum /\ Majority(AliveMembers \ {m}, members \ {m})

-----------------------------------------------------------------------------
(* The infrastructure, Cluster API's machine controller and etcd *)

\* The infrastructure provider reports an address for the machine.
AssignAddress(m) ==
    /\ mach[m].st = "live" /\ mach[m].boot = "new"
    /\ mach' = [mach EXCEPT ![m].boot = "addr"]
    /\ UNCHANGED <<ec, cache, mcache, members, failed, secret, released>>

\* etcdadm init on the first machine: Cluster API records the address in the
\* secret and sets Status.Initialized.
InitMember(m) ==
    /\ mach[m].st = "live" /\ mach[m].boot = "addr"
    /\ ec.exists /\ ~ec.initialized
    /\ ec' = [ec EXCEPT !.initialized = TRUE]
    /\ mach' = [mach EXCEPT ![m].boot = "joined"]
    /\ members' = members \cup {m}
    /\ secret' = {m}
    /\ UNCHANGED <<cache, mcache, failed, released>>

\* etcdadm join on a later machine: the members that exist must agree.
JoinMember(m) ==
    /\ mach[m].st = "live" /\ mach[m].boot = "addr"
    /\ ec.initialized /\ HasQuorum
    /\ mach' = [mach EXCEPT ![m].boot = "joined"]
    /\ members' = members \cup {m}
    /\ UNCHANGED <<ec, cache, mcache, failed, secret, released>>

\* The machine controller finishes deleting a machine.  Its etcd member stays
\* in the member list unless somebody removed it before.
FinishMachineDeletion(m) ==
    /\ mach[m].st = "deleting"
    /\ mach' = [mach EXCEPT ![m] = Removed]
    /\ UNCHANGED <<ec, cache, mcache, members, failed, secret, released>>

InfraNext == \E m \in Ids : AssignAddress(m) \/ InitMember(m) \/ JoinMember(m)
                            \/ FinishMachineDeletion(m)

-----------------------------------------------------------------------------
(* The user and the control plane controller *)

\* The cluster has been created and nothing is left of the previous change:
\* as many machines as wanted, all owned, up to date and none being deleted,
\* and the annotation of the control plane has been consumed.
ChangesOver ==
    /\ ec.creationComplete /\ ~ec.cpDone
    /\ Cardinality(EtcdClusterMachines(mach)) = ec.replicas
    /\ \A m \in EtcdClusterMachines(mach) :
        mach[m].st = "live" /\ mach[m].owned /\ mach[m].ver = ec.ver

\* serial: a change starts when the previous one is over;  forward: more
\* replicas, fewer, or a newer spec at any time;  any: also an older spec.
Scale(r) ==
    /\ \/ "scaleUp" \in UserOps /\ r > ec.replicas
       \/ "scaleDown" \in UserOps /\ r < ec.replicas
    /\ ec.exists /\ ~ec.del
    /\ validateCommon(r)
    /\ UserMode = "serial" => ChangesOver
    /\ ec' = [ec EXCEPT !.replicas = r]
    /\ UNCHANGED <<cache, mach, mcache, members, failed, secret, released>>

Upgrade(v) ==
    /\ "upgrade" \in UserOps
    /\ ec.exists /\ ~ec.del /\ v # ec.ver
    /\ UserMode = "serial" => ChangesOver
    /\ UserMode # "any" => v > ec.ver
    /\ ec' = [ec EXCEPT !.ver = v]
    /\ UNCHANGED <<cache, mach, mcache, members, failed, secret, released>>

\* The control plane has been rolled out on the endpoints of a ready etcd
\* cluster; its controller sets the annotation the reconciler waits for.
CompleteControlPlaneUpgrade ==
    /\ "controlplane" \in UserOps
    /\ ec.exists /\ ~ec.del /\ ~ec.cpDone
    /\ ec.ready /\ ec.noOutdated = "False"
    /\ ec' = [ec EXCEPT !.cpDone = TRUE]
    /\ released' = released \cup (EtcdClusterMachines(mach) \ OwnedMachines(mach))
    /\ UNCHANGED <<cache, mach, mcache, members, failed, secret>>

\* The object stays, with a deletion timestamp, while it has a finalizer.
DeleteCluster ==
    /\ "delete" \in UserOps
    /\ ec.exists /\ ~ec.del
    /\ ec' = [ec EXCEPT !.del = TRUE, !.exists = ec.fin]
    /\ UNCHANGED <<cache, mach, mcache, members, failed, secret, released>>

AnnotateMachine(m) ==
    /\ "annotate" \in UserOps
    /\ mach[m].st = "live" /\ ~mach[m].ann
    /\ mach' = [mach EXCEPT ![m].ann = TRUE]
    /\ UNCHANGED <<ec, cache, mcache, members, failed, secret, released>>

\* Somebody else deletes a machine: an administrator, a machine health check.
LoseMachine(m) ==
    /\ mach[m].st = "live"
    /\ mach' = [mach EXCEPT ![m].st = "deleting"]
    /\ UNCHANGED <<ec, cache, mcache, members, failed, secret, released>>

DeleteMachineByHand(m) == "machine" \in UserOps /\ LoseMachine(m)

UserNext == \/ \E r \in Replicas : Scale(r)
            \/ \E v \in Versions : Upgrade(v)
            \/ CompleteControlPlaneUpgrade
            \/ DeleteCluster
            \/ \E m \in Ids : AnnotateMachine(m) \/ DeleteMachineByHand(m)

-----------------------------------------------------------------------------
(* What the controller finds when it connects to etcd, from a reconcile or   *)
(* from the periodic health check                                            *)

\* A client configured with these endpoints reaches the etcd cluster.
EtcdReachable(endpoints) == \E m \in endpoints : Alive(m)

\* MemberRemove of a member through these endpoints.
MemberRemoveSucceeds(m, endpoints) ==
    m \in members /\ EtcdReachable(endpoints) /\ RemovalAccepted(m)

\* Nothing listens where etcd does not run.
isPortOpen(m) == Alive(m)

\* A member that listens answers one of MemberAnswers.  An error before the
\* request reaches it looks like a bad answer.
Probe(m) == (IF isPortOpen(m) THEN MemberAnswers ELSE {"noport"})
            \cup (IF Faults THEN {"bad"} ELSE {})

\* One answer of each of these machines.
AnswersOf(S) ==
    {answer \in [S -> UNION {Probe(m) : m \in S}] : \A m \in S : answer[m] \in Probe(m)}

\* performEndpointHealthCheck returns nil for a response that is not 200:
\* it wraps the nil error of the request.
HealthCheckErrorPortOnly(a) == a = "noport"   \* mutant
HealthCheckError(a) == a \in {"bad", "noport"}

\* Client.Delete of a machine that is gone, or already being deleted, succeeds.
Deleted(m) == IF mach[m].st = "live" THEN [mach EXCEPT ![m].st = "deleting"] ELSE mach

=============================================================================
