-------------------------------- MODULE System --------------------------------
(***************************************************************************)
(* The controller as it runs: a worker of the queue reconciles the         *)
(* EtcdadmCluster while the goroutine of the periodic health check looks   *)
(* after its members.  They share no lock and no memory, only the API      *)
(* server and etcd; and they die together.                                 *)
(***************************************************************************)
EXTENDS Reconciler, HealthLoop

CONSTANTS
    StartCreated,     \* begin with a cluster that has just been created
    Fragile,          \* bound: machines on which etcd may fail
    Deletable,        \* bound: machines that may be deleted by hand
    MaxDisturbances,  \* bound: how many failures, deletions and restarts
    TimelyBootstrap   \* a machine runs etcd before it has failed as many checks
                      \* as lead to its removal

ASSUME SystemAssumption ==
    /\ {StartCreated, TimelyBootstrap} \subseteq BOOLEAN
    /\ Fragile \subseteq Ids /\ Deletable \subseteq Ids
    /\ StartCreated => FailureDomains = {}
    /\ MaxDisturbances \in Nat

VARIABLE
    disturbances    \* history: what has happened so far, each at most once

systemVars == <<vars, healthVars, disturbances>>

\* Where creation ends: r members, found healthy and published.
CreatedWorld(r) ==
    /\ ec = [NewCluster(r) EXCEPT
                !.fin = TRUE, !.certs = "True", !.initCond = "True",
                !.initialized = TRUE, !.ready = TRUE, !.creationComplete = TRUE,
                !.endpoints = 1 .. r]
    /\ mach = [m \in Ids |-> IF m \in 1 .. r
                             THEN [Unborn EXCEPT !.st = "live", !.owned = TRUE, !.ver = 1,
                                                 !.boot = "joined", !.label = TRUE]
                             ELSE Unborn]
    /\ cache = ec /\ mcache = mach
    /\ members = 1 .. r /\ secret = 1 .. r
    /\ failed = {} /\ released = {}

SystemInit ==
    /\ IF StartCreated THEN \E r \in Replicas \cap Ids : validateCommon(r) /\ CreatedWorld(r) ELSE WorldInit
    /\ RecInit
    /\ HealthInit
    /\ disturbances = {}

Disturbance == {<<"fail", m>> : m \in Fragile} \cup {<<"delete", m>> : m \in Deletable}
                   \cup {<<"restart", 0>>}

Disturb(d) ==
    /\ Cardinality(disturbances) < MaxDisturbances
    /\ d \notin disturbances
    /\ disturbances' = disturbances \cup {d}

\* etcd stops on a machine that stays; it may come back by itself.
FailMember(m) ==
    /\ Disturb(<<"fail", m>>)
    /\ Alive(m)
    /\ failed' = failed \cup {m}
    /\ UNCHANGED <<ec, cache, mach, mcache, members, secret, released, recVars, healthVars>>

RecoverMember(m) ==
    /\ m \in failed
    /\ failed' = failed \ {m}
    /\ UNCHANGED <<ec, cache, mach, mcache, members, secret, released, recVars,
                   healthVars, disturbances>>

\* Somebody deletes a machine: its member stays in the member list for good.
DeleteMachineUnasked(m) ==
    /\ Disturb(<<"delete", m>>)
    /\ LoseMachine(m)
    /\ UNCHANGED <<recVars, healthVars>>

\* Reconcile and tick are lost where they stand, and the counts with them.
RestartProcess ==
    /\ Disturb(<<"restart", 0>>)
    /\ ProcessLost /\ HealthLost

ReconcilerStep(A) == A /\ UNCHANGED <<healthVars, disturbances>>
HealthStep(A) == A /\ UNCHANGED <<recVars, disturbances>>

\* The timer fires whatever is going on.  TimelyBootstrap leaves out the
\* executions in which machines take too many of its periods to bootstrap.
Bootstrapping == {m \in Ids : mach[m].st = "live" /\ mach[m].boot = "addr"}

Tick == /\ TimelyBootstrap => \A m \in Bootstrapping : freq[m] + 1 < UnhealthyCount
        /\ HealthStep(StartHealthCheck)

SystemNext ==
    \/ ReconcilerStep(Working)
    \/ ReconcilerStep(WorldNext)
    \/ Tick
    \/ HealthStep(Ticking)
    \/ \E m \in Fragile : FailMember(m) \/ RecoverMember(m)
    \/ \E m \in Deletable : DeleteMachineUnasked(m)
    \/ RestartProcess

SystemSpec == SystemInit /\ [][SystemNext]_systemVars

(***************************************************************************)
(* Fairness.  As for the reconciler alone; besides, the timer of the       *)
(* health check fires, and a tick that has begun goes on.  Nothing is      *)
(* assumed of a failed member: it need not come back.                      *)
(***************************************************************************)
SystemFairness ==
    /\ WF_systemVars(ReconcilerStep(Reconcile))
    /\ WF_systemVars(ReconcilerStep(AddFinalizer \/ Decide \/ Act \/ Report))
    /\ SF_systemVars(ReconcilerStep(RolloutChecksNewest))
    /\ WF_systemVars(ReconcilerStep((SyncCluster \/ SyncMachines) /\ UNCHANGED recVars))
    /\ WF_systemVars(ReconcilerStep(CompleteControlPlaneUpgrade /\ UNCHANGED recVars))
    /\ WF_systemVars(ReconcilerStep(InfraNext /\ UNCHANGED recVars))
    /\ WF_systemVars(Tick)
    /\ WF_systemVars(HealthStep(Ticking))

FairSystemSpec == SystemSpec /\ SystemFairness

-----------------------------------------------------------------------------
\* Types and control of both goroutines.
SystemTypeOK ==
    /\ TypeOK
    /\ HealthTypeOK
    /\ disturbances \subseteq Disturbance
=============================================================================
