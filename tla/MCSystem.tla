------------------------------- MODULE MCSystem -------------------------------
(***************************************************************************)
(* The whole controller for TLC.                                           *)
(***************************************************************************)
EXTENDS System, MCReconciler

\* One at a time: when the health check deletes a machine, the cluster still
\* owns as many machines as it wants, although the reconciler creates and
\* counts machines at the same time (the second listing before each removal).
OneAtATime ==
    [][HealthDeleteMachine /\ mach' # mach => Cardinality(Remaining) >= hec.replicas]_systemVars

\* The machines that were asked for are there, all of them are members that
\* answer, and the status says so.  A dead member is left only where a machine
\* was deleted behind the controller's back.
Repaired ==
    LET machines == EtcdClusterMachines(mach) IN
    /\ \A m \in machines : mach[m].st = "live" /\ mach[m].owned /\ Alive(m)
    /\ Cardinality(machines) = ec.replicas
    /\ members \ machines \subseteq {m \in Ids : <<"delete", m>> \in disturbances}
    /\ ec.ready /\ ec.endpoints = machines /\ secret = machines

\* As long as etcd keeps, or gets back, its majority, members that failed for
\* good are removed and replaced, by the two goroutines together and in spite
\* of restarts that lose the counts;  provided that a replacement runs etcd
\* before as many ticks have found it silent as lead to its removal
\* (TimelyBootstrap), for the health check counts it from its address on.
Repairs == <>[]HasQuorum => <>[]Repaired
=============================================================================
