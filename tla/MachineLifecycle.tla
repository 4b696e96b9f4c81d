--------------------------- MODULE MachineLifecycle ---------------------------
(***************************************************************************)
(* What an EtcdadmCluster promises about its machines, without a word on   *)
(* how: machines are created for it while it is there and wants more of    *)
(* them; each of them lives once and moves one way only, from owned over   *)
(* disowned to deleted; and the object goes when it has been deleted and   *)
(* none of its machines is left.                                           *)
(***************************************************************************)
EXTENDS Naturals, FiniteSets

CONSTANTS
    Machine,    \* the machines there may ever be
    Sizes       \* how many machines may be asked for

VARIABLES
    cluster,    \* the EtcdadmCluster: present, being deleted or gone
    life        \* how far the life of each machine has come

lifecycleVars == <<cluster, life>>

InState(s) == {m \in Machine : life[m] = s}
Empty == InState("owned") \cup InState("disowned") \cup InState("deleting") = {}

LifecycleInit ==
    /\ cluster = "present"
    /\ life \in [Machine -> {"none", "owned"}]

Move(m, from, to) ==
    /\ life[m] \in from
    /\ life' = [life EXCEPT ![m] = to]
    /\ UNCHANGED cluster

\* A reconcile that is under way when the object is deleted may still create
\* its machine.  A single replica is replaced by way of a second machine.
Create(m) ==
    /\ cluster # "gone"
    /\ \E size \in Sizes \cup {2} : Cardinality(InState("owned")) < size
    /\ Move(m, {"none"}, "owned")

Release(m) == cluster # "gone" /\ Move(m, {"owned"}, "disowned")

\* By the cluster, by the health check or by somebody else.
BeginDeletion(m) == Move(m, {"owned", "disowned"}, "deleting")

Finish(m) == Move(m, {"deleting"}, "gone")

\* Without a finalizer, the object goes at once.
RequestDeletion ==
    /\ cluster = "present"
    /\ cluster' \in {"deleting"} \cup (IF Empty THEN {"gone"} ELSE {})
    /\ UNCHANGED life

Vanish ==
    /\ cluster = "deleting" /\ Empty
    /\ cluster' = "gone"
    /\ UNCHANGED life

LifecycleNext ==
    \/ \E m \in Machine : Create(m) \/ Release(m) \/ BeginDeletion(m) \/ Finish(m)
    \/ RequestDeletion \/ Vanish

LifecycleSpec == LifecycleInit /\ [][LifecycleNext]_lifecycleVars
=============================================================================
