------------------------------ MODULE HealthLoop ------------------------------
(***************************************************************************)
(* The periodic health check (controllers/periodic_healthcheck.go) of one  *)
(* EtcdadmCluster: on a timer and on a goroutine of its own it probes      *)
(* every member, counts failures in memory, and removes the owned machines *)
(* that failed too often while a quorum of the machines is healthy.  As in *)
(* Reconciler, an action is one call with the code around it, and anybody  *)
(* may move between two of them.                                           *)
(***************************************************************************)
EXTENDS EtcdWorld

CONSTANTS
    RetriesAnnotation,  \* the healthcheck-retries annotation: unset, a valid
                        \* number, or invalid (no number, or a negative one)
    Retries             \* its value when it is valid

ASSUME RetriesAssumption ==
    RetriesAnnotation \in {"unset", "valid", "invalid"} /\ Retries \in Nat

VARIABLES
    hpc,        \* the call the tick makes next
    hec,        \* the EtcdadmCluster as read when the tick began
    hplane,     \* the machines as listed, until they have been probed
    freq,       \* unhealthyMembersFrequency; 0 for a machine without entry
    toRemove,   \* unhealthyMembersToRemove
    htodo,      \* entries of toRemove this tick has not come to yet
    htarget,    \* the machine being removed
    herr,       \* a removal of this tick has failed (retErr)
    streak      \* history: how many checks in a row a machine has failed

tickVars == <<hpc, hec, hplane, htodo, htarget, herr>>
healthVars == <<tickVars, freq, toRemove, streak>>

maxUnhealthyCount == 5

\* An invalid annotation is logged, and then strconv.Atoi's result is used as
\* it is: 0, or a negative number, which makes no difference.
UnhealthyCount ==
    CASE RetriesAnnotation = "unset" -> maxUnhealthyCount
      [] RetriesAnnotation = "valid" -> Retries
      [] RetriesAnnotation = "invalid" -> 0

\* Bound: the counts go on growing in the code; nothing tells them apart
\* beyond the threshold, the one that is used or the one that is announced.
MaxCount == IF UnhealthyCount > 0 THEN UnhealthyCount ELSE maxUnhealthyCount
Counted(n) == IF n < MaxCount THEN n + 1 ELSE n

NoCounts == [m \in Ids |-> 0]

HealthInit ==
    /\ hpc = "idle"
    /\ hec = NoCluster /\ hplane = NoMachines
    /\ freq = NoCounts /\ streak = NoCounts
    /\ toRemove = {} /\ htodo = {} /\ htarget = 0
    /\ herr = FALSE

EndTick ==
    /\ hpc' = "idle"
    /\ hec' = NoCluster /\ hplane' = NoMachines
    /\ htodo' = {} /\ htarget' = 0
    /\ herr' = FALSE

-----------------------------------------------------------------------------
(* startHealthCheck, and the listing of periodicEtcdMembersHealthCheck.     *)
(* A paused cluster, one without owner and a failed listing end the tick    *)
(* before it does anything: no step at all.                                 *)

Skipped(e) ==
    \/ RetriesAnnotation = "valid" /\ Retries = 0
    \/ e.certs = "False"
    \/ ~e.creationComplete
    \/ SpecOutOfDate(e)

\* Mutant: the counts do not survive from one tick to the next.
StartHealthCheckAfresh ==
    /\ hpc = "idle"
    /\ CachedCluster.exists /\ ~Skipped(CachedCluster)
    /\ EtcdClusterMachines(mach) # {}
    /\ hec' = CachedCluster
    /\ hplane' = mach
    /\ freq' = NoCounts
    /\ hpc' = "probe"
    /\ UNCHANGED <<worldVars, toRemove, streak, htodo, htarget, herr>>

\* Counts of machines that are no longer listed are dropped; the queue of
\* machines to remove is not looked at.
StartHealthCheck ==
    /\ hpc = "idle"
    /\ CachedCluster.exists /\ ~Skipped(CachedCluster)
    /\ EtcdClusterMachines(mach) # {}
    /\ hec' = CachedCluster
    /\ hplane' = mach
    /\ freq' = [m \in Ids |-> IF m \in EtcdClusterMachines(mach) THEN freq[m] ELSE 0]
    /\ hpc' = "probe"
    /\ UNCHANGED <<worldVars, toRemove, streak, htodo, htarget, herr>>

-----------------------------------------------------------------------------
(* The probes, the counts and the quorum *)

\* getMachineEtcdEndpoint is empty for a machine without an address.
Probed == {m \in EtcdClusterMachines(hplane) : hplane[m].boot # "new"}

\* A failure counts for any machine, a success ends the count.
CountAfter(bad) ==
    [m \in Ids |-> IF m \in bad THEN Counted(freq[m])
                   ELSE IF m \in Probed THEN 0 ELSE freq[m]]

\* Mutant: a member that answers again stays queued.
QueueKeepsRecovered(bad) ==
    toRemove \cup {m \in bad \cap OwnedMachines(hplane) :
                        CountAfter(bad)[m] >= UnhealthyCount}

\* Owned machines are queued when they have failed often enough; a success
\* takes a machine out again.
QueueAfter(bad) ==
    (toRemove \ (Probed \ bad))
        \cup {m \in bad \cap OwnedMachines(hplane) :
                    CountAfter(bad)[m] >= UnhealthyCount}

\* Over all machines that were listed, owned or not, members or not.
QuorumPreserved(count) ==
    LET all == Cardinality(EtcdClusterMachines(hplane)) IN
    all - Cardinality({m \in Ids : count[m] > 0}) >= all \div 2 + 1

ProbeMembers ==
    /\ hpc = "probe"
    /\ \E answer \in AnswersOf(Probed) :
           LET bad == {m \in Probed : HealthCheckError(answer[m])} IN
           /\ freq' = CountAfter(bad)
           /\ toRemove' = QueueAfter(bad)
           /\ streak' = [m \in Ids |-> IF m \in bad THEN Counted(streak[m])
                                       ELSE IF m \in Probed THEN 0 ELSE streak[m]]
           /\ \/ /\ toRemove' = {}
                 /\ EndTick
              \/ /\ toRemove' # {}
                 /\ IF QuorumPreserved(freq')
                    THEN hpc' = "recheck" /\ htodo' = toRemove'
                    ELSE hpc' = "status" /\ UNCHANGED htodo
                 /\ hplane' = NoMachines
                 /\ UNCHANGED <<hec, htarget, herr>>
    /\ UNCHANGED worldVars

-----------------------------------------------------------------------------
(* The removals, one entry of the queue after the other *)

\* Mutant: the last entry stays the target.
NextEntryKeepsTarget(m, err) ==
    /\ hpc' = IF htodo # {m} THEN "recheck" ELSE "status"
    /\ htodo' = htodo \ {m} /\ herr' = err
    /\ UNCHANGED <<hec, hplane, htarget>>

\* On to the next entry.  After the last one an error ends the tick without
\* the status update.
NextEntry(m, err) ==
    IF htodo # {m}
    THEN /\ hpc' = "recheck"
         /\ htodo' = htodo \ {m} /\ htarget' = 0
         /\ herr' = err
         /\ UNCHANGED <<hec, hplane>>
    ELSE IF err THEN EndTick
    ELSE /\ hpc' = "status"
         /\ htodo' = {} /\ htarget' = 0
         /\ UNCHANGED <<hec, hplane, herr>>

\* Owned machines that nobody is deleting, listed again for every entry.
Remaining == {m \in OwnedMachines(mach) : ~HasDeletionTimestamp(mach, m)}

\* A failed listing looks like no machine.
WaitForReplica(m) ==
    /\ Cardinality(Remaining) < hec.replicas \/ Faults
    /\ NextEntry(m, herr)

\* Mutant: does not wait for the replacement of the one removed before.
RemoveAllAtOnce(m) ==
    /\ hpc' = "list" /\ htarget' = m
    /\ UNCHANGED <<hec, hplane, htodo, herr>>

RemoveUnhealthy(m) ==
    /\ Cardinality(Remaining) >= hec.replicas
    /\ hpc' = "list" /\ htarget' = m
    /\ UNCHANGED <<hec, hplane, htodo, herr>>

Recheck ==
    /\ hpc = "recheck"
    /\ \E m \in htodo : WaitForReplica(m) \/ RemoveUnhealthy(m)
    /\ UNCHANGED <<worldVars, freq, toRemove, streak>>

\* removeEtcdMachine, with the endpoints of the object as the tick read it.
\* The last member is left alone, which counts as done.
HealthMemberList ==
    /\ hpc = "list" /\ EtcdReachable(hec.endpoints)
    /\ \/ /\ htarget \in members /\ Cardinality(members) <= 1
          /\ toRemove' = toRemove \ {htarget}
          /\ NextEntry(htarget, herr)
       \/ /\ htarget \in members => Cardinality(members) > 1
          /\ hpc' = IF htarget \in members THEN "memberRemove" ELSE "deleteMachine"
          /\ UNCHANGED <<hec, hplane, htodo, htarget, herr, toRemove>>
    /\ UNCHANGED <<worldVars, freq, streak>>

HealthMemberRemove ==
    /\ hpc = "memberRemove" /\ MemberRemoveSucceeds(htarget, hec.endpoints)
    /\ members' = members \ {htarget}
    /\ hpc' = "deleteMachine"
    /\ UNCHANGED <<ec, cache, mach, mcache, failed, secret, released,
                   hec, hplane, htodo, htarget, herr, freq, toRemove, streak>>

HealthDeleteMachine ==
    /\ hpc = "deleteMachine"
    /\ mach' = Deleted(htarget)
    /\ toRemove' = toRemove \ {htarget}
    /\ NextEntry(htarget, herr)
    /\ UNCHANGED <<ec, cache, mcache, members, failed, secret, released, freq, streak>>

\* An error is collected and the entry stays queued for the next tick.
HealthRemovalFails ==
    /\ \/ hpc \in {"list", "memberRemove", "deleteMachine"} /\ Faults
       \/ hpc = "list" /\ ~EtcdReachable(hec.endpoints)
       \/ hpc = "memberRemove" /\ ~MemberRemoveSucceeds(htarget, hec.endpoints)
    /\ NextEntry(htarget, TRUE)
    /\ UNCHANGED <<worldVars, freq, toRemove, streak>>

-----------------------------------------------------------------------------
\* Status().Update of the object as it was read: the API server refuses it
\* when the object has changed in between or is gone.
HealthStatus ==
    /\ hpc = "status"
    /\ \/ ec = hec /\ ec.exists /\ ec' = [ec EXCEPT !.ready = FALSE]
       \/ (Faults \/ ec # hec \/ ~ec.exists) /\ UNCHANGED ec
    /\ EndTick
    /\ UNCHANGED <<cache, mach, mcache, members, failed, secret, released,
                   freq, toRemove, streak>>

Ticking == \/ ProbeMembers \/ Recheck
           \/ HealthMemberList \/ HealthMemberRemove \/ HealthDeleteMachine
           \/ HealthRemovalFails \/ HealthStatus

\* The process dies: everything the loop knows was in memory.
HealthLost ==
    /\ EndTick
    /\ freq' = NoCounts /\ toRemove' = {}
    /\ UNCHANGED streak

-----------------------------------------------------------------------------
\* Types and control: the tick works on an entry of its list exactly while it
\* removes it, what it works through is queued, and it holds a copy of the
\* object until it ends.
HealthTypeOK ==
    /\ hpc \in {"idle", "probe", "recheck", "list", "memberRemove",
                "deleteMachine", "status"}
    /\ hec \in ClusterType /\ hplane \in [Ids -> MachineType]
    /\ {freq, streak} \subseteq [Ids -> 0 .. MaxCount]
    /\ toRemove \subseteq Ids /\ htodo \subseteq toRemove
    /\ herr \in BOOLEAN
    /\ IF hpc \in {"list", "memberRemove", "deleteMachine"} THEN htarget \in htodo
       ELSE htarget = 0
    /\ htodo # {} <=> hpc \in {"recheck", "list", "memberRemove", "deleteMachine"}

\* Only consecutive failures lead to a removal: whatever is queued has failed
\* as many checks in a row as configured, through restarts, disownings and
\* entries that outlive their machine (periodicEtcdMembersHealthCheck).
QueuedHaveFailed == \A m \in toRemove : streak[m] >= UnhealthyCount

\* The health check only takes up machines that are owned when it lists them
\* again for the removal; it does not interfere with the disowned machines of
\* a rollout, which wait for the control plane (periodicEtcdMembersHealthCheck).
OnlyOwnedTouched ==
    [][\A m \in htodo : hpc = "recheck" /\ RemoveUnhealthy(m) => mach[m].owned]_<<worldVars, healthVars>>

\* Why: what the loop counts is never more than what has happened.
StreakInv ==
    /\ QueuedHaveFailed
    /\ \A m \in Ids : freq[m] <= streak[m]
=============================================================================
