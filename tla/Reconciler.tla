------------------------------ MODULE Reconciler ------------------------------
(***************************************************************************)
(* EtcdadmClusterReconciler.Reconcile for one EtcdadmCluster, at the       *)
(* granularity of its API and etcd calls: the work queue never hands one   *)
(* object to two workers, so there is one reconcile in progress at most,   *)
(* but every other actor may move between two of its calls.                *)
(***************************************************************************)
EXTENDS EtcdWorld

VARIABLES
    pc,         \* the call the reconcile makes next
    before,     \* the EtcdadmCluster as read, kept by the patch helper;
                \* what it has patched is taken over from cur
    cur,        \* the in-memory EtcdadmCluster the reconcile modifies
    plane,      \* the machines as listed (ep.Machines)
    todo,       \* machines still to be removed or deleted
    target,     \* the machine being disowned, removed or deleted
    checked,    \* what each owned machine answered in checkOwnedMachines
    passed      \* history: machines that have answered a health check well

recVars == <<pc, before, cur, plane, todo, target, checked, passed>>
vars == <<worldVars, recVars>>

PcType == {"idle", "addFinalizer", "decide", "gate", "create", "disown",
           "remove", "memberRemove", "deleteMachine", "delete", "deleteAll",
           "check", "status", "patch", "patchObject", "patchStatus"}

\* checked[m]: an answer, "noaddr" for a machine without an address, or
\* "none" for a machine that is not in the owned listing.
NotChecked == [m \in Ids |-> "none"]

RecInit ==
    /\ pc = "idle"
    /\ before = NoCluster /\ cur = NoCluster
    /\ plane = NoMachines
    /\ todo = {} /\ target = 0
    /\ checked = NotChecked
    /\ passed = {}

\* The reconcile returns; its local state is garbage.
Return ==
    /\ pc' = "idle"
    /\ before' = NoCluster /\ cur' = NoCluster
    /\ plane' = NoMachines
    /\ todo' = {} /\ target' = 0
    /\ checked' = NotChecked

-----------------------------------------------------------------------------
(* Reconcile: read the object, add the finalizer, choose the direction.     *)
(* A missing owner Cluster, an infrastructure that is not ready and a       *)
(* pause make Reconcile return at once: no step at all.                     *)

\* reconcile and reconcileDelete list the machines with the uncached client.
ListThroughCache == CachedMachines   \* mutant
UncachedList == mach

\* Mutant: the finalizer travels with the patch at the end.
ReconcileBeforeFinalizer ==
    /\ pc = "idle"
    /\ CachedCluster.exists
    /\ before' = CachedCluster
    /\ cur' = [CachedCluster EXCEPT !.fin = TRUE]
    /\ pc' = IF CachedCluster.del THEN "delete" ELSE "decide"
    /\ plane' = UncachedList
    /\ UNCHANGED <<worldVars, todo, target, checked, passed>>

Reconcile ==
    /\ pc = "idle"
    /\ CachedCluster.exists
    /\ before' = CachedCluster
    /\ IF ~CachedCluster.fin
       THEN /\ cur' = [CachedCluster EXCEPT !.fin = TRUE]
            /\ pc' = "addFinalizer"
            /\ plane' = NoMachines
       ELSE /\ cur' = CachedCluster
            /\ pc' = IF CachedCluster.del THEN "delete" ELSE "decide"
            /\ plane' = UncachedList
    /\ UNCHANGED <<worldVars, todo, target, checked, passed>>

\* A merge patch of the patch helper: only what differs from the object that
\* was read is written, on top of whatever the server holds by now.
MergeAsUpdate(server, old, new) == new   \* mutant
Merge(server, old, new) == IF new # old THEN new ELSE server

\* patchHelper.Patch writes the conditions, the rest of the object and the rest
\* of the status in a call each.
ConditionsPatched(e) ==
    [e EXCEPT
        !.specUpToDate = Merge(@, before.specUpToDate, cur.specUpToDate),
        !.certs = Merge(@, before.certs, cur.certs),
        !.noOutdated = Merge(@, before.noOutdated, cur.noOutdated),
        !.initCond = Merge(@, before.initCond, cur.initCond)]

ObjectPatched(e) ==
    [e EXCEPT
        !.fin = Merge(@, before.fin, cur.fin),
        !.cpDone = Merge(@, before.cpDone, cur.cpDone)]

StatusPatched(e) ==
    [e EXCEPT
        !.ready = Merge(@, before.ready, cur.ready),
        !.creationComplete = Merge(@, before.creationComplete, cur.creationComplete),
        !.endpoints = Merge(@, before.endpoints, cur.endpoints)]

\* The API server drops the object with its last finalizer.
Finalized(e) == IF e.del /\ ~e.fin THEN [e EXCEPT !.exists = FALSE] ELSE e

\* Patching an object that is gone fails; so may any call.
PatchCall(patched) ==
    \/ ec.exists /\ ec' = patched
    \/ (Faults \/ ~ec.exists) /\ UNCHANGED ec

\* The finalizer is patched on its own and the reconcile ends.
AddFinalizer ==
    /\ pc = "addFinalizer"
    /\ PatchCall(Finalized(ObjectPatched(ec))) /\ Return
    /\ UNCHANGED <<cache, mach, mcache, members, failed, secret, released, passed>>

-----------------------------------------------------------------------------
(* reconcile: what to do with the listed machines *)

\* The listing goes out of scope when the deferred part begins.
PlaneAt(next) == plane' = IF next = "check" THEN NoMachines ELSE plane

Continue(next, e) ==
    /\ pc' = next
    /\ cur' = e
    /\ PlaneAt(next)
    /\ UNCHANGED <<worldVars, before, checked>>

Owned == OwnedMachines(plane)
All == EtcdClusterMachines(plane)
NeedRollout == MachinesNeedingRollout(plane, cur.ver)
Newest == NewestUpToDateMachine(plane, cur.ver)

\* HasNoOutdatedMembers follows from the ownership of the listed machines;
\* without disowned machines the control plane's annotation is consumed.
NoteOutdated(e) ==
    IF Owned # All THEN [e EXCEPT !.noOutdated = "False"]
    ELSE [e EXCEPT !.cpDone = FALSE,
                   !.noOutdated = IF @ = "False" THEN "True" ELSE @]

\* An error before the decision: the template reference, the listing or one
\* of the two EtcdPlanes, the second after NoteOutdated.
ReconcileFails ==
    /\ pc = "decide" /\ Faults
    /\ \E e \in {cur, NoteOutdated(cur)} : Continue("check", e)
    /\ UNCHANGED <<todo, target, passed>>

\* Mutant: does not wait for the control plane.
RemoveOutdatedAtOnce ==
    /\ pc = "decide"
    /\ Owned # All
    /\ Continue("remove", NoteOutdated(cur))
    /\ todo' = All \ Owned
    /\ UNCHANGED <<target, passed>>

\* The control plane upgrade is over: remove every disowned machine.
RemoveOutdatedMembers ==
    /\ pc = "decide"
    /\ Owned # All /\ cur.cpDone
    /\ Continue("remove", NoteOutdated(cur))
    /\ todo' = All \ Owned
    /\ UNCHANGED <<target, passed>>

NoRemoval == pc = "decide" /\ (Owned = All \/ ~cur.cpDone)

\* The fail-safe against rolling out machines without end.
MaxReached ==
    Cardinality(All) > Cardinality(OutOfDateMachines(plane, cur.ver)) + cur.replicas

HoldAtMaximum ==
    /\ NoRemoval /\ NeedRollout # {} /\ MaxReached
    /\ Continue("check", [NoteOutdated(cur) EXCEPT !.specUpToDate = "MaxReached"])
    /\ UNCHANGED <<todo, target, passed>>

\* A rollout under way waits for its newest machine.
RolloutUnderWay == SpecOutOfDate(cur) /\ UpToDateMachines(plane, cur.ver) # {}
RolloutGoesOn == NoRemoval /\ NeedRollout # {} /\ ~MaxReached /\ RolloutUnderWay

\* Younger than minEtcdMemberReadySeconds (time is not modelled: it may be),
\* or still without an address.
RolloutWaits ==
    /\ RolloutGoesOn
    /\ Continue("check", NoteOutdated(cur))
    /\ UNCHANGED <<todo, target, passed>>

RolloutChecksNewest ==
    /\ RolloutGoesOn
    /\ plane[Newest].boot # "new"
    /\ Continue("gate", NoteOutdated(cur))
    /\ UNCHANGED <<todo, target, passed>>

MarkRolling(e) == [e EXCEPT !.specUpToDate = "Rolling", !.certs = "False"]

\* Disowning comes first, except for a single replica.
UpgradeScalesUp ==
    IF cur.replicas = 1 THEN Cardinality(Owned) = 1
    ELSE Cardinality(Owned) < cur.replicas

upgradeEtcdCluster(e) ==
    /\ UNCHANGED todo
    /\ \/ /\ UpgradeScalesUp
          /\ Continue("create", MarkRolling(e))
          /\ UNCHANGED target
       \/ /\ ~UpgradeScalesUp
          /\ Continue("disown", MarkRolling(e))
          /\ target' \in selectMachineForScaleDown(plane, NeedRollout)

RolloutStarts ==
    /\ NoRemoval /\ NeedRollout # {} /\ ~MaxReached /\ ~RolloutUnderWay
    /\ upgradeEtcdCluster(NoteOutdated(cur))
    /\ UNCHANGED passed

-----------------------------------------------------------------------------
(* The health check of the newest machine *)

GatePasses ==
    /\ pc = "gate"
    /\ \E a \in Probe(Newest) :
        /\ ~HealthCheckError(a)
        /\ passed' = passed \cup {m \in {Newest} : a = "ok"}
    /\ upgradeEtcdCluster(cur)

GateFails ==
    /\ pc = "gate"
    /\ \E a \in Probe(Newest) : HealthCheckError(a)
    /\ Continue("check", cur)
    /\ UNCHANGED <<todo, target, passed>>

-----------------------------------------------------------------------------
(* No machine needs a rollout: initialise, scale, or nothing *)

NoRollout == NoRemoval /\ NeedRollout = {}

\* Mutant: only the hold at the maximum is marked complete.
SettledByReason == [NoteOutdated(cur) EXCEPT
                !.specUpToDate = IF @ = "MaxReached" THEN "True" ELSE @]

\* The rollout is marked complete if one was ever marked.
Settled == [NoteOutdated(cur) EXCEPT
                !.specUpToDate = IF @ = "Unknown" THEN @ ELSE "True"]

\* Client certificates are renewed after a rollout.
SettledAndRenewed == [Settled EXCEPT !.certs = IF @ = "False" THEN "True" ELSE @]

CertRenewalFails ==
    /\ NoRollout /\ Faults /\ cur.certs = "False"
    /\ Continue("check", Settled)
    /\ UNCHANGED <<todo, target, passed>>

\* intializeEtcdCluster: certificates, then the first machine.
InitializeCluster ==
    /\ NoRollout /\ Owned = {}
    /\ LET e == [SettledAndRenewed EXCEPT !.initCond = "False"] IN
       \/ Continue("create", [e EXCEPT !.certs = "True"])
       \/ Faults /\ Continue("check", e)
    /\ UNCHANGED <<todo, target, passed>>

AwaitInitialization ==
    /\ NoRollout /\ Owned # {} /\ cur.initCond = "False"
    /\ Continue("check", [SettledAndRenewed EXCEPT
                            !.initCond = IF cur.initialized THEN "True" ELSE @])
    /\ UNCHANGED <<todo, target, passed>>

Sized == NoRollout /\ Owned # {} /\ cur.initCond # "False"

\* Mutant: one machine too many.
ScaleUpOneMore ==
    /\ Sized /\ Cardinality(Owned) <= cur.replicas
    /\ Continue("create", SettledAndRenewed)
    /\ UNCHANGED <<todo, target, passed>>

ScaleUp ==
    /\ Sized /\ Cardinality(Owned) < cur.replicas
    /\ Continue("create", SettledAndRenewed)
    /\ UNCHANGED <<todo, target, passed>>

ScaleDown ==
    /\ Sized /\ Cardinality(Owned) > cur.replicas
    /\ Continue("remove", SettledAndRenewed)
    /\ \E m \in selectMachineForScaleDown(plane, {}) : todo' = {m}
    /\ UNCHANGED <<target, passed>>

NothingToDo ==
    /\ Sized /\ Cardinality(Owned) = cur.replicas
    /\ Continue("check", SettledAndRenewed)
    /\ UNCHANGED <<todo, target, passed>>

-----------------------------------------------------------------------------
(* Creating and disowning a machine *)

Step(next) ==
    /\ pc' = next
    /\ PlaneAt(next)
    /\ UNCHANGED <<before, cur, checked, passed>>

FreeIds == {m \in Ids : mach[m].st = "none"}

\* cloneConfigsAndGenerateMachine.  The infrastructure and bootstrap objects
\* created before the machine are not modelled.
CreateMachine ==
    /\ pc = "create" /\ FreeIds # {}
    /\ \E fd \in NextFailureDomainForScaleUp(plane, cur.ver) :
        mach' = [mach EXCEPT ![Min(FreeIds)] =
                    [Unborn EXCEPT !.st = "live", !.owned = TRUE,
                                   !.ver = cur.ver, !.fd = fd]]
    /\ Step("check")
    /\ UNCHANGED <<ec, cache, mcache, members, failed, secret, released, todo, target>>

\* The bound MaxMachines shows as a creation that fails.
CreateFails ==
    /\ pc = "create" /\ (Faults \/ FreeIds = {})
    /\ Step("check")
    /\ UNCHANGED <<worldVars, todo, target>>

\* Client.Update of an object read earlier: the API server refuses it when
\* the object has changed in between or is gone.  It does not write the status,
\* and etcd starts on a machine without a change of its object.
Written(m, old) == [old[m] EXCEPT !.boot = mach[m].boot]
UnchangedIfListed(m, old) == m \in EtcdClusterMachines(mach)   \* mutant
Unchanged(m, old) ==
    /\ m \in EtcdClusterMachines(mach)
    /\ Written(m, old) = mach[m]
    /\ old[m].boot = "new" <=> mach[m].boot = "new"

\* removeFromListOfOwnedMachines
Disown ==
    /\ pc = "disown"
    /\ Unchanged(target, plane)
    /\ mach' = [mach EXCEPT ![target] = [Written(target, plane) EXCEPT !.owned = FALSE]]
    /\ Step("check") /\ target' = 0
    /\ UNCHANGED <<ec, cache, mcache, members, failed, secret, released, todo>>

DisownFails ==
    /\ pc = "disown" /\ (Faults \/ ~Unchanged(target, plane))
    /\ Step("check") /\ target' = 0
    /\ UNCHANGED <<worldVars, todo>>

-----------------------------------------------------------------------------
(* removeEtcdMachine, for each machine of todo *)

\* The etcd client connects to the endpoints of the status as it was read.
\* The member is looked up under the address the machine was listed with.
IsMember(m) == m \in members /\ plane[m].boot # "new"

\* Mutant: forgets to let go of m.
NextRemovalKeepsTarget(m) ==
    /\ todo' = todo \ {m}
    /\ target' = target
    /\ Step(IF todo = {m} THEN "check" ELSE "remove")

\* Done with m; the next machine, or the deferred part.
NextRemoval(m) ==
    /\ todo' = todo \ {m}
    /\ target' = 0
    /\ Step(IF todo = {m} THEN "check" ELSE "remove")

MemberList ==
    /\ pc = "remove" /\ EtcdReachable(cur.endpoints)
    /\ \E m \in todo :
        \/ /\ IsMember(m) /\ Cardinality(members) > 1
           /\ target' = m /\ Step("memberRemove") /\ UNCHANGED todo
        \/ /\ IsMember(m) /\ Cardinality(members) <= 1
           /\ NextRemoval(m)
        \/ /\ ~IsMember(m)
           /\ target' = m /\ Step("deleteMachine") /\ UNCHANGED todo
    /\ UNCHANGED worldVars

\* An error ends the reconcile: the remaining machines wait for the next one.
RemovalFails ==
    /\ \/ pc \in {"remove", "memberRemove", "deleteMachine"} /\ Faults
       \/ pc = "remove" /\ ~EtcdReachable(cur.endpoints)
       \/ pc = "memberRemove" /\ ~MemberRemoveSucceeds(target, cur.endpoints)
    /\ todo' = {} /\ target' = 0
    /\ Step("check")
    /\ UNCHANGED worldVars

MemberRemove ==
    /\ pc = "memberRemove" /\ MemberRemoveSucceeds(target, cur.endpoints)
    /\ members' = members \ {target}
    /\ Step("deleteMachine")
    /\ UNCHANGED <<ec, cache, mach, mcache, failed, secret, released, todo, target>>

DeleteMachine ==
    /\ pc = "deleteMachine"
    /\ mach' = Deleted(target)
    /\ NextRemoval(target)
    /\ UNCHANGED <<ec, cache, mcache, members, failed, secret, released>>

-----------------------------------------------------------------------------
(* reconcileDelete *)

\* Mutant: does not wait for the machines being deleted.
ReconcileDeleteEarly ==
    /\ pc = "delete"
    /\ LET live == {m \in All : ~HasDeletionTimestamp(plane, m)} IN
       \/ /\ live = {}
          /\ Continue("check", [cur EXCEPT !.fin = FALSE]) /\ UNCHANGED todo
       \/ /\ live # {}
          /\ Continue("deleteAll", cur)
          /\ todo' = live
    /\ UNCHANGED <<target, passed>>

\* Mutant: overlooks the disowned machines.
ReconcileDeleteOwned ==
    /\ pc = "delete"
    /\ LET live == {m \in Owned : ~HasDeletionTimestamp(plane, m)} IN
       \/ /\ All = {}
          /\ Continue("check", [cur EXCEPT !.fin = FALSE]) /\ UNCHANGED todo
       \/ /\ All # {}
          /\ Continue(IF live = {} THEN "check" ELSE "deleteAll", cur)
          /\ todo' = live
    /\ UNCHANGED <<target, passed>>

\* Listed no machine: the finalizer goes.  Otherwise delete what is not being
\* deleted yet, disowned machines included.
ReconcileDelete ==
    /\ pc = "delete"
    /\ LET live == {m \in All : ~HasDeletionTimestamp(plane, m)} IN
       \/ /\ Faults
          /\ Continue("check", cur) /\ UNCHANGED todo
       \/ /\ All = {}
          /\ Continue("check", [cur EXCEPT !.fin = FALSE]) /\ UNCHANGED todo
       \/ /\ All # {}
          /\ Continue(IF live = {} THEN "check" ELSE "deleteAll", cur)
          /\ todo' = live
    /\ UNCHANGED <<target, passed>>

\* A failed delete is collected, and the loop goes on.
DeleteEach ==
    /\ pc = "deleteAll"
    /\ \E m \in todo :
        /\ \/ mach' = Deleted(m)
           \/ Faults /\ UNCHANGED mach
        /\ todo' = todo \ {m}
        /\ Step(IF todo = {m} THEN "check" ELSE "deleteAll")
    /\ UNCHANGED <<ec, cache, mcache, members, failed, secret, released, target>>

-----------------------------------------------------------------------------
(* The deferred part: health of the owned machines, status, patch *)

\* getCurrentOwnedMachines bypasses the cache only during a rollout.
CurrentMachines == IF SpecOutOfDate(cur) THEN mach ELSE CachedMachines

Healthy(a) == a \in Answers /\ ~HealthCheckError(a)
Listening(a) == a \in Answers \ {"noport"}

\* updateMachinesEtcdReadyLabel: every label is an Update of the machine as it
\* was listed; the first one that fails ends it, in map order.
LabelMachines(listed, unlabelled) ==
    \E done \in SUBSET {m \in unlabelled : Unchanged(m, listed)} :
        /\ done = unlabelled \/ Faults \/ \E m \in unlabelled : ~Unchanged(m, listed)
        /\ mach' = [m \in Ids |->
                        IF m \in done THEN [Written(m, listed) EXCEPT !.label = TRUE]
                        ELSE mach[m]]

OwnedWithAddress == {m \in OwnedMachines(CurrentMachines) : CurrentMachines[m].boot # "new"}

\* checkOwnedMachines, then the labels.
CheckOwnedMachines ==
    /\ pc = "check"
    /\ \E answer \in AnswersOf(OwnedWithAddress) :
        /\ checked' = [m \in Ids |->
                        IF m \in OwnedWithAddress THEN answer[m]
                        ELSE IF m \in OwnedMachines(CurrentMachines) THEN "noaddr"
                        ELSE "none"]
        /\ LET healthy == {m \in OwnedWithAddress : Healthy(answer[m])} IN
           /\ passed' = passed \cup {m \in healthy : answer[m] = "ok"}
           /\ LabelMachines(CurrentMachines, {m \in healthy : ~CurrentMachines[m].label})
    /\ pc' = "status"
    /\ UNCHANGED <<ec, cache, mcache, members, failed, secret, released, before, cur, plane, todo, target>>

\* The listing fails: Reconcile returns without a patch.
CheckFails ==
    /\ pc = "check" /\ Faults
    /\ Return
    /\ UNCHANGED <<worldVars, passed>>

OwnedNow == {m \in Ids : checked[m] # "none"}
ReadyReplicas == Cardinality({m \in Ids : Healthy(checked[m])})
CurrEndpoints == {m \in Ids : Listening(checked[m])}

\* During a rollout Ready is forced to false, whatever updateStatus found.
ForceNotReady(e) == IF e.specUpToDate = "Rolling" THEN [e EXCEPT !.ready = FALSE] ELSE e

ToPatch(e) ==
    /\ pc' = "patch"
    /\ cur' = ForceNotReady(e)
    /\ checked' = NotChecked
    /\ UNCHANGED <<ec, cache, mach, mcache, members, failed, released,
                   before, plane, todo, target, passed>>

StatusDeleting ==
    /\ pc = "status" /\ cur.del
    /\ ToPatch(cur) /\ UNCHANGED secret

StatusResizing ==
    /\ pc = "status" /\ ~cur.del
    /\ ReadyReplicas # cur.replicas
    /\ ToPatch([cur EXCEPT !.ready = FALSE]) /\ UNCHANGED secret

\* The first unhealthy machine in map order decides: not listening leaves
\* Ready as it was.
StatusUnhealthy ==
    /\ pc = "status" /\ ~cur.del /\ ReadyReplicas = cur.replicas
    /\ \E m \in OwnedNow :
        /\ ~Healthy(checked[m])
        /\ ToPatch([cur EXCEPT !.ready = IF Listening(checked[m]) THEN FALSE ELSE @])
    /\ UNCHANGED secret

\* Mutant: enough healthy machines make up for one that is not.
EnoughHealthy == pc = "status" /\ ~cur.del /\ ReadyReplicas = cur.replicas

AllHealthy ==
    /\ pc = "status" /\ ~cur.del /\ ReadyReplicas = cur.replicas
    /\ \A m \in OwnedNow : Healthy(checked[m])

StatusReady ==
    /\ AllHealthy
    /\ cur.endpoints = CurrEndpoints
    /\ ToPatch([cur EXCEPT !.ready = TRUE, !.creationComplete = TRUE])
    /\ UNCHANGED secret

\* Mutant: the secret gets the endpoints of the status before the change.
StatusOldEndpoints ==
    /\ AllHealthy
    /\ cur.endpoints # CurrEndpoints
    /\ cur.initialized
    /\ ToPatch([cur EXCEPT !.ready = TRUE, !.endpoints = CurrEndpoints,
                           !.creationComplete = TRUE])
    /\ secret' = cur.endpoints

\* New endpoints go to the status first, then to the secret, whose name is
\* known once the cluster is initialized.
StatusNewEndpoints ==
    /\ AllHealthy
    /\ cur.endpoints # CurrEndpoints
    /\ LET e == [cur EXCEPT !.ready = TRUE, !.endpoints = CurrEndpoints] IN
       \/ /\ cur.initialized
          /\ ToPatch([e EXCEPT !.creationComplete = TRUE])
          /\ secret' = CurrEndpoints
       \/ /\ Faults \/ ~cur.initialized
          /\ ToPatch(e)
          /\ UNCHANGED secret

\* The patch at the end.  Its calls go on whether or not the one before failed,
\* and what a call has dealt with is no difference any more.  The conditions are
\* applied to a copy read through the cache, under its resource version: after
\* a few attempts on a copy that is old the helper gives up.
PatchConditions ==
    /\ pc = "patch"
    /\ \/ CachedCluster = ec /\ PatchCall(ConditionsPatched(ec))
       \/ CachedCluster # ec /\ UNCHANGED ec
    /\ before' = ConditionsPatched(before)
    /\ pc' = "patchObject"
    /\ UNCHANGED <<cache, mach, mcache, members, failed, secret, released,
                   cur, plane, todo, target, checked, passed>>

PatchObject ==
    /\ pc = "patchObject"
    /\ PatchCall(Finalized(ObjectPatched(ec)))
    /\ before' = ObjectPatched(before)
    /\ pc' = "patchStatus"
    /\ UNCHANGED <<cache, mach, mcache, members, failed, secret, released,
                   cur, plane, todo, target, checked, passed>>

PatchStatus ==
    /\ pc = "patchStatus"
    /\ PatchCall(StatusPatched(ec)) /\ Return
    /\ UNCHANGED <<cache, mach, mcache, members, failed, secret, released, passed>>

PatchEtcdCluster == PatchConditions \/ PatchObject \/ PatchStatus

-----------------------------------------------------------------------------
\* The controller is killed: the reconcile is lost where it stands, and the
\* new process lists everything afresh.
ProcessLost ==
    /\ Return
    /\ cache' = IF StaleCluster THEN ec ELSE cache
    /\ mcache' = IF StaleMachines THEN mach ELSE mcache
    /\ UNCHANGED <<ec, mach, members, failed, secret, released, passed>>

Restart == Crashes /\ pc # "idle" /\ ProcessLost

Decide ==
    \/ ReconcileFails \/ RemoveOutdatedMembers
    \/ HoldAtMaximum \/ RolloutWaits \/ RolloutChecksNewest \/ RolloutStarts
    \/ GatePasses \/ GateFails
    \/ CertRenewalFails \/ InitializeCluster \/ AwaitInitialization
    \/ ScaleUp \/ ScaleDown \/ NothingToDo

Act ==
    \/ CreateMachine \/ CreateFails \/ Disown \/ DisownFails
    \/ MemberList \/ MemberRemove \/ DeleteMachine \/ RemovalFails
    \/ ReconcileDelete \/ DeleteEach

Report ==
    \/ CheckOwnedMachines \/ CheckFails
    \/ StatusDeleting \/ StatusResizing \/ StatusUnhealthy
    \/ StatusReady \/ StatusNewEndpoints \/ PatchEtcdCluster

Working == Reconcile \/ AddFinalizer \/ Decide \/ Act \/ Report
ReconcilerNext == Working \/ Restart

WorldNext == /\ InfraNext \/ UserNext \/ SyncCluster \/ SyncMachines
             /\ UNCHANGED recVars

Init == WorldInit /\ RecInit
Next == ReconcilerNext \/ WorldNext
Spec == Init /\ [][Next]_vars

(***************************************************************************)
(* Fairness.  The work queue hands the object out again and again (watch   *)
(* events, requeues and the periodic resync), a reconcile that is running  *)
(* makes its next call, the minimum age of the newest machine passes, and  *)
(* the other controllers do their part.                                    *)
(***************************************************************************)
Fairness ==
    /\ WF_vars(Reconcile)
    /\ WF_vars(AddFinalizer \/ Decide \/ Act \/ Report)
    /\ SF_vars(RolloutChecksNewest)
    /\ WF_vars((SyncCluster \/ SyncMachines) /\ UNCHANGED recVars)
    /\ WF_vars(CompleteControlPlaneUpgrade /\ UNCHANGED recVars)
    /\ \A m \in Ids :
        /\ WF_vars(AssignAddress(m) /\ UNCHANGED recVars)
        /\ WF_vars((InitMember(m) \/ JoinMember(m)) /\ UNCHANGED recVars)
        /\ WF_vars(FinishMachineDeletion(m) /\ UNCHANGED recVars)

FairSpec == Spec /\ Fairness

-----------------------------------------------------------------------------
(* Types and control.  Besides the types: the reconcile holds a machine to   *)
(* disown, remove or delete exactly while it is about to do so, it leaves    *)
(* nothing in its work list when it moves on to the deferred part, and at    *)
(* the gate there is a newest machine to check.                              *)
TypeOK ==
    /\ WorldTypeOK
    /\ pc \in PcType
    /\ before \in ClusterType /\ cur \in ClusterType
    /\ plane \in [Ids -> MachineType]
    /\ todo \subseteq Ids /\ target \in Ids \cup {0}
    /\ checked \in [Ids -> Answers \cup {"none", "noaddr"}]
    /\ passed \subseteq Ids
    /\ pc = "gate" => UpToDateMachines(plane, cur.ver) # {}
    /\ target # 0 <=> pc \in {"disown", "memberRemove", "deleteMachine"}
    /\ todo # {} <=> pc \in {"remove", "memberRemove", "deleteMachine", "deleteAll"}

\* Machines never outlive the EtcdadmCluster: when the API server drops the
\* object, no machine of the cluster is left, not even one that a rollout
\* disowned, whatever the finalizer, a deletion in the middle of a reconcile,
\* a stale cache and a crash do to each other (Reconcile, reconcileDelete).
NoOrphanMachines == ~ec.exists => EtcdClusterMachines(mach) = {}

(***************************************************************************)
(* Why: the inductive invariant behind NoOrphanMachines.  The finalizer    *)
(* holds the object while there are machines or a reconcile that may       *)
(* create one;  a copy of the object that still asks for machines is a     *)
(* promise that the object is there;  and whoever is about to take the     *)
(* finalizer away has seen that no machine is left, while the deletion is  *)
(* visible to every later reconcile.                                       *)
(***************************************************************************)
Held == ec.exists /\ ec.fin
Reporting == {"check", "status", "patch", "patchObject", "patchStatus"}

FinalizerInv ==
    /\ EtcdClusterMachines(mach) # {} => Held
    /\ pc \in {"decide", "gate", "create"} => Held
    /\ CachedCluster.exists /\ CachedCluster.fin /\ ~CachedCluster.del => Held
    /\ CachedCluster.del => ec.del
    /\ pc # "idle" /\ before.del => CachedCluster.del
    /\ pc = "delete" => before.del /\ EtcdClusterMachines(mach) \subseteq All
    /\ pc # "idle" /\ ~cur.fin =>
            /\ pc \in Reporting
            /\ before.del /\ EtcdClusterMachines(mach) = {}

\* The cluster never owns more machines than the largest size that was asked
\* for, plus the one extra machine of a single-replica rollout: the decisions
\* to create are never taken twice on the same listing (reconcile,
\* upgradeEtcdCluster).
OwnedBounded ==
    \E size \in Replicas \cup {2} : Cardinality(OwnedMachines(mach)) <= size

\* Why: a decision is taken on a listing of at least the machines that are
\* owned now, and a machine is created only if it was short of the size.
OwnedInv ==
    /\ OwnedBounded
    /\ pc \in {"decide", "gate", "create"} => OwnedMachines(mach) \subseteq Owned
    /\ pc = "create" => \E size \in Replicas \cup {2} : Cardinality(Owned) < size

(***************************************************************************)
(* The reconciler, as everything around it moves, implements the abstract  *)
(* life of a cluster and its machines.                                     *)
(***************************************************************************)
Life(m) == IF mach[m].st # "live" THEN mach[m].st
           ELSE IF mach[m].owned THEN "owned" ELSE "disowned"

LifeOf == [m \in Ids |-> Life(m)]

Phase == IF ~ec.exists THEN "gone" ELSE IF ec.del THEN "deleting" ELSE "present"

Lifecycle == INSTANCE MachineLifecycle
                WITH Machine <- Ids, Sizes <- Replicas,
                     cluster <- Phase, life <- LifeOf

\* Every step of the code creates, disowns, deletes or finishes one machine, or
\* asks for or completes the deletion of the cluster, as MachineLifecycle has
\* it, or changes nothing it speaks of; in particular no write computed from an
\* old object or listing takes a machine back to an earlier state of its life.
ImplementsLifecycle == Lifecycle!LifecycleSpec

\* A step gives no owner reference back.
StaysDisowned ==
    \A m \in EtcdClusterMachines(mach) : ~mach[m].owned => ~mach'[m].owned

\* A machine that was disowned never becomes owned again: neither a label
\* update computed from a stale listing nor a second disowning restores the
\* owner reference (removeFromListOfOwnedMachines, updateMachinesEtcdReadyLabel).
OwnershipNeverReturns == [][StaysDisowned]_vars

\* A disowned machine is deleted by a reconcile only once the control plane
\* that was using it has been upgraded (reconcile, the loop over
\* outdatedMachines).
DisownedKept ==
    [][DeleteMachine /\ mach[target].st = "live" /\ ~mach[target].owned
        => target \in released]_vars

\* A rollout disowns the next machine only when its newest up-to-date machine
\* has passed a health check (reconcile, the gate before upgradeEtcdCluster).
Fresh == {m \in Owned : plane[m].ver = cur.ver}
RolloutGated == [][Disown /\ Fresh # {} => Max(Fresh) \in passed]_vars

(***************************************************************************)
(* Why, as long as no patch is lost, no copy of the object is old, and the *)
(* size stays as it is: a cluster that owns machines of two versions is    *)
(* marked as rolling out, in the object between two reconciles and in the  *)
(* copy of a reconcile; so a rollout that finds no mark finds no machine   *)
(* of the new version.  The listing is right about the owned machines      *)
(* while a reconcile works on it, and an owned machine is never deleted,   *)
(* because there are more of them than wanted only in a rollout.           *)
(***************************************************************************)
Mixed(M) == \E a, b \in OwnedMachines(M) : M[a].ver # M[b].ver

OnListing == {"decide", "gate", "create", "disown",
              "remove", "memberRemove", "deleteMachine"}

PatientWorld ==
    /\ ~StaleCluster /\ ~Faults /\ ~Crashes
    /\ "non200" \notin MemberAnswers
    /\ UserOps \subseteq {"upgrade", "controlplane", "annotate"}

SizeInv ==
    /\ ec.exists /\ ~ec.del /\ ec.replicas > 0
    /\ \A m \in OwnedMachines(mach) : mach[m].st = "live"
    /\ LET n == Cardinality(OwnedMachines(mach)) IN
       n <= ec.replicas \/ (Mixed(mach) /\ n <= ec.replicas + 1)

MarkInv ==
    IF pc = "idle" THEN Mixed(mach) => SpecOutOfDate(ec)
    ELSE /\ pc \notin {"delete", "deleteAll"}
         /\ before.specUpToDate = ec.specUpToDate
         /\ cur.replicas = ec.replicas
         /\ Mixed(mach) => SpecOutOfDate(cur)

ListingInv ==
    pc \in OnListing =>
        /\ Owned = OwnedMachines(mach)
        /\ \A m \in Owned : plane[m].ver = mach[m].ver /\ plane[m].st = "live"

WorkInv ==
    /\ pc = "gate" => NeedRollout # {}
    /\ pc = "create" =>
        /\ SpecOutOfDate(cur) \/ Owned = Fresh
        /\ \/ Cardinality(Owned) < cur.replicas
           \/ cur.replicas = 1 /\ Cardinality(Owned) = 1 /\ Owned # Fresh
    /\ pc = "disown" /\ Fresh # {} => Max(Fresh) \in passed
    /\ pc \in {"remove", "memberRemove", "deleteMachine"} =>
        todo \cap Owned = {} /\ target \notin Owned

GatedInv == SizeInv /\ MarkInv /\ ListingInv /\ WorkInv

\* When updateStatus finds its endpoints unchanged and skips the secret, the
\* secret that joining machines read does hold those endpoints.
EndpointsPublished == [][StatusReady => secret = CurrEndpoints]_vars

(***************************************************************************)
(* Why, as long as no call is lost and the spec stays as it is: the secret *)
(* follows the endpoints except in a reconcile that does not know the name *)
(* of the secret.  That reconcile began before the first member had        *)
(* started; until it is over there is one machine and no other, because    *)
(* InitializedCondition is False, and the secret holds its address.        *)
(***************************************************************************)
ConstantSpec ==
    /\ ~StaleCluster /\ ~Faults /\ ~Crashes
    /\ UserOps \subseteq {"scaleUp", "scaleDown", "annotate"}

Young == ~ec.initialized \/ (pc # "idle" /\ ~cur.initialized)

\* Nothing is disowned or deleted by a user, and all machines are alike.
UniformInv ==
    /\ ec.exists /\ ~ec.del /\ ec.replicas > 0
    /\ \A m \in EtcdClusterMachines(mach) : mach[m].owned /\ mach[m].ver = ec.ver
    /\ pc \notin {"gate", "disown", "delete", "deleteAll"}
    /\ pc # "idle" =>
        /\ cur.ver = ec.ver /\ cur.replicas > 0
        /\ ~cur.del
        /\ cur.initialized => ec.initialized
        /\ before.endpoints = ec.endpoints /\ before.initCond = ec.initCond
    /\ pc \in {"decide", "create"} =>
        \A m \in All : plane[m].owned /\ plane[m].ver = ec.ver

YoungInv ==
    Young =>
        /\ \A a, b \in EtcdClusterMachines(mach) : a = b
        /\ \A m \in EtcdClusterMachines(mach) :
                mach[m].st = "live" /\ (ec.initialized => mach[m].boot = "joined")
        /\ ec.initialized => EtcdClusterMachines(mach) # {}
        /\ EtcdClusterMachines(mach) # {} =>
                (IF pc = "idle" THEN ec.initCond ELSE cur.initCond) = "False"
        /\ pc = "decide" => All = EtcdClusterMachines(mach)
        /\ pc = "create" => EtcdClusterMachines(mach) = {} /\ cur.initCond = "False"
        /\ pc \notin {"remove", "memberRemove", "deleteMachine"}
        /\ members = secret /\ members \subseteq EtcdClusterMachines(mach)
        /\ pc = "status" => CurrEndpoints \subseteq members
        /\ ~ec.initialized => members = {} /\ ec.endpoints = {}
        /\ pc # "idle" => cur.endpoints \subseteq members

SecretInv ==
    LET published == IF pc = "idle" THEN ec.endpoints ELSE cur.endpoints IN
    published # {} => secret = published

PublishedInv == UniformInv /\ YoungInv /\ SecretInv

\* A step does not take CreationComplete back.
StaysComplete == ec.creationComplete => ec'.creationComplete

\* CreationComplete, which starts the periodic health checks, never goes back
\* to false, even when the reconcile worked on an old copy of the object.
CreationCompleteStable == [][StaysComplete]_vars
=============================================================================
