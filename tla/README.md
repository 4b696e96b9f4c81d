# A TLA+ development of etcdadm-controller

etcdadm-controller is a Kubernetes controller that creates, scales, upgrades,
repairs and deletes external etcd clusters for EKS Anywhere.  One
`EtcdadmCluster` object describes a cluster; every etcd member runs on a Cluster
API `Machine` that the controller creates and deletes.  This directory models
the controller's own logic in TLA+, checks it with TLC on small instances and
proves part of it with TLAPS for every size.  `PROJECT.json` lists the runs,
the source lines each definition stands for, the hazards, the findings and the
theorems.

## The system

| component | source | state | operations |
|---|---|---|---|
| machine collections | `controllers/etcd_plane.go` | none: functions of a listing | up-to-date and outdated machines, next failure domain, machine to scale down |
| reconciler | `controllers/controller.go`, `scale.go`, `upgrade.go` | the object as read and as modified, the listed machines | finalizer, initialise, scale up and down, roll out, remove outdated members, delete |
| health and status | `controllers/machines.go`, `status.go`, `healthcheck.go` | per reconcile: what each member answered | health check, etcd-ready label, ready replicas, endpoints, join secret |
| machine creation | `controllers/helpers.go` | none | clone infrastructure and bootstrap config, create the machine |
| certificates | `controllers/certs.go` | secrets | CA and client certificates, renewed after a rollout |
| periodic health check | `controllers/periodic_healthcheck.go` | failure counts and removal queue per cluster, in memory | on a timer: probe every member, remove the ones that failed too often while a quorum is left |
| webhook | `api/v1beta1/etcdadmcluster_webhook.go` | none | only odd, positive replica counts |
| conversion, wiring | `api/v1alpha3`, `main.go` | none | field-by-field conversion, flags |

How they interact.  The work queue of controller-runtime calls `Reconcile` for
an object whenever it or one of its machines changes; it never hands one object
to two workers.  `Reconcile` reads the object from the informer cache, decides
at most one step on an *uncached* listing of the machines, takes it, and then,
in a deferred function that runs whatever happened, probes the owned machines,
computes the status and patches what it has changed, in a call for the
conditions, one for the rest of the object and one for the status.  It shares
the objects on the API server with the user, with Cluster API (addresses,
deletion, the init secret and `Status.Initialized`), with the control plane's
controller (the annotation that the control plane has been upgraded) and with
the periodic health check, which runs on a goroutine of its own.  Members join
and leave etcd's member list on their own schedule.

What is hard: every one of these actors may move between two calls of a
reconcile; the cache lags; updates are refused when the object has changed, but
merge patches are not; the controller may be killed between any two calls, and
what it meant to patch is lost, all of it or the later part; an etcd or API call
may fail half way through a sequence; a rollout spans many reconciles and several controllers, and
everything it remembers is in conditions and owner references.

What makes each part correct:

* collections: the choice is always a machine of the cluster, and choices made
  one at a time keep the failure domains balanced;
* reconciler: it never loses a machine or creates machines without bound, never
  takes back a disowning, gives up old members only when the control plane no
  longer uses them and new ones are healthy, and always gets where the user
  wants it;
* status: what it announces (ready, endpoints, the join secret, creation) is
  what it has found, and what is announced as final is final;
* periodic check: it removes members that have failed long enough, one at a
  time, and does not fight with the reconciler; the two together repair the
  cluster.

## The modules

`EtcdPlane` has no variables.  A listing of machines is a function from ids to
machine records (API state, owner reference, spec version, bootstrap progress,
label, annotation, failure domain).  Ids are given in creation order, so
`Oldest()` is `Min`.  Cluster API's tie-breaking in `PickFewest` and `PickMost`
is left open, so the selections are sets.

`EtcdWorld` extends it with what the controller shares: `ec` and `mach` on the
API server, the informer copies `cache` and `mcache`, etcd's `members` and the
machines on which it has `failed`, the join `secret`; and the actions of
everybody else.  `released` is a history variable: the machines that were
disowned when a control plane upgrade was completed.  The webhook's
`validateCommon` guards every size the user tries.  etcd is external: a member
answers while its machine is there and has not failed, joining and removing a
member need a majority, and a removal that would leave etcd without one is
refused (strict reconfiguration, etcd's default).

`Reconciler` adds one reconcile: `pc` is the call it makes next, `before` and
`cur` are the object as read and as modified (the patch writes the difference;
what a call has written is taken over into `before`),
`plane` is the listing, `todo` and `target` the machines it works through,
`checked` the answers of the members, and the history variable `passed` the
machines that have ever answered a health check with 200 and "true".  Each
action is one call to the API server or to etcd with the code around it:

| code | actions |
|---|---|
| `Reconcile` | `Reconcile`, `AddFinalizer` |
| `reconcile` | `ReconcileFails`, `RemoveOutdatedMembers`, `HoldAtMaximum`, `RolloutWaits`, `RolloutChecksNewest`, `RolloutStarts`, `CertRenewalFails`, `InitializeCluster`, `AwaitInitialization`, `ScaleUp`, `ScaleDown`, `NothingToDo` |
| the gate of a rollout | `GatePasses`, `GateFails` |
| `cloneConfigsAndGenerateMachine` | `CreateMachine`, `CreateFails` |
| `removeFromListOfOwnedMachines` | `Disown`, `DisownFails` |
| `removeEtcdMachine` | `MemberList`, `MemberRemove`, `DeleteMachine`, `RemovalFails` |
| `reconcileDelete` | `ReconcileDelete`, `DeleteEach` |
| the deferred function | `CheckOwnedMachines`, `CheckFails`, `StatusDeleting`, `StatusResizing`, `StatusUnhealthy`, `StatusReady`, `StatusNewEndpoints` |
| the patch at its end | `PatchConditions`, `PatchObject`, `PatchStatus` |
| the process | `Restart` |

`MachineLifecycle` is the abstract specification: a cluster that is present,
being deleted or gone, and machines that live once and move one way only, from
owned over disowned to deleted and gone; one is created only while fewer are
owned than somebody asked for.  `Reconciler` instantiates it with `Phase` (the
object and its deletion timestamp) for the cluster and `Life` (API state and
owner reference) for each machine; `ImplementsLifecycle` is the refinement.

`HealthLoop` extends `EtcdWorld` with the periodic health check: `hpc` is the
call a tick makes next, `hec` and `hplane` what it read at its beginning,
`freq` and `toRemove` the two maps that outlive a tick, `htodo` and `htarget`
the entries it still has to go through and the one it removes.  `streak` is a
history variable: how many checks in a row a machine has really failed.

| code | actions |
|---|---|
| `startHealthCheck`, listing and clean-up of `periodicEtcdMembersHealthCheck` | `StartHealthCheck` |
| probes, counts, quorum | `ProbeMembers` |
| the listing before each removal | `Recheck` (`WaitForReplica`, `RemoveUnhealthy`) |
| `removeEtcdMachine` | `HealthMemberList`, `HealthMemberRemove`, `HealthDeleteMachine`, `HealthRemovalFails` |
| `Status().Update` | `HealthStatus` |
| the process | `HealthLost` |

`System` composes the two loops: they share the world, and one restart loses
both.  It adds what the world does to a cluster that has been created: a member
fails and perhaps comes back, a machine is deleted by hand.  `disturbances`
records what has happened, each at most once and `MaxDisturbances` in all.

`MCReconciler` and `MCSystem` add the properties of what eventually happens, of
the spread over failure domains, and the statements of the repository that some
execution refutes.  The theorems are in eight modules.  `ReconcilerProofs` has
the operators of `EtcdPlane` and the types, `ReconcilerSafety` what each group of
actions does and the lifecycle of the object, `LifecycleProofs` the refinement
and the number of machines, `RolloutProofs` the gate of a rollout; on these rest
`SecretProofs` (what the status says), `DisownedProofs` (the end of a rollout),
`BalanceProofs` (failure domains) and `SystemProofs` (the two loops).  A definition marked
"mutant" is a deliberately wrong variant of one near it, used to confirm that
the properties notice such a mistake; nothing else refers to it.

Abstractions, and why they are harmless:

* the `EtcdadmConfigSpec` and the infrastructure template are one version
  number: the code compares them for equality only.  A config or infrastructure
  object that cannot be found makes a machine match in the code; such objects
  always exist in the model;
* an `Update` succeeds exactly when the machine object still has the value it was
  read with.  The code compares resource versions, which differ even when a value
  has returned; machines never return to an earlier value in the model except
  through an unmodelled second writer, so the two agree.  That etcd starts on a
  machine changes no object, so it refuses no `Update`, nor does an `Update`
  undo it (`Written`);
* the patch helper makes its calls for the conditions, the object and the status
  in this order, each on its own even when the one before failed.  It writes the
  conditions onto a copy it reads through the cache, under the resource version
  of that copy, and tries again when it is old; here an old copy makes it give
  up, which is what it does after a few attempts, and a reconcile whose cache has
  caught up meanwhile stands for an attempt that succeeds;
* fields nobody reads (`EtcdClusterResizeCompleted`, `EtcdEndpointsAvailable`,
  the summary, ready replicas, the selector, the in-progress annotation) are
  left out;
* time is left out: the newest machine of a rollout may be older or younger
  than 60 seconds, a requeue may come at any moment;
* the object and the listing of the machines are read in one step.  A longer
  gap between the two is what a lagging cache gives, which is modelled;
* one address per machine, never reused; so the maps of the health check, which
  are keyed by address, are keyed by machine;
* the `endpoints` and `ownedMachines` that the health check keeps per cluster
  are left out: the endpoints only decide when the machines are stored anew, and
  the stored machines are never read;
* the healthcheck-retries annotation does not change during a run.  The counts
  stop growing at the threshold, beyond which the code does not tell them apart;
* all probes of a tick, like those of a reconcile, are one step: each is about
  one machine, and one that changes between two probes might as well have
  changed before the first or after the last.

## Switches and bounds

`MaxMachines` is the number of machines ever created; creation fails beyond it,
which is a legal outcome of the call.  `MaxVersion` bounds the specs the user
applies.  `Replicas` is what the user tries; the webhook lets odd
numbers pass.  `MemberAnswers` is what a
running member may answer: "ok", "non200", "bad" (an error or not "true") or
"noport".  `UserOps` and `UserMode` select what the user does and whether he
waits for the previous change ("serial"), only moves forward, or changes the
spec back and forth at any moment.  `StaleCluster` and `StaleMachines` let the
informer caches lag; `Faults` lets any call fail; `Crashes` lets the process be
killed at any call.  For the system, `RetriesAnnotation` and `Retries` are the
threshold of the health check; `StartCreated` begins with a cluster whose
creation is over, so that the states go into the repair and not into the
creation, which the other runs cover; `Fragile` and `Deletable` say which
machines may fail or be deleted by hand.  The timer of the health check fires at
any moment, also while machines bootstrap; `TimelyBootstrap`, which only `repair`
switches on, is an assumption on time discussed under fairness.

| run | instance | checks |
|---|---|---|
| `lifecycle` | 3 machines, 2 versions, 1 replica; upgrade, control plane, delete, serial; both caches stale, crashes; 1.3M states | `TypeOK`, `NoOrphanMachines`, `OwnedBounded`, `OwnershipNeverReturns`, `DisownedKept`, `CreationCompleteStable`, `ImplementsLifecycle` |
| `rollout` | 5 machines, 2 versions, 2 failure domains, 1 or 3 replicas, answers ok and bad; upgrade, control plane, scale-down at any time; 2.1M states, no deadlock | `BalancedWhenConverged`, `RolloutGated` |
| `convergence` | 6 machines, 2 versions, 1 or 3 replicas; upgrade, control plane, scale-down, delete, serial, with fairness; 45k states | `Converges`, `DeletionCompletes`, `EndpointsPublished` |
| `faults` | 2 machines, 2 versions, 1 replica; every fault and crash, annotation and deletion by hand; 3.0M states | `NoOrphanMachines`, `ReadyMeansHealthy` |
| `repair` | system; 5 machines, 3 replicas created, threshold 2; a member fails, its machine is deleted, a restart, in every order, with fairness; ticks while machines bootstrap, one per machine (`TimelyBootstrap`); 112k states | `SystemTypeOK`, `QueuedHaveFailed`, `Repairs`, `ImplementsLifecycle` |
| `one_at_a_time` | system; 6 machines, 5 replicas created, threshold 1; two members fail and the process restarts; ticks at any moment; 1.4M states | `OneAtATime` |

Why these are enough to see the interesting cases.  A rollout of one replica
creates a machine before it disowns one and a rollout of three disowns first,
so one and three replicas cover both orders; three machines let a rollout of
one replica be followed by the creation of another machine, which is where a
second creation on a stale listing would show; six let a cluster of three be
replaced entirely, and five in two domains be scaled down in the middle of that,
which is where the fail-safe against too many machines holds the rollout.  A
size of two is there for the webhook to refuse.
Three members are the smallest cluster that survives a failure, and five the
smallest in which two members can be in the removal queue of one tick; a spare
machine is the replacement for which the second removal has to wait, and it can
itself be counted, queued and removed while it bootstraps.  A threshold of two
makes a count outlive a tick, be dropped by a restart, and be ended by an answer.
`ReadyMeansHealthy` is about parts of a status that are written, lost and kept
over several reconciles; one replica with a first and a second machine is enough
for endpoints that change, and the theorem covers all sizes.
Two versions are enough to have up-to-date and outdated machines.  In all
runs of this table but `rollout` the user waits for one change to be over before the next; a
spec that changes back and forth at any moment is the subject of
`RolloutIsGated`, a size that does of `SecretFollows`, and both, in one
direction, of `SpreadEvenly`.

The runs that delete the cluster do not check for deadlock: a deleted cluster is
the end.

Fairness (`convergence`): the work queue keeps handing out the object
(`RequeueAfter` 20 s while not ready, watch events, the resync period), a
reconcile that has started makes its next call, the newest machine of a rollout
grows older than 60 seconds, so that the check of it is strongly fair, and the
infrastructure, etcd and the control plane's controller do their work.  Nothing
is assumed of the user.

Fairness (`repair`): the same, and the timer of the health check fires again and
again (`startHealthCheckLoop`), and a tick that has begun goes on.  A member
that failed need not come back.  `Repairs` asks that etcd has its majority for
good in the end, without which neither joining nor removing is possible.  Two
things are assumed besides, and both are needed:

* `TimelyBootstrap`: a machine with an address runs etcd before as many ticks as
  the threshold have found it silent.  Ticks do fire while it bootstraps, and
  count it: with the threshold of `repair` one tick per bootstrap finds it
  silent, which is remembered, counts against the quorum of the same tick, and
  is dropped when it answers.  Without the assumption the health check, which
  spares only machines without an address, may remove a replacement that is
  about to join, and the next one after it, for ever.  Nothing in the code rules
  this out; the interval of 30 seconds and the default of five failures make it
  unlikely.  `one_at_a_time` and `disowned_removed` do without the assumption,
  and so do the theorems about the system;
* the member of a machine that was deleted by hand may stay in the member list:
  both loops start from machines, and no code looks for members without one.

`OneAtATime` is checked without deletions by hand and with a fixed size, and
proved for sizes that grow: between the listing and the deletion somebody else
may otherwise always take a machine away.

## What the checks found

* `gate_crash`: the condition that puts a rollout behind its health check gate
  is stored only after the first new machine has been created.  A crash in
  between, and the next reconcile disowns the old member at once
  (`controller.go:325`).  A lost patch, a lagging copy of the object or a
  machine deleted by hand have the same effect.
* `init_crash`: the `Initialized` condition is stored by one particular patch;
  when that is lost it is never set (`controller.go:383-386`).
* `secret_fault`: the endpoints are stored in the status even when writing them
  to the secret failed, and then never tried again (`status.go:86`).
* `non200_ready`: a response other than 200 counts as healthy, because a nil
  error is wrapped (`healthcheck.go:69`).
* `released_early`: with three replicas, kills between two calls let a disowned
  machine be removed before its control plane has been upgraded.  The first kill
  comes after the first disowning, before the patch that marks the rollout.  The
  next reconcile finds the disowned machine and patches the condition that there
  are outdated members, and the mark of the rollout; the second kill comes before
  the call that takes Ready away.  The control plane is upgraded, in the middle of
  the rollout, because the cluster is Ready and has outdated members; and a
  machine disowned after that is removed with the others
  (`controller.go:223`).  Failing calls in place of the kills do the same, as
  long as a patch of the status is lost that says that the cluster is not Ready.
* `disowned_removed`: the health check says it only touches owned machines, but
  removes one that a rollout has disowned since it was probed, although it lists
  the owned machines again right before (`periodic_healthcheck.go:213`).

Some limits of the code are recorded as hazards and have no run of their own:

* a disowned member is released by the annotation of an *earlier* control plane
  upgrade when upgrades overlap (`DisownedKept` is checked and proved for users
  who wait);
* an invalid retries annotation is logged as "using default retries" and then
  used as 0 or as the negative number it is: the first failed check is enough for
  a removal (`periodic_healthcheck.go:181`).  `QueuedHaveFailed` is proved with
  the threshold that the code uses, whatever the annotation says;
* a machine that joins between the listing of the members and its own deletion
  leaves a dead member behind;
* a spec changed before the first member has started lets a reconcile that read
  the cluster as not initialized replace that member and store the endpoints
  without knowing the secret's name, so that joining machines keep the old
  address (`status.go:90`);
* a machine being deleted still counts as owned.  A scale-down of several
  machines may therefore take one more than it was asked for, if the domains are
  tied and the tie is broken differently the next time (`scale.go:41`; five
  machines in two domains, scaled to three, leave two for a while).  And a size
  that goes down, up and down again while a machine is being deleted leaves the
  domains unbalanced: with three domains, 3 to 1 to 5 to 3 may end as 1, 2 and 0
  machines, and nothing evens that out (`etcd_plane.go:123`).

## What is proved

The proofs use the named assumptions on the constants only: `MaxMachines` and
`MaxVersion` are positive, the failure domains are a finite set of names,
`Replicas` is a finite set of numbers that the webhook does not refuse all of,
and the switches have the values above.  What holds for every combination of
faults, crashes, stale caches and user behaviour is stated of `Spec` or
`SystemSpec` alone.  The others name the world they need as a hypothesis, and
each of these hypotheses leaves out something that refutes the property, or that
the argument cannot deal with, as said below:

| theorem | hypothesis | what is left out |
|---|---|---|
| `RolloutIsGated` | `PatientWorld` | failing calls, crashes, old copies of the object, answers that are not 200, changes of the size, deletions |
| `SecretFollows` | `ConstantSpec` | failing calls, crashes, old copies of the object, changes of the spec, deletion |
| `DisownedWait` | `SerialWorld` | failing calls, crashes beside more than one replica, old copies of the object, a user who does not wait, changes of the size, annotations, deletions by hand |
| `SpreadEvenly` | `SpreadWorld` | old copies of the object, scale-downs, deletions, annotations, specs that go back |
| `InitializationIsRecorded` | `~Faults /\ ~Crashes /\ ~StaleCluster` | failing calls, crashes, old copies of the object |
| `ReadyIsHealthy` | `"non200" \notin MemberAnswers` | answers that are not 200 |
| `OneRemovalAtATime` | `SteadyFleet` | upgrades, scale-downs, deletions |

* `TypeCorrect`: `Spec => []TypeOK`.  `TypeOK` is inductive because it contains
  more than types: at the gate there is a newest machine to probe, and the
  machine in `target` and the list in `todo` exist exactly while the reconcile
  works on them.  The selection lemmas (`LeastElement`, `PickMostOccupied`,
  `SelectsOwned`) show that the machine to remove is a machine of the cluster.
* `MachinesNeverOrphaned`: `Spec => []NoOrphanMachines`.  The invariant alone is
  not inductive: a reconcile that read the object long ago could create a
  machine after it is gone, and one that found no machine could remove the
  finalizer after another was created.  `FinalizerInv` says why neither
  happens: while there are machines, or a reconcile that may create one, the
  server holds the object with its finalizer; every copy that still asks for
  machines is a promise of that; deletion, once visible in the cache, stays
  visible; and whoever is about to remove the finalizer has seen, since the
  deletion, that no machine is left.  The proof has one lemma per group of
  actions that states its effect on exactly these facts.
* `DisownedForGood`: `Spec => OwnershipNeverReturns`, from the optimistic lock.
* `CreationIsFinal`: `Spec => CreationCompleteStable`.  The strengthening is
  `CompleteKept` (the reconcile only ever adds the mark to its copy); with it a
  merge patch computed from an old copy cannot remove the mark.
* `NeverTooMany`: `Spec => []OwnedBounded`.  The strengthening is `OwnedInv`: a
  reconcile that decides holds a listing of at least the machines that are owned
  now, because nobody else creates any, and it creates one only if that listing
  was short of the size (or of two, for a single replica).
* `LifecycleImplemented`: `Spec => ImplementsLifecycle`.  Initial states map to
  initial states (`LifecycleInitial`), and under `TypeOK`, `FinalizerInv` and
  `OwnedInv` every action maps to an abstract step or a stutter
  (`LifecycleStep`, one lemma per kind of abstract step).  `FinalizerInv` is what
  makes the creation, the disowning and the last step of the object legal
  abstract steps.
* `RolloutIsGated`: `PatientWorld /\ Spec => RolloutGated`.  The hypotheses are
  those without which the gate is open: no call fails, nothing crashes, the copy
  of the object is not old, nobody changes the size or deletes, and no member
  answers anything but 200.  The strengthening is `GatedInv`: a cluster that owns
  machines of two versions is marked as rolling out, in the object between two
  reconciles and in the copy during one (`MarkInv`); the listing is right about
  the owned machines while a reconcile works on it (`ListingInv`); none of these
  is being deleted, and there are more than wanted only while there are two
  versions (`SizeInv`).  So a rollout that finds no mark finds no new machine
  that it could have skipped.  The spec may change back and forth at any moment.
* `SecretFollows`: `ConstantSpec /\ Spec => EndpointsPublished`, with any scaling
  at any time, but one spec of the machines and, again, no failing call, crash or
  old copy of the object (the copy of the machines may be old).  The
  secret follows the endpoints in every reconcile but one that read the object
  before the first member had started, which does not know the secret's name.
  `YoungInv` says what holds until that one is over: there is one machine and no
  other, because the `Initialized` condition is false, and the secret holds its
  address.  A spec that changes in this phase breaks it (see above).
* `InitializationIsRecorded`: `~Faults /\ ~Crashes /\ ~StaleCluster /\ Spec =>
  []InitializationRecorded`: nothing but a patch of the conditions that never
  comes loses the condition, be it killed as in `init_crash`, failed, or given up
  because the copy it starts from stays old.  `RecordInv` says where the condition
  is: once a machine has been seen, in a listing, in the cache of the machines,
  which may be old, or in the answers of a health check, the object has it or the
  copy of the running reconcile has it, which will be patched; and a copy that has
  it proves that the object has, or will have by the call for the conditions,
  before the call for the status says that the creation is complete.
* `ReadyIsHealthy`: `"non200" \notin MemberAnswers /\ Spec =>
  []ReadyMeansHealthy`.  The object is Ready only beside the endpoints of a
  cluster of a legal size that have all passed a health check, also where a
  reconcile leaves Ready as it was, and whatever calls of a patch are lost.  It
  says nothing of members that fail later: the status is as old as the last patch.
  `ReadyInv` says the same of every copy of the object: the server's, the cached
  and the two of a reconcile.  Ready and the endpoints are merged separately, each
  if it differs from the object as read, and still stay together, because
  endpoints that are there are never taken back.
* `DisownedWait`: `SerialWorld /\ Spec => DisownedKept`, for every size without
  crashes, and with the process killed at any call where there is one replica.  It
  takes two arguments.  `ReleasedInv`: a reconcile that removes machines has read
  the annotation, and those it found disowned then were released by it.
  `RolloutInv`: the annotation is never there while a machine still has to be
  disowned, because the control plane is upgraded on a ready cluster only, and the
  reconcile that disowns the first machine has taken Ready away by the time a
  later one says that there are outdated machines (`MiddleInv`); and it is gone
  before the user, who waits, starts the next upgrade.  A kill between the calls
  of a patch breaks `MiddleInv`, and with three replicas the property
  (`released_early`); a single replica leaves no second machine to disown, so that
  it is never in the middle of a rollout.  With old copies of the object it is
  model-checked (`lifecycle`, one replica).

  `DealtInv`, on which this, `RolloutIsGated` and `InitializationIsRecorded` rest,
  says how the calls of a patch follow each other: what a call has dealt with is
  no difference between `before` and `cur` any more.
* `SpreadEvenly`: `SpreadWorld /\ Spec => []BalancedWhenConverged`.  The
  strengthening is `BalanceInv`: the machines of the newest spec are spread evenly
  (`EvenInv`); the listing of a reconcile that creates is right about them, or its
  spec is older and there are none (`CopyInv`, `ListedInv`), so the new machine
  keeps them even (`FewestKeepsEven`); and none of them is ever disowned or
  removed, because there are more machines than wanted only in the rollout of a
  single replica (`FleetInv`) and a rollout disowns an outdated one (`TaskInv`).
  A newer spec makes all machines outdated and begins with none.  With
  scale-downs the argument is another one, about sums over the domains of a
  listing that still counts machines in deletion, and the property fails for some
  of them (see above); those of `rollout` are model-checked.
* `SystemTypeCorrect`, `SystemKeepsMachines`, `SystemNeverGoesBack`,
  `SystemImplementsLifecycle`: the same for the two loops together, failing
  members and restarts.  The proof does not repeat the reconciler's: `Outside`
  collects what a step of anybody else does at most (no machine is added, none
  becomes owned, the finalizer and the deletion stay), every step of the health
  check and every disturbance is shown to be `Outside`, and the invariants of
  the reconciler are shown to survive that.
* `OnlyFailedAreQueued`: `SystemSpec => []QueuedHaveFailed`, for every value of
  the annotation.  The strengthening is `StreakInv`: what the loop counts for a
  machine is never more than what it has failed in a row, whatever is dropped,
  kept or lost.

* `OneRemovalAtATime`: `SteadyFleet /\ SystemSpec => OneAtATime`, for any number
  of failing members, any threshold, any scale-up, and every fault, restart and
  stale cache.  Without upgrades and scale-downs the reconciler only adds
  machines (`SteadyInv`: all owned machines are alike and no more than the size,
  so nothing is to be rolled out or removed).  So the machines that the second
  listing of a tick counted are still there when the tick deletes the one it
  holds (`BusyInv`), and it counted as many as the copy of the object wants.

Only model-checked are these properties outside the hypotheses above, on the
instances of the table of runs (`DisownedKept` with old copies of the object and
one replica; `EndpointsPublished` with upgrades;
`BalancedWhenConverged` with scale-downs), and all liveness (`Converges`,
`DeletionCompletes`, `Repairs`), which is out of the prover's reach.  Every inductive invariant was checked with TLC on small instances before
it was proved.

## Not modelled

* The infrastructure object and the bootstrap config that are created before a
  machine: when the machine's creation fails they stay, no code looks at them
  again, and they are collected with the cluster they belong to.  Creation is
  one step that succeeds or fails.
* The contents of certificates and the HTTP client cached with them: the client
  of the first certificate is used for the life of the process, which matters
  when certificates expire, and time is not modelled.
* Conversion between API versions and generated code: field by field, without
  state.  Flags, scheme and start-up.  Test utilities.
* Pausing, and several clusters at once: they share the work queue, and the
  health check goes through them one after the other.

## Plan

1. An abstract specification of a rollout between `MachineLifecycle` and
   `Reconciler`, and its refinement.
2. `DisownedWait` with old copies of the object, with annotated machines, and
   with crashes beside a user or a control plane that notices the rollout by the
   machines and not by Ready.
3. Rollouts beside the health check.  `disowned_removed` checks one with four
   machines and two versions as far as its counterexample; exploring all of such
   an instance takes more than four million states.
