# A formal model of the WordPress operator

The operator watches `WordPress` resources and keeps, for each, a WordPress
Deployment and, when the database is internal, a MySQL StatefulSet with all
that belongs to them. Two models look at it from two sides. The *controller*
model is one resource over time: the reconcile loop inside the part of
Kubernetes it depends on, with caches that lag, calls that fail and others who
write. The *namespace* model is all resources at one time: their documents
field by field, the defaults of schema and code, and the names, labels and
references of the objects built from them. TLC checks both on small instances;
for every instance TLAPS proves what the finalizer guarantees, the refinement of
an abstract specification, that no wake-up is lost on the way to the wanted
children and to a true status, what an observed generation and a Ready condition
are worth, that a database is made with the storage it was submitted with, that
the password opens the data, and all that is said of names, labels and documents. Some of these theorems have hypotheses on what users submit
and which disturbances there are; section 4 names them, and section 5 shows why
they are there.

Line numbers without a file are those of
`src/internal/controller/wordpress_controller.go`.

## 1. Inventory

| Part | State | Operations | Talks to |
|---|---|---|---|
| Reconcile loop (`wordpress_controller.go`) | the object of the pass, in memory | `Reconcile`, `handleDeletion`, `reconcileDatabase`, `reconcilePVC`, `reconcileWordPressDeployment`, `applyService`, `reconcileIngress`, `reconcileHPA` | cache (reads), API server (writes) |
| Watches and queue (`SetupWithManager` :647, controller-runtime) | one key per resource, delayed additions | event handlers, predicate, back-off | informer caches, worker |
| Status writer (`updateStatus` :496, `markFailed` :589, `persistStatus` :600) | the status subresource | recompute, re-read and overwrite, retry on conflict | API server |
| Defaults and validation (`defaults.go`, `validateSpec` :143) | none | pure functions of the spec | the loop |
| Builders (`resources.go`, `database.go`) | none | children from the spec | the loop |
| Names and labels (`names.go`) | none | names, labels and selectors from a resource's name | builders, the loop |
| Replica control (`resources.go` :203, `updateStatus` :509) | the Deployment's replica count | set, left to the autoscaler, read back | autoscaler, kubelets |
| Database credentials (`database.go` :44-79, :221) | the generated passwords, in a Secret made once | generate, keep | the data directory, the site |
| API types (`wordpress_types.go`) | the stored document | JSON round trip, schema defaults | API server |
| Kubernetes | stored objects, watch streams | users, garbage collector, StatefulSet controller, kubelets | everything |
| Manager (`cmd/main.go`) | leader lease, servers | start, stop | the loop |

Parts interact through stored objects alone. A pass *reads* from informer
caches, which lag behind the API server, and *writes* to the API server, which
refuses an update made from an old version. Every write comes back as a watch
event, and an event starts another pass if the filters let it through.

What is hard:

- **Stale reads.** A pass decides on copies that may be several versions old,
  and belong to an object that has been deleted or created again since.
- **Swallowed conflicts and filtered events.** `ignoreConflict` (:616) ends a
  pass without a retry, trusting that an event follows; the generation
  predicate (:653) drops events of finalizer, annotation and status updates.
- **Partial failure.** A pass makes up to a dozen calls; each may fail, or take
  effect and lose its answer, or be cut off by a restart.
- **Other writers.** Users edit and delete children, take their names, change
  annotations; the garbage collector deletes the children of a predecessor
  while its successor is being served.
- **Order of deletion.** The MySQL claim has no owner and must go before the
  finalizer does, unless the retain annotation says otherwise. It carries a
  password that the Secret, which has an owner, does not outlive.
- **Parts that no update sets.** Secrets, claims and the claim templates of the
  StatefulSet (:259) stay as the pass that created them made them, from the copy
  it had; a later edit reaches the rest of the children only.
- **Two sets of defaults.** The schema fills in the sections a document writes
  out, the code fills in the rest in memory, and the first update the operator
  makes sends back what Go makes of the document.

What makes each part correct:

- *Loop*: it ends in a cluster that matches the stored spec; it works only for
  the stored incarnation, protected by the finalizer; it deletes only what its
  resource controls; it never writes the user's spec; retained data stays.
- *Queue*: whenever work is left something will start a pass.
- *Status writer*: at rest the status tells the truth; a generation reported as
  observed has been rendered.
- *Defaults, validation, types*: the two sets of defaults agree, what the
  operator sends back is admitted, an accepted spec can be built.
- *What is only created*: it is made once, for the resource that asks for it, and
  never taken over from a predecessor.
- *Builders, names, labels*: references resolve, Services reach the pods of
  their own resource, names of two resources do not collide.
- *Replicas*: the autoscaler, when on, decides; zero replicas are a state the
  operator can rest in.
- *Credentials*: passwords and the data they were initialised with agree.

`PROJECT.json` lists the parts with what is modelled of each, and the hazards
at their lines.

## 2. Modules

| Module | Models |
|---|---|
| `WordPressSpec` | the spec fields that decisions depend on; `applyDefaults`, `validateSpec`, `WriteBack` (what a whole-object update stores); the kinds of children, when one is wanted, what it is rendered from |
| `Cluster` | stored objects, watch streams and caches, results of calls; users, garbage collector, StatefulSet controller, autoscaler, kubelets. Almost all external |
| `WordPressController` | queue, timers, event handlers, restarts, and `Reconcile` with everything it calls |
| `Lifecycle` | the abstract specification: one resource, its site and its data, without caches, queues or passes |
| `WordPressProperties` | what must hold of the controller; the mapping to `Lifecycle` |
| `MCWordPressController` | documents, plans of children and budgets for the runs |
| `Documents` | a spec field by field: the stored document, the Go value, the defaults of schema and code, `validateSpec`, encoding and decoding |
| `Rendering` | names, labels and selectors; for each builder what its object provides, needs and selects |
| `Namespace` | all resources of a namespace: documents are submitted, edited, sent back with the finalizer, removed; what must hold of them |
| `MCNamespace` | documents and names for the run |
| `WordPressProofs` | type correctness, proved |
| `FinalizerProofs` | what the finalizer guarantees, proved |
| `LifecycleProofs` | the controller implements `Lifecycle`, proved |
| `OwnershipProofs` | whose children are deleted, proved; what a step does to a watch stream |
| `ConvergenceProofs` | the children converge; specs written out in full are left alone, proved |
| `ObservationProofs` | an observed generation is a rendered one; a StatefulSet asks for the storage its resource was submitted with, proved |
| `StatusProofs` | the status and the Ingress condition converge, Ready means a database, the password opens the data, proved |
| `NamespaceProofs` | names, Services, references, defaults, the finalizer update, and the agreement of the two models, proved |

`Cluster` extends `WordPressSpec`, and so on through `WordPressController`,
`WordPressProperties`, and then the runs' module on one side and, on the other,
the proofs, each extending the one before: `WordPressProofs`, `FinalizerProofs`,
`LifecycleProofs`, `OwnershipProofs`, `ConvergenceProofs`, and the last extended by
`ObservationProofs` and by `StatusProofs`.
`Namespace` extends `Rendering`, which extends `Documents`. The two models meet
in `AgreesWithController`: `Namespace` instantiates `WordPressSpec` and compares,
for each document it reaches, what the few fields of the controller's model
decide with what the document decides.

### State

`obj[k]` is the watch stream of the one object of kind `k`: its head is the
controller's cached copy (`Cached`), its last element the stored object
(`Live`), and what lies between is on its way. `Deliver(k)` drops the head and
runs the event handler. One sequence gives reads that lag, updates that
conflict exactly when the cache is behind, and events in the order of writes.
`fresh` says that the version of the `WordPress` object held by the worker in
`handleDeletion` is still the stored one, that is, that its resourceVersion
matches. `queued` and `timer` are the key in the work queue and a pending
`AddAfter` or `AddRateLimited`; `pc`, `wp`, `todo` and `after` are the worker's
position, the object in its hands, the children it has still to visit and why
it is writing the status.

A child is its controlling owner, the part of the spec it was rendered from
(the replica count included), what its claim templates ask for (a StatefulSet), what its status says of its pods (not all ready;
ready, but of the content before the last change; ready) and, for the Secret,
its password. The MySQL claim has a deletion mark and the password its data
directory was initialised with.

One field exists for a property only: `pledge` records that the retain
annotation was set when the deletion was requested and has not been touched
since.

In `Namespace` the state is the stored document of each resource and which
resources have the finalizer. A name is a sequence of words, the parts between
dashes, so that appending a suffix is what it is in the code.

### Actions and code

| Action | Code |
|---|---|
| `ReconcileFinished` | :65-71 not found; `handleDeletion` :558-560 nothing of ours to finalize |
| `HandleDeletion`, `RemoveFinalizer` | `handleDeletion` :550-587, up to and including the deletion of the claim, and the finalizer update |
| `AddFinalizer` | :78-85 |
| `RejectSpec` | :92-98, `markFailed` |
| `AcceptSpec`, `CheckUserSecret` | :87-101, `reconcileDatabase` in External mode |
| `ApplyChild(k)` | `reconcileDatabase` in Internal mode and :117-129, one child |
| `UpdateStatus`, `PersistStatus` | :131-140, `updateStatus`, `persistStatus` |
| `Deliver`, `TimerFires`, `Restart` | `SetupWithManager` :647-663, the manager and its caches |
| the actions of `Environment` | external |
| `Namespace!AddFinalizer` | :78-85 and the API server's defaulting of the update |
| `Namespace!Submit`, `Edit`, `Remove` | users through the API server |

A step of the worker is one API call that may change something, together with
the cached reads since the previous one. Merging a read with its write loses
nothing: a write of somebody else that comes between them is one that came
before the read and has not been delivered yet, and a delivery between them
could as well have come after the write, which is made from the older copy.
`handleDeletion` is the exception, since its object is read long before the
finalizer update, and `fresh` is there for it.

### What is abstracted, and why that is sound

- *Contents.* What an update of a child sets is the part of the spec it is
  rendered from (`Render`); `rev` stands for all fields that are only copied.
- *Claim templates.* The StatefulSet has a second part, its claim templates, made
  of `storageSize` and `storageClassName` (`storage`). The code's update sets the
  pod template and the replicas alone (:259-263), so only the creation sets them
  (`ClaimTemplates`, `Written`), and an edit of the two fields is observed without
  ever being rendered. Labels of the StatefulSet and its pods depend on the name
  of the resource alone, so an update that leaves them out leaves nothing behind.
  Nobody else changes the templates either: the API server holds them immutable.
- *Comparisons.* Deployment, StatefulSet and
  Services get defaults from the API server that the builders leave empty, so
  the code's comparison never finds them equal and each pass updates them; the
  update of an equal object is stored as no change (`ServerDefaulted`, `Put`).
- *Replicas.* The update of a Deployment without a count is stored with 1, as
  the API server defaults it; the autoscaler may choose any of `Scales`. Pods
  of a changed workload stay ready "outdated" until the rollout: the code reads
  `readyReplicas` without `observedGeneration`.
- *Passwords* are numbers; `generatePassword` returns the least that neither a
  Secret nor a data directory, cached or stored, holds. Which one does not
  matter, only that it is new.
- *Documents.* `Documents` has every field with a default, a bound or a part in
  a decision, and the sections they live in, since a section that is a struct
  is always written by Go and one behind a pointer is not. Fields that are only
  copied (resources, affinity, tolerations, annotations, extra environment) are
  left out, and so is the parsing of quantities.
- *References.* What an object needs and provides are tuples (a Secret and a
  key, a Service and a port, a claim, a database and its user, a site's
  address). Objects the user brings along are not looked for.
- *Results of calls.* A create meets an existing object, an update a missing or
  newer one, a deletion a missing one. Besides, a call may fail without effect
  ("fault") or take effect and report an error ("lost"), within the budget.
  Reads fail only as part of the passes such failures repeat.
- *`persistStatus`.* An attempt that conflicts and is repeated changes nothing
  and is a stutter; the attempts running out is an outcome of its own, within
  the budget "giveup". As the attempts re-read through the cache, they conflict
  until the cache has caught up.
- *Queue.* Back-off times are left out: a pending addition may fire at any time.
  Merging `RequeueAfter` with the rate-limited retry in one bit is sound since
  both add the same key. The ten-hourly resync of the informers is left out: no
  property should have to wait for it.
- *Restart.* The caches are listed anew and each object in them arrives as a
  creation, which the predicate lets through.
- *Generations* count spec changes and the request for deletion, as the API
  server does for a resource with a status subresource.
- *One resource, one worker.* `MaxConcurrentReconciles` is 1 and a leader
  election admits one manager. A second resource matters only through shared
  names, which `Namespace` looks at.
- *Status.* The database host, the URL, replica counts, the reasons and
  messages of conditions, events and logs are left out.
- *Users* do not take finalizers off by hand and set none of their own; they
  delete in the background.

## 3. Runs

All but `documents` run `MCWordPressController`. `D` and `S` are the children
visited in the database step and after it, `L` the lag, that is the number of
versions a watch stream may be behind (a write that would exceed it waits for a
delivery). The budget bounds disturbances: creations, edits, deletions of the
resource, failed calls, restarts and the rest; deliveries, passes, timers and
the other controllers are not bounded. `CHECK_DEADLOCK FALSE` is set in these
runs because a served site with the budgets spent is meant to stand still. The
runs `internal` and `incarnations` are symmetric in the values of `storage` and
`rev` a document may have: they check safety alone, and nothing in it tells these
values apart.

| Run | Instance | Shows |
|---|---|---|
| `internal` | Internal, in two documents that differ in `storage` and in `rev`, D = Secret, StatefulSet, S = Deployment, L = 1; 1 edit, 1 fault | `TypeOK`, `ChildrenConverge`, `StatusConverges`, `ObservedMeansRendered`, `DataOpens` |
| `children` | External, S = content claim, Deployment, Ingress, L = 1; 2 creations, 1 deletion, 1 fault, 1 child edited or deleted, 1 pod failure | `ChildrenConverge`, across incarnations |
| `incarnations` | Internal in two sizes, D = StatefulSet, S = none, L = 2; 2 creations, 2 deletions, 1 annotation change, 1 restart | `FinalizerHeld`, `StorageAsSubmitted`, `CreatedForLiveOwner`, `RetainHonoured`, `ImplementsLifecycle` |
| `optional` | External with and without Ingress and autoscaler, or invalid, S = Deployment, Ingress, autoscaler, L = 1; 1 edit, 1 scaling, 1 restart, a foreign autoscaler from the start or later | `ChildrenConverge`, `StatusConverges`, `IngressConditionConverges`, `OnlyOwnDeleted` |
| `live` | Internal, External, or no replicas, D = StatefulSet, S = Deployment, L = 1; 1 edit, the Secret made or removed once; fairness | `StatusConverges`, `Converges` |
| `documents` | resources `a` and `a-mysql`; every pair of edge values of two fields, in documents with all sections and with the fewest, with and without an external database; edits into External and into autoscaling | `FinalizerAdmitted`, `DefaultsAgree`, `AcceptedIsBuildable`, `ReferencesResolve`, `ServicesReachOwnPods`, `NamesDistinct`, `AgreesWithController` |
| `lost_event`, `spec_rewritten`, `secret_removed`, `deletion_stuck`, `data_left`, `autoscaler_fought` | the smallest instance of each | violated: section 5 |

Why these bounds are enough for the questions asked. A stale read needs a cache
one version behind; two, in `incarnations`, let a deletion and a re-creation
hide behind the cached copy, which is where identity matters. A call of every
kind can fail at every point of a pass, and failures do not accumulate state,
so a second one repeats the first. Two incarnations are needed to confuse one
with the other. Children are handled in four ways (created only, always
updated, updated when different, removed when switched off), and each way meets
drift, failure and garbage collection in some run. A default, a bound or a
check looks at no more than two fields of a document at once, apart from the
three of an external database, which `WithDatabase` adds to every pair: hence
pairs of values. The names `a` and `a-mysql` are the only kind of pair that can
meet, which is proved.

What the properties of `documents` say of one another: `FinalizerAdmitted` keeps
a resource from being stuck before its first pass; `DefaultsAgree` says that
the first write does not change what is built, `persistence.enabled` apart;
`AcceptedIsBuildable` that no builder meets a nil section or a bound out of
range; `ReferencesResolve` that what one object refers to another provides,
under names written down in several places; `ServicesReachOwnPods` that user
labels lead no Service astray.

**Convergence** is stated about *quiescent* states: nothing queued, no timer, no
event on its way, no garbage left, all pods ready. A lost wake-up, which is how
this design fails, is a quiescent state that is not as it should be, so an
invariant finds it, without fairness. *As it should be* covers what an update
sets. What is only ever created does not follow an edit, so `Settled` does not ask
it to; of the claim templates `StorageAsSubmitted` says what can be said: until a
spec is edited, a resource's own StatefulSet has those of the stored spec. It
could fail without any edit: a resource created again with another size meets the
StatefulSet of its predecessor, in the cache or stored, and updates it. The
update does not take it over, so the garbage collector removes it and a later
pass makes the right one. Its variant `WrittenAdopting`, an update that sets the
owner as it sets everything else, keeps the old size for good. `incarnations`
looks at this with two sizes; in `internal`, an edit changes the size along with
the rest, and what an update sets converges although the size does not.

A status write that runs out of attempts (:606) ends a pass without another. No
standing run has one, as it doubles the states of `children` (4.6 million, in which
`ChildrenConverge` holds); the theorem `ChildrenAlwaysConverge` has no condition on
their number. The status they leave behind is in section 5.

**Fairness** (`FairSpec`): weak fairness of the worker as a whole, of the timer,
of each watch stream, and of the other controllers as a whole. The manager runs
informers, queue and worker as long as it lives (`cmd/main.go` :199) and a
continuously possible step of a goroutine is eventually taken; the kubelets and
controllers are assumed to do their part. Nothing is assumed of users, and
nothing that pods flap, calls fail or the process restarts.

**Preconditions.** `ObservedMeansRendered` excuses children somebody else
edited (`drift`) or an autoscaler has scaled (`scale`), and is about pod templates,
replica counts and Services; claim templates it leaves out. `StorageAsSubmitted`
speaks of behaviours up to the first edit of a spec. `StatusConverges` and `Converges` are checked without faults
for invalid specs, since the error of `markFailed` is dropped on purpose (:95),
without a status write that gives up (section 5) and without `drift`;
`StatusConverges` also excuses a foreign Ingress or autoscaler, whose changes
raise no event (`NoIntruder`). `OnlyOwnDeleted` is stated with foreign objects
that exist beforehand. `DataOpens` is checked without the retain annotation and
with one incarnation: what a second one finds is in section 5. A site scaled to
zero is served by being reported as not ready, pass after pass (`Served`).
`ReferencesResolve` and the properties of Services and names are about accepted
documents.

## 4. Proofs

TLAPS checks these theorems for all values of the constants, that is for any
documents, plans, budgets and lags, any names and any words. The assumptions
are `ClusterAssumption` (documents are storable, the lag is positive, budgets
and passwords are numbers, `Alien` and `Absent` are none of the things they are
to be told from), `PlanAssumption` (plans visit children of their own kinds in
the code's order), `WordsAssumption` (the suffixes are words), `NilAssumption`
(the nil pointer is no number) and `NamespaceAssumption` (names are not empty,
documents are well-formed: sections inside sections, numbers and flags where the
Go types have them, as the API server checks before anything else). The
theorems below marked with * have hypotheses besides, which are explained with them.

- `TypeCorrect` (`WordPressProofs`): `Spec => []TypeOK`. Besides types it says
  that the worker holds an object exactly while it is in a pass.
- `FinalizerAlwaysHeld`: whatever the lag, a pass that looks at children or
  writes a status does so for the stored incarnation, which has the finalizer.
- `AlwaysCreatedForLiveOwner`: no child is ever created for a resource that is
  not the stored one.
- `RetainAlwaysHonoured`: `handleDeletion` does not delete the claim of a
  resource deleted, and kept, with the retain annotation.
- `LifecycleImplemented` (`LifecycleProofs`): every behaviour of the controller
  is one of `Lifecycle` under the mapping of `WordPressProperties`.
- `OnlyOwnAlwaysDeleted` (`OwnershipProofs`): an Ingress or autoscaler that the
  controller deletes belongs to the resource of the pass.
- `ChildrenAlwaysConverge`* (`ConvergenceProofs`): no wake-up is lost; when
  nothing is pending, all children a pass visits exist and are, in all that an
  update sets, as the stored spec asks.
- `FullSpecsUntouched`*: specs that are written out in full are never changed by
  the operator.
- `ObservedAlwaysMeansRendered` (`ObservationProofs`): a generation reported as
  observed has been rendered into pod templates, replica counts and the Service.
- `StorageAlwaysAsSubmitted`: until a spec is edited, the claim templates of a
  resource's own StatefulSet are those of its spec.
- `StatusAlwaysConverges`* (`StatusProofs`): when nothing is pending, the status is
  true of the stored spec and its workloads.
- `IngressConditionAlwaysConverges`*: when nothing is pending, a resource without an
  Ingress reports none.
- `DataAlwaysOpens`: until somebody asks for a deletion or touches a child, the
  password in the Secret opens the data.
- `InternalReadyImpliesDatabase`*: where all databases are internal, no stored
  status is Ready without its database, in any state at all.
- `NamesAlwaysDistinct`, `ServicesAlwaysReachOwnPods`, `ReferencesAlwaysResolve`,
  `FinalizerAlwaysAdmitted`, `AcceptedAlwaysBuildable`, `DefaultsAlwaysAgree`,
  `AlwaysAgreesWithController` (`NamespaceProofs`): every property of the
  namespace, for any documents.

`FinalizerHeld` is not inductive: it speaks of the worker's object, which came
from the cache, while deletions act on the stored object. `FinalizerInv`
strengthens it over the whole watch stream. Its parts:

- `HoldInv`: every version in the stream that has the finalizer and no deletion
  is of the stored incarnation, and that still has the finalizer. The reason is
  that nobody but the operator removes a finalizer, that the
  operator removes it only from a copy that carries the deletion, and that the
  API server takes the removal only when this copy is the stored one.
- `RemovalInv`: a removal that would succeed was decided on the stored
  version, and nothing older is on its way.
- `PledgeInv`: once the finalizer is stored the stream has no versions of a
  predecessor, and those that carry a deletion carry the pledged annotation.

Each action either leaves the `WordPress` stream alone, shortens it, or appends
a version of one of a few shapes (`ResourceStep`); one lemma per shape shows
that the invariant survives it.

The refinement goes through one more invariant and one more abstraction.
`OwnerInv` counts incarnations: a child belongs to one that was created, and
none to a resource whose finalizer is not stored yet, so that a new resource
starts with an empty site whatever its predecessor left behind. `StoredStep`
says what a step of the whole system does to the stored objects: nothing, or
one object of one kind, a child in one of four ways, the claim in one of three.
`NextStoredStep` derives it from the controller's actions, once; `StepImplements`
then matches each way with an action of `Lifecycle` or with a stutter, using
`FinalizerInv` for the stage and `PledgeInv` for the promise.

*Ownership.* The controller looks at the owner of a cached child and deletes
whatever has the name. `OrderInv` says why that is enough: the owners of the
versions in a stream only grow, since children are created for the stored
resource and uids are given out in order, so that a child the cache shows as
owned by the resource of the pass can have been replaced by a child of that or
a later resource only, and a later one there is not while the finalizer holds
(`FinalizerInv`). From here on, `StreamStep` says what any step does to any
stream: nothing, the head is delivered, the caches are listed anew, or one
version is appended that differs from the last; `NextStreamStep` derives it from
the actions once, and the proofs below look at streams only through it.

*Convergence.* The invariant has two layers. `NoticeInv` is about events:

- `AlikeInv`: of any version of the resource in the stream, either a pass could
  not tell it from the stored one, or a change behind it is one the filter lets
  through. This is where the generation predicate is shown to drop nothing a
  pass needs to see.
- `OwnedInv`: every version of a child has an owner, and successive versions
  differ, so the owner is told of every change.
- `SubmittedInv`: without the finalizer the spec is still the submitted one.

`WakeInv` is about work: of a valid, stored resource to which no key, timer,
passing event or lagging child calls attention (`Unattended`), `Progress` holds:
an idle worker has settled all children; a pass under way works from the stored
spec and has settled what it no longer has before it; and a status about to be
written after a full pass is of settled children, while one after a failure will
be followed by another pass. `WakeKept` shows that only the start of a pass uses
a wake-up up, `BeginProgress` that a pass that starts with nothing else to wait
for reads what is stored, `VisitSettles` that a call that wakes nobody has found
its child as the spec asks. A quiescent state is an unattended one with an idle
worker.

The two hypotheses are conditions on what users submit, and the theorem is false
without either. `Rewritten`: the finalizer update changes every valid spec that
is submitted, that is, some section is left out or some field is written empty;
otherwise its event is filtered and no pass follows, which the run `lost_event`
shows (section 5). `Unclaimed`: no foreign object has the name of an Ingress or
autoscaler; the controller updates such an object without owning it, a conflict
with it is swallowed, and its events reach no key (section 5 again). The runs
`internal` and `children` satisfy both; `optional` checks the property with a
foreign autoscaler, which the theorem leaves out.

*Observation.* A status is computed from a cached copy, over children read from
other caches, and written later over whatever version is stored then.
`ObservationInv` relates all of them. `GenerationInv`: along the stream,
generations grow, equal ones carry equal specs, and what a version reports as
observed every earlier version of the stream has reached already. `PassInv`: a
pass works from a version no later than any it can still see. `RenderedInv`: if
the stored generation is reported by any version in the stream, or about to be,
all children that every pass updates have the content of the stored spec; and a
pass for the stored generation has rendered what it no longer has before it. The
last part makes it inductive: the report is the last step of such a pass, and
until then a pass for an older generation may undo nothing, since it would have
to work from a version older than the one the report was made from
(`ReportedBounds`). `ResourceHistory` sums up how the stored resource changes,
who counts its generation and who writes its status.

*Storage.* The claim templates are decided once, by a pass that may work from an
old copy, so `StorageInv` is about everything a pass can work from: until a spec is
edited, every version of the stored incarnation in the stream, and the object of
the pass, ask for the storage of the stored spec, since neither the defaults nor
the finalizer's whole-object update touch it (`StorageOf`). A StatefulSet that is
the resource's own was created by a pass for it (`TemplatesStep`, `FinalizerInv`);
the uid of a new incarnation is greater than any owner a StatefulSet has
(`OrderInv`) and than that of any version still on its way (`GenerationInv`), so
nothing of a predecessor counts as its own. What an edit does is not in doubt and
not in the theorem: no update touches the templates.

The proofs about `Namespace` are of another kind: what they say holds of any
stored documents, so the work is in the operators. Names are compared by kind:
appending a word, or two, is injective, hence equal names of one kind come from
equal resources, except where two builders make Services (`OneCollision`). A
selector fixes instance and component, and a workload that runs carries its
own selector's labels whatever the user has merged over them (`SameSelector`,
`Selected`): that is why a Service cannot be led astray, and why the API server
must refuse such a Deployment. References are resolved object by object:
what each builder needs, under the part of the spec that makes it need it, is
provided under the same part (`ObjectResolves`, `ControllerResolves`).

The documents' theorems rest on two inductive invariants, `AllAdmitted` (what is
stored the schema would admit again) and `AllComplete` (a section that is
written out has all fields the schema fills in), and on lemmas that say what
each conversion does to a field: `Decoded` (the Go value), `Stored` (what an
update made from it stores), `Reread` (the Go value after that),
`DefaultsApplied` (what `applyDefaults` leaves). The tables enter through facts
about them: `DefaultsAllowed` and `CodeBounds` (both sets of defaults are within
the schema's bounds) and `TwoDefaults` (where the schema has a default, the
code has the same or it is the zero value, `persistence.enabled` apart).
`AcceptedIsBuildable` follows field by field, since a number that was written is
in bounds and one that was not gets a default that is (`InBounds`).
`DefaultsAgree` takes more: a field the schema fills in during the finalizer
update must be in a section that `applyDefaults` looks at in the mode it
settles on, for every field that reaches a child (`SameField`).
`AgreesWithController` adds that an update changes nothing exactly when the
document is written out with persistence on (`WriteBackWrittenOut`,
`WriteBackKeeps`), which is what makes `full` and `persist` enough for the
controller's model.

*Status.* `NoticeInv` and `WakeInv` carry over: as far as the children go, a pass
that nothing else will follow works from the stored spec and leaves every child
settled. What the status adds is that the last such pass also *wrote* what it
found. `ReadyInv` follows it through the worker's positions: while children are
still to be visited, the condition of the database is about to be set or already
true of the StatefulSet; when the status is about to be written it carries the
stored generation and tells the truth; when the worker is idle the stored one
does (`ReadyTold`). `Up` is what the controller can see, pods ready for this
content or an older one, and becomes `Ready` only in the quiescent state.
`PersistLands` is where a write is shown to have arrived: if it had failed, been
lost or met a conflict, the pass would have asked for another, with two exceptions
that are the hypotheses. `RejectInv` is the same for a spec that is rejected, under
the weaker wake-up condition `Unprompted`, since `WakeInv` speaks of valid
resources only. `IngressInv` is the same for the Ingress condition: the pass that
deletes the Ingress still reports it (:402), and the event of that deletion, of
an object the resource owns, is what brings the next pass.

The hypotheses of `StatusAlwaysConverges`, each of which removes a known failure:

- `AlwaysRewritten`, which is `Rewritten` for rejected specs too, and `Unclaimed`,
  as above.
- `NeverGivesUp`: `RetryOnConflict` does not run out of attempts. When it does,
  the last conflict is dropped (:133), and the old status stays.
- `RejectionsLand`: all specs are valid, or no call fails. The error of the
  write that reports a rejection is dropped by design (:95).
- `VisitsDatabase`: the plan visits the StatefulSet, as the code does with every
  internal database. A plan without it is a means of keeping runs small.

`IngressConditionAlwaysConverges` needs `Rewritten`, `Unclaimed`, `NeverGivesUp` and
that the plan visits the Ingress (`VisitsIngress`). The run `internal` satisfies
all hypotheses of the first theorem with edits and faults, `live` with the user's
Secret coming and going; `optional` checks both properties outside them, with a
foreign autoscaler.

*Data.* `DataOpens` relates two objects that no step writes together. `KeptInv` says
why they agree as long as `NothingLost` holds, that is, nobody has asked for a
deletion and nobody has edited or deleted a child: the resource has not changed
hands, so the stored Secret is its own and is not collected (`SecretStep`); a
Secret is made only where there is none, since a cached absence that is out of
date meets an existing object; and the data directory is initialised with the
password of the Secret that is stored then (`ClaimStep`). Faults, restarts,
edits, switches of mode and lag change none of it. `NothingLost` is a condition on
the state and not on the constants: every behaviour is covered up to the first
deletion or manipulation. What follows a deletion is in section 5; a Secret that
somebody deletes is generated anew, with another password, and the data it had
opened stay shut.

*Readiness.* In general `ReadyImpliesDatabase` is false, as `secret_removed` shows.
`HonestInv` says why it takes an external database: a pass over an internal one
does hold a status, at hand, that is Ready without a database, between the visit
to the StatefulSet and `updateStatus`; but a visit has the status written only
when it fails in the database step, and the StatefulSet is the last child of that
step (`PlanInOrder`, `VisitEnds`). The property is about every stored version at
every moment and needs no quiescence, and no condition on faults, lag or
deletions.

*Specs.* `FullSpecsUntouched` is the other side of `spec_rewritten`: the only
write of the operator that holds a spec is the finalizer update, and it stores
`WriteBack` of a submitted spec, or of one that such an update has stored. Together
with `Rewritten` it says that the operator is caught between two faults: a spec
that is safe from being rewritten is one whose creation wakes nobody a second
time.

Model-checked only: the refutations of section 5; the instances outside the
hypotheses of a theorem, such as the foreign autoscaler in `optional`; and liveness
(`Converges`, and `DeletionCompletes` in its refutation), which is beyond the
prover, as are inductions over data, of which the models have none.

## 5. Where the code and its documents part

Each has a run that TLC refutes.

- `lost_event`. The update that adds the finalizer is expected to start the
  next pass, but the generation filter lets it through only when it also
  changes the spec. It usually does, by accident (next item); for a document
  that writes every section out it does not, and nothing is created until a
  restart or an edit.
- `spec_rewritten`. That update sends the decoded spec back. `persistence.enabled:
  false` is dropped by `omitempty`, and the schema default makes it `true`.
- `secret_removed`. With the Secret of an external database gone, the pass ends
  before `updateStatus`: `DatabaseReady` turns False and `Ready` stays True.
- `deletion_stuck`. The finalizer update conflicts with the operator's own
  status write that is not yet in the cache. The conflict is swallowed, the
  status event is filtered, and the resource stays terminating.
- `data_left`. `handleDeletion` looks for the claim while the StatefulSet that
  makes it still exists; a claim made after that look outlives the resource and
  the Secret that opens it. (:567)
- `autoscaler_fought`. A nil replica count does not leave the stored one alone:
  the update replaces the Deployment's spec and the API server defaults the
  count to 1, so each pass undoes the autoscaler's choice. (`resources.go` :205)

Further behaviours of the models are known and have no standing run. They limit
what the runs assume, as said above.

- A status write that gives up while the cache lags leaves the old status
  (:608, :133).
- An edit of `storageSize` or `storageClassName` of a running internal database is
  reported as observed, with phase Ready, and reaches neither the StatefulSet nor
  the claim (:259-263). The comment there says why; the status does not.
- The claim of a resource that was switched to External before it was deleted
  stays, since `handleDeletion` goes by the mode it finds (:564), although its
  comment says that these claims are deleted explicitly (:551).
- A resource created again may end up Ready over data its Secret does not open:
  over a claim that was left or retained, or when the predecessor's Secret is
  still in the cache when its successor looks, and is collected after the data
  directory was initialised (:221).
- An Ingress somebody creates between the cached look and the deletion is
  deleted by name (:410). Switching the Ingress off keeps
  `IngressConfigured=True` when one exists that the resource does not own
  (:412). A swallowed conflict on a foreign Ingress also skips the autoscaler,
  and no event follows (:125).
- Specs that `validateSpec` accepts and no pass completes: pod labels that
  replace a selector label (`resources.go` :73), sizes that are no quantities
  (`resources.go` :242, `database.go` :113). Its comment (:142) says that it
  rejects spec combinations that cannot be reconciled.
- The database Service of `x` and the site Service of `x-mysql` have one name,
  and `applyService` updates it for both, whoever owns it (:365).
- Fields written out empty (`tablePrefix: ""`, `image: ""`) are stored so, and
  used with their defaults.

## 6. Not modelled

Flags, TLS, metrics, health checks and leader election of the manager: wiring
without state the resources depend on. Generated code and manifests. The wording
of conditions and events, and fields of children that are copied without a
decision. The parsing of quantities. Two resources *over time*: the controller
model has one, and the collision of Services is stated, not run through.
Foreground deletion, finalizers of others, and the resync of the informers.

## 7. Plan

Done: the controller and its proofs about the finalizer; the abstract
`Lifecycle` and its refinement; ownership, observed generations, the convergence
of children and status, readiness and credentials, proved; replicas and
credentials, in the controller's modules rather than in modules of their own,
since what is hard about them is how they meet caches and incarnations;
documents, rendering and the namespace.

Left, in this order:

1. Two resources whose Services collide, as two instances of the controller on
   shared objects.
2. Foreground deletion and finalizers of others.
